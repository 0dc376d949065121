----------------------------- MODULE BlockModes -----------------------------
(***************************************************************************)
(* libnpmcrypto/aes.c: the block modes ECB and CBC, on the memory of the   *)
(* caller.                                                                 *)
(*                                                                         *)
(* Memory is a sequence of bytes and a pointer is the index of one.  The   *)
(* block cipher is any permutation per key with its inverse.  The modes    *)
(* walk over input and output in steps of a block while both may lie in    *)
(* the same buffer, any number of bytes apart; what is hard is which of    *)
(* the caller's bytes an iteration finds still there.                      *)
(***************************************************************************)
EXTENDS CryptoH, Naturals

CONSTANTS
  BlockBytes,  (* bytes per block: 16                                      *)
  ByteBits,    (* a byte is a set of bits, those that are 1                *)
  Keys,        (* the key schedules                                        *)
  Encrypt,     (* aes_block_encrypt: a permutation of the blocks per key   *)
  Decrypt,     (* aes_block_decrypt                                        *)
  MemSize,     (* bytes of memory                                          *)
  Memories,    (* what the memory may hold at first                        *)
  Lens,        (* the values of len, in bytes                              *)
  MaxCalls     (* bound on the calls                                       *)

InBlock == 0 .. BlockBytes - 1
Block == [InBlock -> SUBSET ByteBits]
Addresses == 0 .. MemSize - 1

ASSUME CipherAssumption ==
  /\ Encrypt \in [Keys -> [Block -> Block]]
  /\ Decrypt \in [Keys -> [Block -> Block]]
  /\ \A k \in Keys, b \in Block : Decrypt[k][Encrypt[k][b]] = b

ASSUME MemoryAssumption ==
  /\ BlockBytes \in Nat \ {0} /\ MemSize \in Nat
  /\ Memories \subseteq [Addresses -> SUBSET ByteBits]
  /\ Lens \subseteq Nat
  /\ MaxCalls \in Nat

Functions == {"aes_ecb_encrypt", "aes_ecb_decrypt",
              "aes_cbc_encrypt", "aes_cbc_decrypt"}

(* The arguments of a call.  CBC reads its IV through a pointer too.       *)
Calls == [fn : Functions, data : Nat, iv : Nat, len : Nat, out : Nat,
          key : Keys]

VARIABLES
  mem,      (* the memory                                                   *)
  mode_pc,  (* "idle", or in the "loop" of a call                            *)
  call,     (* the arguments of the last call                                *)
  data,     (* the pointers of the function, which move                      *)
  out,
  mode_i,   (* its loop counter                                              *)
  tempIv,   (* tempIv                                                        *)
  mode_ret, (* what the last call returned                                   *)
  before,   (* history: the memory when the last call began                  *)
  sealed,   (* history: the last text encrypted with CBC                     *)
  calls     (* history: how many calls were made                             *)

modesVars == <<mem, mode_pc, call, data, out, mode_i, tempIv, mode_ret,
               before, sealed, calls>>

NumBlocks(c) == c.len \div BlockBytes

Chained(c) == c.fn \in {"aes_cbc_encrypt", "aes_cbc_decrypt"}

(* CONDITION_CHECK at the head of a function: CBC wants at least a block.  *)
BadLength(c) == c.len % BlockBytes # 0 \/ (Chained(c) /\ c.len = 0)

(* The buffers of a call belong to the caller; ECB has no IV.              *)
InMemory(c) ==
  /\ c.data + c.len <= MemSize
  /\ c.out + c.len <= MemSize
  /\ IF Chained(c) THEN c.iv + BlockBytes <= MemSize ELSE c.iv = 0

Arguments ==
  {c \in [fn : Functions, data : Addresses, iv : Addresses, len : Lens,
          out : Addresses, key : Keys] : InMemory(c)}

(* XMEMCPY of 16 bytes from address a, and to it.                          *)
BlockAt(m, a) == [i \in InBlock |-> m[a + i]]
Put(m, a, b) ==
  [x \in Addresses |-> IF x \in a .. a + BlockBytes - 1 THEN b[x - a] ELSE m[x]]

(* XOR of 16 bytes, ZEROMEM.                                               *)
XorBlock(a, b) == [i \in InBlock |-> Xor(a[i], b[i])]
ZeroBlock == [i \in InBlock |-> {}]

(* The address of block j behind a, and n blocks from a.                   *)
At(a, j) == a + BlockBytes * j
Text(m, a, n) == [j \in 0 .. n - 1 |-> BlockAt(m, At(a, j))]
Texts(n) == [0 .. n - 1 -> Block]

(* A buffer used for input and output: what a loop reads in an iteration   *)
(* must not have been written by an earlier one.  CBC decryption reads its *)
(* input once more after it has written the output of the same iteration:  *)
(* an output that begins less than a block before the input destroys it.   *)
(* A text of one block is read before anything is written.                 *)
OverwritesUnread(c) ==
  /\ NumBlocks(c) > 1
  /\ c.data < c.out /\ c.out < c.data + c.len
OverwritesUnchained(c) ==
  /\ NumBlocks(c) > 1
  /\ c.data < c.out + BlockBytes /\ c.out < c.data + c.len

-----------------------------------------------------------------------------
ModesInit ==
  /\ mem \in Memories
  /\ mode_pc = "idle"
  /\ call \in {[fn |-> "aes_ecb_encrypt", data |-> 0, iv |-> 0, len |-> 0,
                out |-> 0, key |-> k] : k \in Keys}
  /\ data = 0 /\ out = 0 /\ mode_i = 0
  /\ tempIv = ZeroBlock
  /\ mode_ret = CRYPTO_OK
  /\ before = mem
  /\ sealed = [key |-> call.key, iv |-> ZeroBlock, n |-> 0,
               plain |-> Text(mem, 0, 0), cipher |-> Text(mem, 0, 0)]
  /\ calls = 0

(* The beginning of a function: its checks, num_block, the first IV.       *)
EnterMode(c) ==
  /\ call' = c
  /\ data' = c.data /\ out' = c.out /\ mode_i' = 0
  /\ before' = mem
  /\ calls' = calls + 1
  /\ IF BadLength(c)
     THEN mode_ret' = CRYPTO_INVALID_DATA_SIZE /\ UNCHANGED <<mode_pc, tempIv>>
     ELSE /\ mode_pc' = "loop"
          /\ tempIv' = IF Chained(c) THEN BlockAt(mem, c.iv) ELSE tempIv
          /\ UNCHANGED mode_ret
  /\ UNCHANGED <<mem, sealed>>

Call == /\ mode_pc = "idle" /\ calls < MaxCalls
        /\ \E c \in Arguments : EnterMode(c)

(* One iteration of the loop of each function.  The ECB functions move     *)
(* `out` and leave `data` where it is.                                     *)
(* (A mutant runs the loop once more.)                                     *)
InLoopOnceMore(fn) ==
  mode_pc = "loop" /\ call.fn = fn /\ mode_i <= NumBlocks(call)

InLoop(fn) == mode_pc = "loop" /\ call.fn = fn /\ mode_i < NumBlocks(call)

EcbBlock(fn, cipher) ==
  /\ InLoop(fn)
  /\ mem' = Put(mem, out, cipher[call.key][BlockAt(mem, data)])
  /\ out' = out + BlockBytes /\ mode_i' = mode_i + 1
  /\ UNCHANGED <<data, tempIv>>

EcbEncryptBlock == EcbBlock("aes_ecb_encrypt", Encrypt)
EcbDecryptBlock == EcbBlock("aes_ecb_decrypt", Decrypt)

(* CBC moves both pointers.                                                *)
Advance == /\ data' = data + BlockBytes /\ out' = out + BlockBytes
           /\ mode_i' = mode_i + 1

(* A mutant: the XOR goes into the input instead of tempXor.               *)
CbcEncryptXorsInPlace ==
  /\ InLoop("aes_cbc_encrypt")
  /\ LET xored == XorBlock(BlockAt(mem, data), tempIv)
         temp  == Encrypt[call.key][xored]
     IN  mem' = Put(Put(mem, data, xored), out, temp) /\ tempIv' = temp
  /\ Advance

(* A mutant: every block is combined with the first IV.                    *)
CbcEncryptKeepsIv ==
  /\ InLoop("aes_cbc_encrypt")
  /\ mem' = Put(mem, out, Encrypt[call.key][XorBlock(BlockAt(mem, data), tempIv)])
  /\ Advance
  /\ UNCHANGED tempIv

CbcEncryptBlock ==
  /\ InLoop("aes_cbc_encrypt")
  /\ LET temp == Encrypt[call.key][XorBlock(BlockAt(mem, data), tempIv)]
     IN  mem' = Put(mem, out, temp) /\ tempIv' = temp
  /\ Advance

(* A mutant: the next IV is what was written, as in encryption.            *)
CbcDecryptChainsOutput ==
  /\ InLoop("aes_cbc_decrypt")
  /\ mem' = Put(mem, out, XorBlock(Decrypt[call.key][BlockAt(mem, data)], tempIv))
  /\ tempIv' = BlockAt(mem', out)
  /\ Advance

(* The next IV is copied from the input after the output was written.      *)
CbcDecryptBlock ==
  /\ InLoop("aes_cbc_decrypt")
  /\ mem' = Put(mem, out, XorBlock(Decrypt[call.key][BlockAt(mem, data)], tempIv))
  /\ tempIv' = BlockAt(mem', data)
  /\ Advance

ModesLoop ==
  /\ EcbEncryptBlock \/ EcbDecryptBlock \/ CbcEncryptBlock \/ CbcDecryptBlock
  /\ UNCHANGED <<mode_pc, call, mode_ret, before, sealed, calls>>

(* The end of a function: CBC clears its temporaries.  The history keeps   *)
(* what was encrypted with CBC, if the input was still there to be read.   *)
Return ==
  /\ mode_pc = "loop" /\ mode_i >= NumBlocks(call)
  /\ mode_pc' = "idle"
  /\ mode_ret' = CRYPTO_OK
  /\ tempIv' = IF Chained(call) THEN ZeroBlock ELSE tempIv
  /\ sealed' =
       IF call.fn = "aes_cbc_encrypt" /\ ~OverwritesUnread(call)
       THEN [key |-> call.key, iv |-> BlockAt(before, call.iv), n |-> NumBlocks(call),
             plain |-> Text(before, call.data, NumBlocks(call)),
             cipher |-> Text(mem, call.out, NumBlocks(call))]
       ELSE sealed
  /\ UNCHANGED <<mem, call, data, out, mode_i, before, calls>>

ModesNext ==
  \/ Call
  \/ ModesLoop
  \/ Return

ModesSpec == ModesInit /\ [][ModesNext]_modesVars

-----------------------------------------------------------------------------
SealedType ==
  /\ sealed.n \in Nat
  /\ sealed \in [key : Keys, iv : Block, n : Nat,
                plain : Texts(sealed.n), cipher : Texts(sealed.n)]

(* Every variable has its type, and the loops stay inside the text.        *)
ModesTypeOK ==
  /\ mem \in [Addresses -> SUBSET ByteBits]
  /\ mode_pc \in {"idle", "loop"}
  /\ call \in Calls
  /\ InMemory(call)
  /\ data \in Nat /\ out \in Nat
  /\ mode_i \in 0 .. NumBlocks(call)
  /\ tempIv \in Block
  /\ mode_ret \in {CRYPTO_OK, CRYPTO_INVALID_DATA_SIZE}
  /\ before \in [Addresses -> SUBSET ByteBits]
  /\ SealedType
  /\ calls \in 0 .. MaxCalls

(* A call writes to the part of its output that it has reached and nowhere *)
(* else, also when it is refused or when its buffers overlap.              *)
OnlyOutputIsWritten ==
  \A a \in Addresses : a \notin call.out .. out - 1 => mem[a] = before[a]

(* What CBC combines block j with: the IV or the encrypted block before it.*)
Before(m, c, at, j) ==
  IF j = 0 THEN BlockAt(before, c.iv) ELSE BlockAt(m, At(at, j - 1))

(* CBC encryption chains every block of the input to the encrypted block   *)
(* before it, with separate buffers, in place, and with an output that     *)
(* begins any number of bytes before the input; the IV may lie in either   *)
(* buffer.                                                                 *)
CbcEncryptIsChained ==
  call.fn = "aes_cbc_encrypt" /\ ~OverwritesUnread(call) =>
    \A j \in 0 .. mode_i - 1 :
      BlockAt(mem, At(call.out, j)) =
        Encrypt[call.key][XorBlock(BlockAt(before, At(call.data, j)),
                                   Before(mem, call, call.out, j))]

(* The inverse of it: block j of the output is decrypted from block j of   *)
(* the input as it was at the call, unless the output overwrites it.       *)
CbcDecryptIsChained ==
  call.fn = "aes_cbc_decrypt" /\ ~OverwritesUnchained(call) =>
    \A j \in 0 .. mode_i - 1 :
      BlockAt(mem, At(call.out, j)) =
        XorBlock(Decrypt[call.key][BlockAt(before, At(call.data, j))],
                 Before(before, call, call.data, j))

(* A call of fn that returned CRYPTO_OK.                                   *)
Finished(fn) == mode_pc = "idle" /\ call.fn = fn /\ mode_ret = CRYPTO_OK

(* Decrypting with CBC what was encrypted with CBC, with the same key and  *)
(* an equal IV, from wherever it lies now to wherever it does not destroy  *)
(* its input, gives the text that was encrypted.  In place it does not,    *)
(* nor into an output that begins 1 to 15 bytes before the input           *)
(* (aes.c:505-509).                                                        *)
CbcDecryptInverts ==
  /\ Finished("aes_cbc_decrypt") /\ ~OverwritesUnchained(call)
  /\ call.key = sealed.key
  /\ BlockAt(before, call.iv) = sealed.iv
  /\ NumBlocks(call) = sealed.n
  /\ Text(before, call.data, sealed.n) = sealed.cipher
  => Text(mem, call.out, sealed.n) = sealed.plain

(* aes.h:47 and :50: the ECB functions work on "multiple block".           *)
EcbTakesEveryBlock ==
  /\ Finished("aes_ecb_encrypt")
  /\ ~OverwritesUnread(call)
  => \A j \in 0 .. NumBlocks(call) - 1 :
       BlockAt(mem, At(call.out, j)) =
         Encrypt[call.key][BlockAt(before, At(call.data, j))]

-----------------------------------------------------------------------------
(* The pointers move with the counter, but not the input of ECB.           *)
PointersFollow ==
  /\ out = At(call.out, mode_i)
  /\ data = At(call.data, IF Chained(call) THEN mode_i ELSE 0)

(* tempIv is what the next block is combined with.                         *)
TempIvIsNext ==
  mode_pc = "loop" /\ mode_i < NumBlocks(call) =>
    /\ call.fn = "aes_cbc_encrypt" /\ ~OverwritesUnread(call)
         => tempIv = Before(mem, call, call.out, mode_i)
    /\ call.fn = "aes_cbc_decrypt" /\ ~OverwritesUnchained(call)
         => tempIv = Before(before, call, call.data, mode_i)

(* What was encrypted last is chained.                                     *)
SealedIsChained ==
  \A j \in 0 .. sealed.n - 1 :
    sealed.cipher[j] =
      Encrypt[sealed.key]
        [XorBlock(sealed.plain[j],
             IF j = 0 THEN sealed.iv ELSE sealed.cipher[j - 1])]

(* CRYPTO_OK means that the loop has come to its end.                      *)
OkIsComplete ==
  mode_pc = "idle" /\ mode_ret = CRYPTO_OK => mode_i = NumBlocks(call)

(* The inductive invariant.                                                *)
BInv == /\ ModesTypeOK /\ PointersFollow /\ OnlyOutputIsWritten
        /\ CbcEncryptIsChained /\ CbcDecryptIsChained
        /\ TempIvIsNext /\ SealedIsChained /\ OkIsComplete
=============================================================================
