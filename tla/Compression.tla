----------------------------- MODULE Compression -----------------------------
(***************************************************************************)
(* libnpmcrypto: md5_compress, sha1_compress, sha256_compress and          *)
(* sha512_compress.                                                        *)
(*                                                                         *)
(* The rounds are written out, with the registers renamed from one to the  *)
(* next instead of moved, the words of MD5 are listed, the logical         *)
(* functions are written with fewer operations than in the standards, and  *)
(* every round updates registers in place that the next ones read.         *)
(* StandardRounds is what all that has to come to.                         *)
(***************************************************************************)
EXTENDS Words, Sequences, FiniteSets

CONSTANTS
  Constants,      (* the constant of each round, by the name of the hash     *)
  InitialValues,  (* of the chaining value, by the name of the hash          *)
  HashBlocks,     (* the blocks: functions from offsets to bytes             *)
  MaxCompressions (* bound on the calls                                      *)

VARIABLES
  hash,        (* which of the four functions                                *)
  hashPc,      (* "idle", "expand" for the loop that fills W, "rounds"       *)
  state,       (* md->*.state                                                *)
  regs,        (* a, b, c, ... or S[0], S[1], ... by number                  *)
  W,           (* the words, from W[1]                                       *)
  round,       (* its number, from 0                                         *)
  compressions (* history: calls                                             *)

compressionVars == <<hash, hashPc, state, regs, W, round, compressions>>

HashNames == {"MD5", "SHA1", "SHA256", "SHA512"}
NumRegisters == [MD5 |-> 4, SHA1 |-> 5, SHA256 |-> 8, SHA512 |-> 8]

(* What the two tables hold are words, and what a block holds are bytes.   *)
ASSUME CompressionAssumption ==
  /\ \A h \in HashNames :
       LET words == SUBSET Bit(IF h = "SHA512" THEN 64 ELSE 32)
       IN  /\ InitialValues[h] \in [0 .. NumRegisters[h] - 1 -> words]
           /\ \A n \in 0 .. IF h \in {"SHA1", "SHA512"} THEN 79 ELSE 63 :
                Constants[h][n] \in words
  /\ HashBlocks \subseteq [0 .. 127 -> SUBSET Bit(8)]
  /\ MaxCompressions \in Nat

WordBits == IF hash = "SHA512" THEN 64 ELSE 32
NumRounds == IF hash \in {"SHA1", "SHA512"} THEN 80 ELSE 64

Add(x, y) == Sum(x, y, WordBits)

(* The register that a round calls by its k-th name, from 0.               *)
Name(k) == (k - round) % Cardinality(DOMAIN regs)
Arg(k) == regs[Name(k)]

-----------------------------------------------------------------------------
(* The logical functions: F, F0 and Ch; G; H, F1 and F3; I; F2 and Maj.    *)
Ch(x, y, z) == Xor(z, x \cap Xor(y, z))
G(x, y, z) == Xor(y, z \cap Xor(y, x))
F1(x, y, z) == Xor(Xor(x, y), z)
I(x, y, z) == Xor(y, x \cup Not(z, 32))
Maj(x, y, z) == ((x \cup y) \cap z) \cup (x \cap y)

(* The arguments of FF, GG, HH and II.                                     *)
Md5Word ==
  <<0, 1, 2, 3, 4, 5, 6, 7, 8, 9, 10, 11, 12, 13, 14, 15,
    1, 6, 11, 0, 5, 10, 15, 4, 9, 14, 3, 8, 13, 2, 7, 12,
    5, 8, 11, 14, 1, 4, 7, 10, 13, 0, 3, 6, 9, 12, 15, 2,
    0, 7, 14, 5, 12, 3, 10, 1, 8, 15, 6, 13, 4, 11, 2, 9>>
Md5Shift ==
  <<<<7, 12, 17, 22>>, <<5, 9, 14, 20>>, <<4, 11, 16, 23>>, <<6, 10, 15, 21>>>>

(* One of FF, GG, HH and II.                                               *)
Md5Step ==
  LET part == round \div 16
      logic == CASE part = 0 -> Ch(Arg(1), Arg(2), Arg(3))
                 [] part = 1 -> G(Arg(1), Arg(2), Arg(3))
                 [] part = 2 -> F1(Arg(1), Arg(2), Arg(3))
                 [] OTHER    -> I(Arg(1), Arg(2), Arg(3))
      word == W[Md5Word[round + 1] + 1]
      turn == Md5Shift[part + 1][(round % 4) + 1]
      sum == Add(Add(Add(Arg(0), logic), word), Constants[hash][round])
  IN  regs' = [regs EXCEPT
        ![Name(0)] = Add(Rol(sum, turn, 32), Arg(1))]

(* One of FF0, FF1, FF2 and FF3.                                           *)
Sha1Step ==
  LET part == round \div 20
      logic == CASE part = 0 -> Ch(Arg(1), Arg(2), Arg(3))
                 [] part = 2 -> Maj(Arg(1), Arg(2), Arg(3))
                 [] OTHER    -> F1(Arg(1), Arg(2), Arg(3))
  IN  regs' = [regs EXCEPT
        ![Name(4)] = Add(Add(Add(Add(Rol(Arg(0), 5, 32), logic), @),
                             W[round + 1]), Constants[hash][round]),
        ![Name(1)] = Rol(@, 30, 32)]

(* S, R, Sigma0, Sigma1, Gamma0 and Gamma1.                                *)
S3(x, l, m, n) ==
  Xor(Xor(Ror(x, l, WordBits), Ror(x, m, WordBits)), Ror(x, n, WordBits))
SR(x, l, m, n) ==
  Xor(Xor(Ror(x, l, WordBits), Ror(x, m, WordBits)), Shr(x, n))

Sigma0(x) == IF WordBits = 32 THEN S3(x, 2, 13, 22) ELSE S3(x, 28, 34, 39)
Sigma1(x) == IF WordBits = 32 THEN S3(x, 6, 11, 25) ELSE S3(x, 14, 18, 41)
Gamma0(x) == IF WordBits = 32 THEN SR(x, 7, 18, 3) ELSE SR(x, 1, 8, 7)
Gamma1(x) == IF WordBits = 32 THEN SR(x, 17, 19, 10) ELSE SR(x, 19, 61, 6)

(* A mutant: d is not updated.                                             *)
RNDKeepsD ==
  LET t0 == Add(Add(Add(Add(Arg(7), Sigma1(Arg(4))),
                        Ch(Arg(4), Arg(5), Arg(6))), Constants[hash][round]),
                W[round + 1])
      t1 == Add(Sigma0(Arg(0)), Maj(Arg(0), Arg(1), Arg(2)))
  IN  regs' = [regs EXCEPT ![Name(7)] = Add(t0, t1)]

(* RND.                                                                    *)
RND ==
  LET t0 == Add(Add(Add(Add(Arg(7), Sigma1(Arg(4))),
                        Ch(Arg(4), Arg(5), Arg(6))), Constants[hash][round]),
                W[round + 1])
      t1 == Add(Sigma0(Arg(0)), Maj(Arg(0), Arg(1), Arg(2)))
  IN  regs' = [regs EXCEPT ![Name(3)] = Add(@, t0), ![Name(7)] = Add(t0, t1)]

-----------------------------------------------------------------------------
CompressionInit ==
  /\ hash \in HashNames
  /\ hashPc = "idle"
  /\ state = InitialValues[hash] /\ regs = state
  /\ W = <<>> /\ round = 0 /\ compressions = 0

(* The state is copied, and the block into the first sixteen words.        *)
LoadBlock(block) ==
  /\ hashPc = "idle" /\ compressions < MaxCompressions
  /\ compressions' = compressions + 1
  /\ regs' = state
  /\ W' = [n \in 1 .. 16 |-> IF hash = "MD5" THEN LoadL(block, n - 1, 32)
                             ELSE LoadH(block, n - 1, WordBits)]
  /\ round' = 0
  /\ hashPc' = IF hash = "MD5" THEN "rounds" ELSE "expand"
  /\ UNCHANGED <<hash, state>>

(* Word n of the schedule.                                                 *)
ScheduleWord(n) ==
  IF hash = "SHA1"
  THEN Rol(Xor(Xor(Xor(W[n - 3], W[n - 8]), W[n - 14]), W[n - 16]), 1, 32)
  ELSE Add(Add(Add(Gamma1(W[n - 2]), W[n - 7]), Gamma0(W[n - 15])), W[n - 16])

(* A mutant: one word less is made.                                        *)
ExpandWordShort ==
  /\ hashPc = "expand"
  /\ LET n == Len(W) + 1
     IN  /\ W' = Append(W, ScheduleWord(n))
         /\ hashPc' = IF n = NumRounds - 1 THEN "rounds" ELSE "expand"
  /\ UNCHANGED <<hash, state, regs, round, compressions>>

(* One more word of the schedule.                                          *)
ExpandWord ==
  /\ hashPc = "expand"
  /\ LET n == Len(W) + 1
     IN  /\ W' = Append(W, ScheduleWord(n))
         /\ hashPc' = IF n = NumRounds THEN "rounds" ELSE "expand"
  /\ UNCHANGED <<hash, state, regs, round, compressions>>

RunRound ==
  /\ hashPc = "rounds" /\ round < NumRounds
  /\ CASE hash = "MD5"  -> Md5Step
       [] hash = "SHA1" -> Sha1Step
       [] OTHER         -> RND
  /\ round' = round + 1
  /\ UNCHANGED <<hash, hashPc, state, W, compressions>>

(* What the rounds have made is added to the state.                        *)
Feedback ==
  /\ hashPc = "rounds" /\ round = NumRounds
  /\ state' = [k \in DOMAIN state |-> Add(state[k], regs[k])]
  /\ hashPc' = "idle"
  /\ UNCHANGED <<hash, regs, W, round, compressions>>

CompressionNext ==
  \/ \E block \in HashBlocks : LoadBlock(block)
  \/ ExpandWord \/ RunRound \/ Feedback

CompressionSpec == CompressionInit /\ [][CompressionNext]_compressionVars

-----------------------------------------------------------------------------
(* Every variable has its type, and no round reads a word that was not     *)
(* made.                                                                   *)
CompressionTypeOK ==
  /\ hashPc \in {"idle", "expand", "rounds"}
  /\ \A x \in {state, regs} : \A k \in DOMAIN x : x[k] \subseteq Bit(WordBits)
  /\ \A n \in DOMAIN W : W[n] \subseteq Bit(WordBits)
  /\ round \in 0 .. NumRounds
  /\ hashPc = "rounds" => Len(W) = IF hash = "MD5" THEN 16 ELSE NumRounds

(* What the standards call the registers, the words that they have made    *)
(* when a round begins, and the round.                                     *)
NumWordsFor(n) == IF n + 16 < NumRounds THEN n + 16 ELSE NumRounds
StandardRegisters ==
  IF hashPc = "idle" THEN <<>> ELSE [k \in DOMAIN regs |-> Arg(k)]
StandardWords ==
  IF hashPc = "idle" THEN <<>>
  ELSE IF hash = "MD5" THEN W
  ELSE SubSeq(W, round + 1, NumWordsFor(round))
StandardRound == IF hashPc = "idle" THEN 0 ELSE round

(* Whatever the block and the chaining value: round for round, with the    *)
(* registers under the names that it gives them, the code does what        *)
(* RFC 1321 and FIPS 180 write.                                            *)
Rfc == INSTANCE StandardRounds WITH
  H <- state, v <- StandardRegisters, M <- StandardWords, t <- StandardRound

ImplementsStandard == Rfc!Spec
=============================================================================
