------------------------------ MODULE AesBlock ------------------------------
(***************************************************************************)
(* libnpmcrypto/aes.c: aes_block_encrypt and aes_block_decrypt, on the     *)
(* round keys that AesKeySetup has made.                                   *)
(*                                                                         *)
(* Both functions unroll two rounds per iteration and leave their loop in  *)
(* the middle of it, so that the state alternates between s0..s3 and       *)
(* t0..t3 and the pointer to the round keys is 4 or 8 words ahead.         *)
(* Decryption is the "equivalent inverse cipher": it goes through inverted *)
(* round keys with tables of its own.                                      *)
(***************************************************************************)
EXTENDS AesKeySetup, Integers, Sequences

CONSTANTS
  Blocks,    (* the blocks a caller begins with                            *)
  MaxBlocks  (* bound on the calls                                         *)

ASSUME BlocksAssumption == Blocks \subseteq State /\ MaxBlocks \in Nat

VARIABLES
  bpc,     (* "idle", or where the function is                             *)
  dec,     (* which function: decryption?                                  *)
  s, t,    (* s0 .. s3 and t0 .. t3                                        *)
  at,      (* the index in eK or dK that rk points to                      *)
  r,       (* the loop counter                                             *)
  input,   (* history: the block of the last call                          *)
  output,  (* the block it has stored                                      *)
  plain,   (* history: the last block encrypted with this key              *)
  trace,   (* history: the state of its encryption after every round       *)
  blocks   (* history: how many calls were made                            *)

blockVars == <<bpc, dec, s, t, at, r, input, output, plain, trace, blocks>>
vars == <<setupVars, blockVars>>

-----------------------------------------------------------------------------
Init ==
  /\ SetupInit
  /\ bpc = "idle" /\ dec = FALSE
  /\ s \in Blocks /\ t = s
  /\ at = 0 /\ r = 0
  /\ input = s /\ output = s /\ plain = s
  /\ trace = <<>>
  /\ blocks = 0

(* A mutant: the columns are taken as in decryption.                       *)
EncryptRoundFromLeft(x, a) ==
  [c \in Columns |->
    (((Te0(x[c][3]) (+) Te1(x[(c + 3) % 4][2])) (+) Te2(x[(c + 2) % 4][1]))
      (+) Te3(x[(c + 1) % 4][0])) (+) eK[a + c]]

(* A full round of encryption with the round key at a: a column takes its  *)
(* bytes from the columns to the right of it.                              *)
EncryptRound(x, a) ==
  [c \in Columns |->
    (((Te0(x[c][3]) (+) Te1(x[(c + 1) % 4][2])) (+) Te2(x[(c + 2) % 4][1]))
      (+) Te3(x[(c + 3) % 4][0])) (+) eK[a + c]]

EncryptLast(x, a) ==
  [c \in Columns |->
    (((Te4_3(x[c][3]) (+) Te4_2(x[(c + 1) % 4][2])) (+) Te4_1(x[(c + 2) % 4][1]))
      (+) Te4_0(x[(c + 3) % 4][0])) (+) eK[a + c]]

(* Decryption takes them from the columns to the left.                     *)
DecryptRound(x, a) ==
  [c \in Columns |->
    (((Td0(x[c][3]) (+) Td1(x[(c + 3) % 4][2])) (+) Td2(x[(c + 2) % 4][1]))
      (+) Td3(x[(c + 1) % 4][0])) (+) dK[a + c]]

Masked(w, n) == [m \in Rows |-> IF m = n THEN w[n] ELSE {}]

DecryptLast(x, a) ==
  [c \in Columns |->
    (((Masked(Td4(x[c][3]), 3) (+) Masked(Td4(x[(c + 3) % 4][2]), 2))
      (+) Masked(Td4(x[(c + 2) % 4][1]), 1)) (+) Masked(Td4(x[(c + 1) % 4][0]), 0))
      (+) dK[a + c]]

Round(x, a) == IF dec THEN DecryptRound(x, a) ELSE EncryptRound(x, a)
Last(x, a) == IF dec THEN DecryptLast(x, a) ELSE EncryptLast(x, a)

(* The history of an encryption grows by a state.                          *)
Traced(x) == trace' = IF dec THEN trace ELSE Append(trace, x)

(* A function loads the block and adds the first round key.                *)
CallBlock(b, decrypting) ==
  /\ pc = "ready" /\ bpc = "idle"
  /\ blocks < MaxBlocks
  /\ dec' = decrypting
  /\ s' = [c \in Columns |-> b[c] (+) (IF decrypting THEN dK[c] ELSE eK[c])]
  /\ at' = 0 /\ r' = rounds \div 2
  /\ bpc' = "odd"
  /\ input' = b
  /\ plain' = IF decrypting THEN plain ELSE b
  /\ trace' = IF decrypting THEN trace ELSE <<s'>>
  /\ blocks' = blocks + 1
  /\ UNCHANGED <<t, output>>

(* The first half of the loop, from s to t, and the test in its middle.    *)
(* (A mutant tests the counter before it has counted.)                     *)
OddRoundTestsEarly ==
  /\ bpc = "odd"
  /\ t' = Round(s, at + 4)
  /\ at' = at + 8
  /\ r' = r - 1
  /\ bpc' = IF r = 0 THEN "last" ELSE "even"
  /\ Traced(t')
  /\ UNCHANGED <<dec, s, input, output, plain, blocks>>

OddRound ==
  /\ bpc = "odd"
  /\ t' = Round(s, at + 4)
  /\ at' = at + 8
  /\ r' = r - 1
  /\ bpc' = IF r - 1 = 0 THEN "last" ELSE "even"
  /\ Traced(t')
  /\ UNCHANGED <<dec, s, input, output, plain, blocks>>

(* The second half, from t to s.                                           *)
EvenRound ==
  /\ bpc = "even"
  /\ s' = Round(t, at)
  /\ bpc' = "odd"
  /\ Traced(s')
  /\ UNCHANGED <<dec, t, at, r, input, output, plain, blocks>>

(* The last round has no MixColumns; the result is stored.                 *)
LastRound ==
  /\ bpc = "last"
  /\ s' = Last(t, at)
  /\ output' = s'
  /\ bpc' = "idle"
  /\ Traced(s')
  /\ UNCHANGED <<dec, t, at, r, input, plain, blocks>>

BlockStep == OddRound \/ EvenRound \/ LastRound

(* A key is set up between two blocks; it ends the history of encryption.  *)
SetupCall ==
  /\ bpc = "idle"
  /\ \E key \in UserKeys, len \in KeyLens : Setup(key, len)
  /\ trace' = <<>>
  /\ UNCHANGED <<bpc, dec, s, t, at, r, input, output, plain, blocks>>

Next ==
  \/ SetupCall
  \/ SetupStep /\ UNCHANGED blockVars
  \/ \E b \in Blocks \cup {output}, decrypting \in BOOLEAN :
       CallBlock(b, decrypting) /\ UNCHANGED setupVars
  \/ BlockStep /\ UNCHANGED setupVars

Spec == Init /\ [][Next]_vars

-----------------------------------------------------------------------------
(* Every variable has its type.                                            *)
TypeOK ==
  /\ SetupTypeOK
  /\ bpc \in {"idle", "odd", "even", "last"}
  /\ dec \in BOOLEAN
  /\ {s, t, input, output, plain} \subseteq State
  /\ at \in 0 .. 56 /\ r \in 0 .. 7
  /\ trace \in Seq(State)
  /\ blocks \in 0 .. MaxBlocks

(* SubBytes and ShiftRows, MixColumns, AddRoundKey of FIPS 197.            *)
ShiftedSub(x) ==
  [c \in Columns |-> [n \in Rows |-> S[x[(c + (3 - n)) % 4][n]]]]
MixColumns(x) == [c \in Columns |-> Mix[x[c]]]
AddRoundKey(x, k) == [c \in Columns |-> x[c] (+) eK[4 * k + c]]

(* Every state of an encryption is the state before it after a round of    *)
(* FIPS 197, the first is the block with the first round key; the last of  *)
(* all `rounds` + 1 has no MixColumns.                                     *)
EncryptsAsFips197 ==
  trace # <<>> =>
    /\ trace[1] = AddRoundKey(plain, 0)
    /\ \A k \in 1 .. Len(trace) - 1 :
         trace[k + 1] =
           AddRoundKey(IF k = rounds THEN ShiftedSub(trace[k])
                       ELSE MixColumns(ShiftedSub(trace[k])), k)
    /\ bpc = "idle" => Len(trace) = rounds + 1

(* Decrypting the block that an encryption with the same key has given     *)
(* gives the block that was encrypted.                                     *)
DecryptInverts ==
  bpc = "idle" /\ dec /\ trace # <<>> /\ input = trace[Len(trace)]
    => output = plain

-----------------------------------------------------------------------------
(* Where a function is: rounds done, the counter and the pointer.          *)
BlockPointers ==
  /\ trace # <<>> \/ bpc # "idle" => pc = "ready"
  /\ bpc = "odd" => r \in 1 .. (rounds \div 2)
  /\ bpc = "even" => r \in 1 .. (rounds \div 2) - 1
  /\ bpc \in {"odd", "even"} => at = 8 * ((rounds \div 2) - r)
  /\ bpc = "last" => at = 4 * rounds

(* The rounds that are behind the current state, and that state.           *)
RoundsDone == IF bpc = "odd" THEN at \div 4 ELSE (at \div 4) - 1
Current == IF bpc = "odd" THEN s ELSE t

(* While encrypting, the history ends in the current state.                *)
TraceIsCurrent ==
  /\ bpc # "idle" /\ ~dec =>
       /\ Len(trace) = RoundsDone + 1
       /\ trace[Len(trace)] = Current
  /\ (bpc = "idle" \/ dec) /\ trace # <<>> => Len(trace) = rounds + 1

(* While decrypting what was encrypted last, the current state is that of  *)
(* the encryption as many rounds before its end, after SubBytes and        *)
(* ShiftRows.                                                              *)
DecryptionRetraces ==
  bpc # "idle" /\ dec /\ trace # <<>> /\ input = trace[Len(trace)]
    => Current = ShiftedSub(trace[rounds - RoundsDone])

(* The inductive invariant of the block functions.                         *)
AInv == /\ SetupInv /\ TypeOK /\ BlockPointers
        /\ TraceIsCurrent /\ EncryptsAsFips197
        /\ DecryptionRetraces /\ DecryptInverts
=============================================================================
