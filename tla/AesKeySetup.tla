---------------------------- MODULE AesKeySetup -----------------------------
(***************************************************************************)
(* libnpmcrypto/aes.c: aes_key_setup, which expands a key of 16, 24 or 32  *)
(* bytes into the round keys of encryption and of decryption.              *)
(*                                                                         *)
(* The three lengths have loops of their own that write 4, 6 or 8 words    *)
(* through a moving pointer and leave in the middle; the round keys of     *)
(* decryption are made by walking back from an offset computed from the    *)
(* length.  The structure is the caller's: it holds whatever memory held,  *)
(* or the round keys of an earlier and perhaps longer key.                 *)
(***************************************************************************)
EXTENDS AesTables

CONSTANTS
  UserKeys,   (* the bytes behind `key`: eight words                       *)
  KeyLens,    (* the values of keylen                                      *)
  Garbage,    (* words that fresh memory may hold                          *)
  MaxSetups   (* bound on the calls                                        *)

ASSUME UserKeysAssumption == UserKeys \subseteq [0 .. 7 -> Word]

ASSUME SetupAssumption ==
  KeyLens \subseteq Nat /\ Garbage \subseteq Word /\ MaxSetups \in Nat

(* eK and dK of aes_key hold 60 words each.                                *)
Slots == 0 .. 59
Schedule == [Slots -> Word]

VARIABLES
  pc,      (* where aes_key_setup is, or "raw", "ready"                    *)
  eK, dK,  (* skey->eK and skey->dK                                        *)
  rounds,  (* skey->num_rounds                                             *)
  keylen,  (* keylen                                                       *)
  i,       (* the loop counter                                             *)
  rk,      (* the index in eK, then in dK, that rk points to               *)
  rrk,     (* the index in eK that rrk points to                           *)
  ret,     (* what the last call returned                                  *)
  user,    (* history: the key that was set up                             *)
  setups   (* history: how many calls were made                            *)

setupVars == <<pc, eK, dK, rounds, keylen, i, rk, rrk, ret, user, setups>>

Nk == keylen \div 4

(* setup_mix: the S-box on every byte, rotated by one byte.                *)
setup_mix(w) == ((Te4_3(w[2]) (+) Te4_2(w[1])) (+) Te4_1(w[0])) (+) Te4_0(w[3])

(* RORc(w, 8).                                                             *)
RotatedRight(w) == [n \in Rows |-> w[(n + 1) % 4]]

(* Four words, each the XOR of the word before it, at first `temp`, with   *)
(* the word Nk before it.                                                  *)
FourWords(w, temp) ==
  LET w0 == w[0] (+) temp
      w1 == w[1] (+) w0
      w2 == w[2] (+) w1
      w3 == w[3] (+) w2
  IN  <<w0, w1, w2, w3>>

(* eK with n words written from index a.                                   *)
Written(a, n, words) ==
  [j \in Slots |-> IF j \in a .. a + n - 1 THEN words[j - a + 1] ELSE eK[j]]

From(a) == [c \in 0 .. 3 |-> eK[a + c]]

-----------------------------------------------------------------------------
SetupInit ==
  /\ pc = "raw"
  /\ \E g \in Garbage : eK = [j \in Slots |-> g] /\ dK = [j \in Slots |-> g]
  /\ rounds = 0 /\ keylen = 0
  /\ i = 0 /\ rk = 0 /\ rrk = 0
  /\ ret = CRYPTO_OK
  /\ user \in UserKeys
  /\ setups = 0

Idle == pc \in {"raw", "ready"}

(* A null pointer, or a length that is not one of the three.               *)
Refuse(status) ==
  /\ Idle
  /\ setups < MaxSetups
  /\ ret' = status
  /\ setups' = setups + 1
  /\ UNCHANGED <<pc, eK, dK, rounds, keylen, i, rk, rrk, user>>

(* The key is loaded into the first words.                                 *)
Load(key, len) ==
  /\ Idle
  /\ setups < MaxSetups
  /\ len \in {16, 24, 32}
  /\ rounds' = 10 + ((len \div 8) - 2) * 2
  /\ keylen' = len
  /\ eK' = [j \in Slots |-> IF j < len \div 4 THEN key[j] ELSE eK[j]]
  /\ i' = 0 /\ rk' = 0
  /\ pc' = "expand"
  /\ user' = key
  /\ setups' = setups + 1
  /\ UNCHANGED <<dK, rrk, ret>>

Setup(key, len) ==
  \/ Refuse(CRYPTO_INVALID_STRUCT)
  \/ len \notin {16, 24, 32} /\ Refuse(CRYPTO_INVALID_KEYSIZE)
  \/ Load(key, len)

(* The first four words that every iteration writes.                       *)
NextFour == FourWords(From(rk), setup_mix(eK[rk + Nk - 1]) (+) rcon[i])

Expand16 ==
  /\ pc = "expand" /\ keylen = 16
  /\ eK' = Written(rk + 4, 4, NextFour)
  /\ i' = i + 1
  /\ IF i + 1 = 10 THEN pc' = "invert" /\ rk' = rk
                   ELSE rk' = rk + 4 /\ pc' = pc

(* A mutant: the loop for 24 bytes leaves one iteration too early.         *)
Expand24Short ==
  /\ pc = "expand" /\ keylen = 24
  /\ i' = i + 1
  /\ LET w4 == eK[rk + 4] (+) NextFour[4]
         w5 == eK[rk + 5] (+) w4
     IN  IF i + 1 = 7
         THEN eK' = Written(rk + 6, 4, NextFour) /\ pc' = "invert" /\ rk' = rk
         ELSE /\ eK' = Written(rk + 6, 6, <<NextFour[1], NextFour[2], NextFour[3], NextFour[4],
                                           w4, w5>>)
              /\ rk' = rk + 6 /\ pc' = pc

Expand24 ==
  /\ pc = "expand" /\ keylen = 24
  /\ i' = i + 1
  /\ LET w4 == eK[rk + 4] (+) NextFour[4]
         w5 == eK[rk + 5] (+) w4
     IN  IF i + 1 = 8
         THEN eK' = Written(rk + 6, 4, NextFour) /\ pc' = "invert" /\ rk' = rk
         ELSE /\ eK' = Written(rk + 6, 6, <<NextFour[1], NextFour[2], NextFour[3], NextFour[4],
                                           w4, w5>>)
              /\ rk' = rk + 6 /\ pc' = pc

Expand32 ==
  /\ pc = "expand" /\ keylen = 32
  /\ i' = i + 1
  /\ LET tail == FourWords(From(rk + 4), setup_mix(RotatedRight(NextFour[4])))
     IN  IF i + 1 = 7
         THEN eK' = Written(rk + 8, 4, NextFour) /\ pc' = "invert" /\ rk' = rk
         ELSE /\ eK' = Written(rk + 8, 8,
                               <<NextFour[1], NextFour[2], NextFour[3], NextFour[4],
                                 tail[1], tail[2], tail[3], tail[4]>>)
              /\ rk' = rk + 8 /\ pc' = pc

Expand ==
  /\ Expand16 \/ Expand24 \/ Expand32
  /\ UNCHANGED <<dK, rounds, keylen, rrk, ret, user, setups>>

(* Inverse MixColumns of a word, byte by byte.                             *)
Inverted(w) == ((Tks0(w[3]) (+) Tks1(w[2])) (+) Tks2(w[1])) (+) Tks3(w[0])

(* Four words of eK go to four words of dK through f.                      *)
Copied(to, from, f(_)) ==
  [j \in Slots |-> IF j \in to .. to + 3 THEN f(eK[from + (j - to)]) ELSE dK[j]]

Same(w) == w

(* A mutant: the walk back begins at the end of eK for every length.       *)
CopyFirstFromEnd ==
  /\ pc = "invert"
  /\ dK' = Copied(0, 56, Same)
  /\ rk' = 0 /\ rrk' = 56
  /\ i' = 1
  /\ pc' = "inverting"
  /\ UNCHANGED <<eK, rounds, keylen, ret, user, setups>>

CopyFirst ==
  /\ pc = "invert"
  /\ dK' = Copied(0, 28 + keylen - 4, Same)
  /\ rk' = 0 /\ rrk' = 28 + keylen - 4
  /\ i' = 1
  /\ pc' = "inverting"
  /\ UNCHANGED <<eK, rounds, keylen, ret, user, setups>>

(* A mutant: the round keys between are copied as they are.                *)
InvertOneCopies ==
  /\ pc = "inverting" /\ i < rounds
  /\ rrk' = rrk - 4 /\ rk' = rk + 4
  /\ dK' = Copied(rk + 4, rrk - 4, Same)
  /\ i' = i + 1
  /\ UNCHANGED <<pc, eK, rounds, keylen, ret, user, setups>>

InvertOne ==
  /\ pc = "inverting" /\ i < rounds
  /\ rrk' = rrk - 4 /\ rk' = rk + 4
  /\ dK' = Copied(rk + 4, rrk - 4, Inverted)
  /\ i' = i + 1
  /\ UNCHANGED <<pc, eK, rounds, keylen, ret, user, setups>>

CopyLast ==
  /\ pc = "inverting" /\ i >= rounds
  /\ dK' = Copied(rk + 4, rrk - 4, Same)
  /\ rrk' = rrk - 1 /\ rk' = rk + 7
  /\ pc' = "ready"
  /\ ret' = CRYPTO_OK
  /\ UNCHANGED <<eK, rounds, keylen, i, user, setups>>

SetupStep == Expand \/ CopyFirst \/ InvertOne \/ CopyLast

SetupNext ==
  \/ \E key \in UserKeys, len \in KeyLens : Setup(key, len)
  \/ SetupStep

SetupSpec == SetupInit /\ [][SetupNext]_setupVars

-----------------------------------------------------------------------------
SetupLocations == {"raw", "expand", "invert", "inverting", "ready"}

(* Every variable has its type.                                            *)
SetupTypeOK ==
  /\ pc \in SetupLocations
  /\ eK \in Schedule /\ dK \in Schedule
  /\ rounds \in {0, 10, 12, 14} /\ keylen \in {0, 16, 24, 32}
  /\ i \in 0 .. 14
  /\ rk \in 0 .. 59 /\ rrk \in 0 .. 59
  /\ ret \in {CRYPTO_OK, CRYPTO_INVALID_STRUCT, CRYPTO_INVALID_KEYSIZE}
  /\ user \in UserKeys
  /\ setups \in 0 .. MaxSetups

(* KeyExpansion of FIPS 197.                                               *)
SubWord(w) == [n \in Rows |-> S[w[n]]]
RotWord(w) == [n \in Rows |-> w[(n + 3) % 4]]

FipsTemp(w, nk, j) ==
  IF j % nk = 0 THEN SubWord(RotWord(w[j - 1])) (+) rcon[(j \div nk) - 1]
  ELSE IF nk > 6 /\ j % nk = 4 THEN SubWord(w[j - 1])
  ELSE w[j - 1]

IsExpansion(w, key, nk, n) ==
  /\ \A j \in 0 .. nk - 1 : w[j] = key[j]
  /\ \A j \in nk .. n - 1 : w[j] = w[j - nk] (+) FipsTemp(w, nk, j)

(* The words written so far are the expansion of the key, and at the end   *)
(* they are 4 * (rounds + 1): also when the structure held the round keys  *)
(* of a longer key before.                                                 *)
KeyIsExpanded ==
  pc \notin {"raw"} =>
    IsExpansion(eK, user, Nk,
                IF pc = "expand" THEN rk + Nk ELSE 4 * (rounds + 1))

(* Round key r of decryption is round key rounds - r of encryption, with   *)
(* InvMixColumns for all but the first and the last.                       *)
InverseKeyMatches ==
  pc = "ready" =>
    \A r \in 0 .. rounds, c \in Columns :
      dK[4 * r + c] =
        LET w == eK[4 * (rounds - r) + c]
        IN  IF r \in {0, rounds} THEN w ELSE InvMix[w]

-----------------------------------------------------------------------------
(* Where the pointers are, in every loop.                                  *)
SetupPointers ==
  /\ pc # "raw" => keylen \in {16, 24, 32} /\ rounds = 6 + Nk
  /\ pc = "expand" =>
       rk = Nk * i /\ 4 * (rounds + 1) - rk \in Nk + 4 .. 4 * (rounds + 1)
  /\ pc = "inverting" =>
       i \in 1 .. rounds /\ rk = 4 * (i - 1) /\ rrk = 4 * (rounds - (i - 1))

(* The round keys of decryption that are made so far.                      *)
InvertedSoFar ==
  pc = "inverting" =>
    \A q \in 0 .. i - 1, c \in Columns :
      dK[4 * q + c] = LET w == eK[4 * (rounds - q) + c]
                      IN  IF q = 0 THEN w ELSE InvMix[w]

(* The inductive invariant of aes_key_setup.                               *)
SetupInv == /\ SetupTypeOK /\ SetupPointers /\ KeyIsExpanded
            /\ InvertedSoFar /\ InverseKeyMatches
=============================================================================
