----------------------------- MODULE AesTables ------------------------------
(***************************************************************************)
(* libnpmcrypto/aes_tab.c: the lookup tables of AES, by what they do.      *)
(*                                                                         *)
(* A byte is a set of bits, a word of 32 bits gives the byte BYTE(x, n)    *)
(* for every n, 3 being the first byte of the block in memory, and a state *)
(* is the words s0 .. s3.  The S-box is any bijection of the bytes; the    *)
(* mixing of a column is any bijection of the words that is linear in XOR. *)
(* The tables fold both into one lookup per byte, whose results are        *)
(* combined with XOR.                                                      *)
(***************************************************************************)
EXTENDS CryptoH, Naturals

CONSTANTS
  Bits,         (* the bits of a byte                                      *)
  S, Si,        (* the S-box and its inverse                               *)
  Mix, InvMix,  (* MixColumns on one column, and its inverse               *)
  Rcon          (* the first byte of each word of the table rcon           *)

Byte == SUBSET Bits
Rows == 0 .. 3
Columns == 0 .. 3
Word == [Rows -> Byte]
State == [Columns -> Word]

(* Words combined with XOR; the zero has no bit.                           *)
a (+) b == [n \in Rows |-> Xor(a[n], b[n])]

ASSUME SBoxAssumption ==
  /\ S \in [Byte -> Byte] /\ Si \in [Byte -> Byte]
  /\ \A b \in Byte : Si[S[b]] = b

ASSUME MixAssumption ==
  /\ Mix \in [Word -> Word] /\ InvMix \in [Word -> Word]
  /\ \A a, b \in Word : Mix[a (+) b] = Mix[a] (+) Mix[b]
  /\ \A a, b \in Word : InvMix[a (+) b] = InvMix[a] (+) InvMix[b]
  /\ \A a \in Word : InvMix[Mix[a]] = a

ASSUME RconAssumption == Rcon \in [0 .. 9 -> Byte]

(* The word whose byte n is b, the others zero.                            *)
At(n, b) == [m \in Rows |-> IF m = n THEN b ELSE {}]

-----------------------------------------------------------------------------
(* S-box and MixColumns for the byte at 3, 2, 1, 0.                        *)
Te0(b) == Mix[At(3, S[b])]
Te1(b) == Mix[At(2, S[b])]
Te2(b) == Mix[At(1, S[b])]
Te3(b) == Mix[At(0, S[b])]

(* The S-box alone.                                                        *)
Te4_3(b) == At(3, S[b])
Te4_2(b) == At(2, S[b])
Te4_1(b) == At(1, S[b])
Te4_0(b) == At(0, S[b])

(* Inverse S-box and inverse MixColumns.                                   *)
Td0(b) == InvMix[At(3, Si[b])]
Td1(b) == InvMix[At(2, Si[b])]
Td2(b) == InvMix[At(1, Si[b])]
Td3(b) == InvMix[At(0, Si[b])]

(* The inverse S-box in every byte; the code masks one of them.            *)
Td4(b) == [n \in Rows |-> Si[b]]

(* Inverse MixColumns alone.                                               *)
Tks0(b) == InvMix[At(3, b)]
Tks1(b) == InvMix[At(2, b)]
Tks2(b) == InvMix[At(1, b)]
Tks3(b) == InvMix[At(0, b)]

(* The round constants.                                                    *)
rcon == [i \in 0 .. 9 |-> At(3, Rcon[i])]
=============================================================================
