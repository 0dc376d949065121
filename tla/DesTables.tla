------------------------------ MODULE DesTables ------------------------------
(***************************************************************************)
(* libnpmcrypto/des.c: the tables of DES, by what they hold.               *)
(*                                                                         *)
(* A word of 32 bits is the set of its bits that are 1, bit 31 being the   *)
(* first in memory.  des_ip and des_fp hold one table per byte of a block; *)
(* the entry for a byte is the XOR of the entries for its bits, and the    *)
(* entry for a bit is a single bit: together they are permutations of 64   *)
(* bits, given here by where they put each bit.  An entry of SP1 .. SP8 is *)
(* an S-box and the permutation P in one lookup.                           *)
(***************************************************************************)
EXTENDS CryptoH, Naturals

(* The S-boxes 1 .. 8: any functions from six bits to four.                *)
CONSTANT SBox

Six == 0 .. 5
Nibble == 0 .. 3

ASSUME DesBoxAssumption == SBox \in [1 .. 8 -> [SUBSET Six -> SUBSET Nibble]]

Bits32 == 0 .. 31
Bits64 == 0 .. 63
DesWord == SUBSET Bits32

RORc(w, n) == {(b + (32 - n)) % 32 : b \in w}

(* A value of 64 bits from two words, and its words.                       *)
Joined(high, low) == {b + 32 : b \in high} \cup low
High(x) == {b - 32 : b \in x \cap 32 .. 63}
Low(x) == x \cap 0 .. 31

-----------------------------------------------------------------------------
(* The tables of the key schedule, indexed from 0 as in the code.          *)
FromZero(seq, n) == [j \in 0 .. n - 1 |-> seq[j + 1]]

pc1 == FromZero(
  <<56, 48, 40, 32, 24, 16,  8,  0, 57, 49, 41, 33, 25, 17,
     9,  1, 58, 50, 42, 34, 26, 18, 10,  2, 59, 51, 43, 35,
    62, 54, 46, 38, 30, 22, 14,  6, 61, 53, 45, 37, 29, 21,
    13,  5, 60, 52, 44, 36, 28, 20, 12,  4, 27, 19, 11,  3>>, 56)

totrot == FromZero(
  <<1, 2, 4, 6, 8, 10, 12, 14, 15, 17, 19, 21, 23, 25, 27, 28>>, 16)

pc2 == FromZero(
  <<13, 16, 10, 23,  0,  4,    2, 27, 14,  5, 20,  9,
    22, 18, 11,  3, 25,  7,   15,  6, 26, 19, 12,  1,
    40, 51, 30, 36, 46, 54,   29, 39, 50, 44, 32, 47,
    43, 48, 38, 55, 33, 52,   45, 41, 49, 35, 28, 31>>, 48)

(* bytebit and bigbyte: the masks of bit m of a byte of the key and of bit *)
(* j of the 24 in a half of a round key, from the left.                    *)
bytebit(m) == 7 - m
bigbyte(j) == 23 - j

-----------------------------------------------------------------------------
(* Bit b of a 64-bit value is bit 64 - b of FIPS 46, which counts from the *)
(* left and from 1.                                                        *)
Numbered(b) == 64 - b

(* A bit one place to the left inside its word, one to the right, and in   *)
(* the other word.                                                         *)
Leftward(b) == 32 * (b \div 32) + ((b + 1) % 32)
Rightward(b) == 32 * (b \div 32) + ((b + 31) % 32)
Swapped(b) == (b + 32) % 64

(* The place of bit n in the initial permutation: 40, 8, 48, 16, ...       *)
Initial(n) == LET i == (n - 1) \div 8
                  j == (n - 1) % 8
              IN  (IF j % 2 = 0 THEN 40 ELSE 8) + 8 * (j \div 2) - i

(* The place of bit n in the final one: 58, 50, 42, ...                    *)
Final(n) == LET i == (n - 1) \div 8
                j == (n - 1) % 8
            IN  (IF i < 4 THEN 58 + 2 * i ELSE 49 + 2 * i) - 8 * j

(* des_ip permutes and leaves both words rotated to the left by one.       *)
des_ip == [b \in Bits64 |-> Leftward(Numbered(Initial(Numbered(b))))]

(* des_fp takes the rotated words, the second one as the first half of the *)
(* block, and leaves the first half of the result in the second word.      *)
des_fp ==
  [b \in Bits64 |-> Swapped(Numbered(Final(Numbered(Swapped(Rightward(b))))))]

Permuted(table, x) == {table[b] : b \in x}

-----------------------------------------------------------------------------
(* Where P puts the bits 1 .. 32 that come out of the S-boxes: bit P[o] of *)
(* its input is bit o of its output.                                       *)
P == <<16,  7, 20, 21, 29, 12, 28, 17,  1, 15, 23, 26,  5, 18, 31, 10,
        2,  8, 24, 14, 32, 27,  3,  9, 19, 13, 30,  6, 22, 11,  4, 25>>

(* Box k gives the bits 4 * k - 3 .. 4 * k.  The result is rotated to the  *)
(* left by one, as the words are.                                          *)
SP(k, six) ==
  {(33 - o) % 32 : o \in {o \in 1 .. 32 : /\ P[o] \in 4 * k - 3 .. 4 * k
                                          /\ 4 * k - P[o] \in SBox[k][six]}}
=============================================================================
