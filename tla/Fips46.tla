------------------------------- MODULE Fips46 --------------------------------
(***************************************************************************)
(* DES as FIPS 46 writes it, the reference for libnpmcrypto/des.c.  Bits   *)
(* are numbered from 1, from the left; a value is the set of its bits that *)
(* are 1, and two halves are a pair of such sets.                          *)
(***************************************************************************)
EXTENDS DesTables, Sequences

(* Bit o of the result is bit table[o] of x.                               *)
Selected(table, x) == {o \in DOMAIN table : table[o] \in x}

IP == <<58, 50, 42, 34, 26, 18, 10, 2, 60, 52, 44, 36, 28, 20, 12, 4,
        62, 54, 46, 38, 30, 22, 14, 6, 64, 56, 48, 40, 32, 24, 16, 8,
        57, 49, 41, 33, 25, 17,  9, 1, 59, 51, 43, 35, 27, 19, 11, 3,
        61, 53, 45, 37, 29, 21, 13, 5, 63, 55, 47, 39, 31, 23, 15, 7>>

PC1 == <<57, 49, 41, 33, 25, 17,  9,  1, 58, 50, 42, 34, 26, 18,
         10,  2, 59, 51, 43, 35, 27, 19, 11,  3, 60, 52, 44, 36,
         63, 55, 47, 39, 31, 23, 15,  7, 62, 54, 46, 38, 30, 22,
         14,  6, 61, 53, 45, 37, 29, 21, 13,  5, 28, 20, 12,  4>>

PC2 == <<14, 17, 11, 24,  1,  5,  3, 28, 15,  6, 21, 10,
         23, 19, 12,  4, 26,  8, 16,  7, 27, 20, 13,  2,
         41, 52, 31, 37, 47, 55, 30, 40, 51, 45, 33, 48,
         44, 49, 39, 56, 34, 53, 46, 42, 50, 36, 29, 32>>

(* The shifts of the two halves of the key before every round.             *)
Shifts == <<1, 1, 2, 2, 2, 2, 2, 2, 1, 2, 2, 2, 2, 2, 2, 1>>

(* Both halves of 28 bits shifted to the left by one.                      *)
LeftShift(cd) == {o \in 1 .. 56 : (IF o % 28 = 0 THEN o - 27 ELSE o + 1) \in cd}
LeftShifts(cd, n) == IF n = 1 THEN LeftShift(cd) ELSE LeftShift(LeftShift(cd))

(* The two halves of a key of 64 bits after each of the shifts, and the    *)
(* sixteen keys of 48 bits from them.                                      *)
ShiftedKeys(k) ==
  LET cd[n \in 0 .. 16] == IF n = 0 THEN Selected(PC1, k)
                           ELSE LeftShifts(cd[n - 1], Shifts[n])
  IN  cd
KeySchedule(k) ==
  LET cd == ShiftedKeys(k) IN [n \in 1 .. 16 |-> Selected(PC2, cd[n])]

(* E takes, for box k, the four bits of the half and one on either side.   *)
E == [o \in 1 .. 48 |-> ((4 * ((o - 1) \div 6) + ((o - 1) % 6) + 31) % 32) + 1]

(* The six bits for box k, and the cipher function.                        *)
BoxInput(x, k) == {j \in Six : 6 * k - j \in x}
f(right, k) ==
  LET x == Xor(Selected(E, right), k)
      boxes == {o \in 1 .. 32 :
                  LET box == ((o - 1) \div 4) + 1
                  IN  4 * box - o \in SBox[box][BoxInput(x, box)]}
  IN  Selected(P, boxes)

(* Halves of a block, and a block from its halves.                         *)
Halves(x) == <<x \cap 1 .. 32, {n - 32 : n \in x \cap 33 .. 64}>>
FromHalves(h) == h[1] \cup {n + 32 : n \in h[2]}

(* The halves of a block after IP and after each of the sixteen rounds     *)
(* with the keys in the order given.                                       *)
DesRounds(keys, x) ==
  LET h[n \in 0 .. 16] ==
        IF n = 0 THEN Halves(Selected(IP, x))
        ELSE LET p == h[n - 1] IN <<p[2], Xor(p[1], f(p[2], keys[n]))>>
  IN  h

(* The cipher: the halves exchanged and the inverse of IP.                 *)
Cipher(keys, x) ==
  LET last == DesRounds(keys, x)[16]
  IN  {IP[o] : o \in FromHalves(<<last[2], last[1]>>)}

DesEncrypt(k, x) == Cipher(KeySchedule(k), x)
DesDecrypt(k, x) == Cipher([n \in 1 .. 16 |-> KeySchedule(k)[17 - n]], x)

(* The triple algorithm of ANSI X9.52: encrypt, decrypt, encrypt.          *)
TripleEncrypt(k1, k2, k3, x) ==
  DesEncrypt(k3, DesDecrypt(k2, DesEncrypt(k1, x)))
=============================================================================
