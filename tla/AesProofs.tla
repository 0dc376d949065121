----------------------------- MODULE AesProofs ------------------------------
(***************************************************************************)
(* Proofs about AesKeySetup and AesBlock, for every S-box with an inverse, *)
(* every linear MixColumns with an inverse, every key and every block.     *)
(***************************************************************************)
EXTENDS AesBlock, TLAPS

-----------------------------------------------------------------------------
(* Bytes and words.                                                        *)
LEMMA XorLaws ==
  ASSUME NEW a \in Byte, NEW b \in Byte
  PROVE  /\ Xor(a, b) \in Byte
         /\ Xor(a, {}) = a /\ Xor({}, a) = a
         /\ Xor(Xor(a, b), b) = a
BY DEF Xor, Byte

LEMMA EmptyByte == {} \in Byte
BY DEF Byte

LEMMA WordLaws ==
  ASSUME NEW a \in Word, NEW b \in Word
  PROVE  /\ a (+) b \in Word
         /\ (a (+) b) (+) b = a
<1>1. a (+) b \in Word
  BY XorLaws DEF Word, (+)
<1>2. \A n \in Rows : ((a (+) b) (+) b)[n] = a[n]
  BY XorLaws DEF Word, (+)
<1>3. (a (+) b) (+) b = [n \in Rows |-> a[n]]
  BY <1>2 DEF (+)
<1> QED
  BY <1>1, <1>3 DEF Word

LEMMA AtIsWord ==
  ASSUME NEW n \in Rows, NEW b \in Byte
  PROVE  At(n, b) \in Word
BY EmptyByte DEF At, Word

(* A word is put together from its bytes.                                  *)
LEMMA BytesMakeWord ==
  ASSUME NEW w \in Word
  PROVE  ((At(3, w[3]) (+) At(2, w[2])) (+) At(1, w[1])) (+) At(0, w[0]) = w
<1> DEFINE sum == ((At(3, w[3]) (+) At(2, w[2])) (+) At(1, w[1])) (+) At(0, w[0])
<1>1. w[0] \in Byte /\ w[1] \in Byte /\ w[2] \in Byte /\ w[3] \in Byte
      /\ {} \in Byte
  BY EmptyByte DEF Word, Rows
<1>2. sum[0] = w[0]
  BY <1>1, XorLaws DEF At, (+), Rows
<1>3. sum[1] = w[1]
  BY <1>1, XorLaws DEF At, (+), Rows
<1>4. sum[2] = w[2]
  BY <1>1, XorLaws DEF At, (+), Rows
<1>5. sum[3] = w[3]
  BY <1>1, XorLaws DEF At, (+), Rows
<1>6. \A n \in Rows : sum[n] = w[n]
  BY <1>2, <1>3, <1>4, <1>5 DEF Rows
<1>7. sum = [n \in Rows |-> sum[n]]
  BY DEF (+)
<1>8. w = [n \in Rows |-> w[n]]
  BY DEF Word
<1> HIDE DEF sum
<1>9. sum = w
  BY <1>6, <1>7, <1>8
<1> QED
  BY <1>9 DEF sum

(* A linear map of a word is the XOR of what it makes of the bytes.        *)
LEMMA LinearByBytes ==
  ASSUME NEW f \in [Word -> Word],
         \A a, b \in Word : f[a (+) b] = f[a] (+) f[b],
         NEW w \in Word
  PROVE  ((f[At(3, w[3])] (+) f[At(2, w[2])]) (+) f[At(1, w[1])])
            (+) f[At(0, w[0])] = f[w]
<1> DEFINE a3 == At(3, w[3])
           a2 == At(2, w[2])
           a1 == At(1, w[1])
           a0 == At(0, w[0])
<1>1. w[0] \in Byte /\ w[1] \in Byte /\ w[2] \in Byte /\ w[3] \in Byte
  BY DEF Word, Rows
<1>2. a0 \in Word /\ a1 \in Word /\ a2 \in Word /\ a3 \in Word
  BY <1>1, AtIsWord DEF Rows
<1>3. ((a3 (+) a2) (+) a1) (+) a0 = w
  BY BytesMakeWord
<1> HIDE DEF a0, a1, a2, a3
<1>4. a3 (+) a2 \in Word
  BY <1>2, WordLaws
<1>5. (a3 (+) a2) (+) a1 \in Word
  BY <1>2, <1>4, WordLaws
<1>6. f[a3 (+) a2] = f[a3] (+) f[a2]
  BY <1>2
<1>7. f[(a3 (+) a2) (+) a1] = (f[a3] (+) f[a2]) (+) f[a1]
  BY <1>2, <1>4, <1>6
<1>8. f[w] = ((f[a3] (+) f[a2]) (+) f[a1]) (+) f[a0]
  BY <1>2, <1>3, <1>5, <1>7
<1> QED
  BY <1>8 DEF a0, a1, a2, a3

-----------------------------------------------------------------------------
(* What the tables add up to.                                              *)
LEMMA InvertedIsInvMix ==
  ASSUME NEW w \in Word
  PROVE  Inverted(w) = InvMix[w]
BY MixAssumption, LinearByBytes DEF Inverted, Tks0, Tks1, Tks2, Tks3

LEMMA SubWordType ==
  ASSUME NEW w \in Word
  PROVE  SubWord(w) \in Word /\ RotWord(w) \in Word /\ RotatedRight(w) \in Word
<1>1. \A n \in Rows : (n + 3) % 4 \in Rows /\ (n + 1) % 4 \in Rows
  BY DEF Rows
<1> QED
  BY <1>1, SBoxAssumption DEF SubWord, RotWord, RotatedRight, Word

LEMMA SetupMixIsFips ==
  ASSUME NEW w \in Word
  PROVE  /\ setup_mix(w) = SubWord(RotWord(w))
         /\ setup_mix(RotatedRight(w)) = SubWord(w)
<1>1. ASSUME NEW v \in Word PROVE setup_mix(v) = SubWord(RotWord(v))
  <2> DEFINE u == SubWord(RotWord(v))
  <2>1. u \in Word
    BY SubWordType
  <2>2. u[3] = S[v[2]] /\ u[2] = S[v[1]] /\ u[1] = S[v[0]] /\ u[0] = S[v[3]]
    BY DEF SubWord, RotWord, Rows
  <2> HIDE DEF u
  <2>3. setup_mix(v) = u
    BY <2>1, <2>2, BytesMakeWord DEF setup_mix, Te4_0, Te4_1, Te4_2, Te4_3
  <2> QED
    BY <2>3 DEF u
<1>2. RotWord(RotatedRight(w)) = w
  <2>1. \A n \in Rows : (n + 3) % 4 \in Rows /\ (((n + 3) % 4) + 1) % 4 = n
    BY DEF Rows
  <2>2. RotWord(RotatedRight(w)) = [n \in Rows |-> w[n]]
    BY <2>1 DEF RotWord, RotatedRight
  <2> QED
    BY <2>2 DEF Word
<1> QED
  BY <1>1, <1>2, SubWordType

-----------------------------------------------------------------------------
(* Rounds.  The inverse of ShiftRows after SubBytes takes a column's bytes *)
(* from the columns to its left.                                           *)
InvShiftedSub(x) ==
  [c \in Columns |-> [n \in Rows |-> Si[x[(c + (n + 1)) % 4][n]]]]

LEMMA Turns ==
  /\ \A c \in Columns : /\ c % 4 = c /\ (c + (3 - 3)) % 4 = c
                        /\ (c + (3 + 1)) % 4 = c
  /\ \A c \in Columns, n \in Rows :
       /\ (c + (3 - n)) % 4 \in Columns /\ (c + (n + 1)) % 4 \in Columns
       /\ (((c + (n + 1)) % 4) + (3 - n)) % 4 = c
  /\ \A c \in Columns : /\ (c + 1) % 4 \in Columns /\ (c + 2) % 4 \in Columns
                        /\ (c + 3) % 4 \in Columns
BY DEF Columns, Rows

LEMMA ShiftedSubType ==
  ASSUME NEW x \in State
  PROVE  ShiftedSub(x) \in State /\ InvShiftedSub(x) \in State
<1>1. \A c \in Columns, n \in Rows :
        /\ S[x[(c + (3 - n)) % 4][n]] \in Byte
        /\ Si[x[(c + (n + 1)) % 4][n]] \in Byte
  BY Turns, SBoxAssumption DEF State, Word
<1> QED
  BY <1>1 DEF ShiftedSub, InvShiftedSub, State, Word

LEMMA ShiftedSubInverts ==
  ASSUME NEW x \in State
  PROVE  InvShiftedSub(ShiftedSub(x)) = x
<1> DEFINE y == InvShiftedSub(ShiftedSub(x))
<1>1. ASSUME NEW c \in Columns, NEW n \in Rows
      PROVE  y[c][n] = x[c][n]
  <2> DEFINE d == (c + (n + 1)) % 4
  <2>1. d \in Columns /\ (d + (3 - n)) % 4 = c
    BY Turns
  <2> HIDE DEF d
  <2>2. ShiftedSub(x)[d][n] = S[x[c][n]]
    BY <2>1 DEF ShiftedSub
  <2>3. x[c][n] \in Byte
    BY DEF State, Word
  <2>4. y[c][n] = Si[ShiftedSub(x)[d][n]]
    BY DEF InvShiftedSub, d
  <2> QED
    BY <2>2, <2>3, <2>4, SBoxAssumption
<1>2. \A c \in Columns : y[c] = [n \in Rows |-> y[c][n]]
  BY DEF InvShiftedSub
<1>3. \A c \in Columns : x[c] = [n \in Rows |-> x[c][n]]
  BY DEF State, Word
<1>4. y = [c \in Columns |-> y[c]] /\ x = [c \in Columns |-> x[c]]
  BY DEF InvShiftedSub, State
<1> HIDE DEF y
<1>5. \A c \in Columns : y[c] = x[c]
  BY <1>1, <1>2, <1>3
<1>6. y = x
  BY <1>4, <1>5
<1> QED
  BY <1>6 DEF y

(* The tables make a full round of encryption.                             *)
LEMMA EncryptRoundIs ==
  ASSUME NEW x \in State, NEW a \in Nat
  PROVE  EncryptRound(x, a) =
           [c \in Columns |-> Mix[ShiftedSub(x)[c]] (+) eK[a + c]]
<1>1. ASSUME NEW c \in Columns
      PROVE  ((Te0(x[c][3]) (+) Te1(x[(c + 1) % 4][2])) (+) Te2(x[(c + 2) % 4][1]))
               (+) Te3(x[(c + 3) % 4][0]) = Mix[ShiftedSub(x)[c]]
  <2> DEFINE y == ShiftedSub(x)[c]
  <2>1. y \in Word
    BY ShiftedSubType DEF State
  <2>2. /\ y[3] = S[x[c][3]] /\ y[2] = S[x[(c + 1) % 4][2]]
        /\ y[1] = S[x[(c + 2) % 4][1]] /\ y[0] = S[x[(c + 3) % 4][0]]
    BY Turns DEF ShiftedSub, Rows
  <2> HIDE DEF y
  <2>3. ((Mix[At(3, y[3])] (+) Mix[At(2, y[2])]) (+) Mix[At(1, y[1])])
          (+) Mix[At(0, y[0])] = Mix[y]
    BY <2>1, MixAssumption, LinearByBytes
  <2>4. ((Te0(x[c][3]) (+) Te1(x[(c + 1) % 4][2])) (+) Te2(x[(c + 2) % 4][1]))
           (+) Te3(x[(c + 3) % 4][0]) = Mix[y]
    BY <2>2, <2>3 DEF Te0, Te1, Te2, Te3
  <2> QED
    BY <2>4 DEF y
<1> QED
  BY <1>1 DEF EncryptRound

LEMMA EncryptLastIs ==
  ASSUME NEW x \in State, NEW a \in Nat
  PROVE  EncryptLast(x, a) = [c \in Columns |-> ShiftedSub(x)[c] (+) eK[a + c]]
<1>1. ASSUME NEW c \in Columns
      PROVE  ((Te4_3(x[c][3]) (+) Te4_2(x[(c + 1) % 4][2]))
               (+) Te4_1(x[(c + 2) % 4][1])) (+) Te4_0(x[(c + 3) % 4][0])
             = ShiftedSub(x)[c]
  <2> DEFINE y == ShiftedSub(x)[c]
  <2>1. y \in Word
    BY ShiftedSubType DEF State
  <2>2. /\ y[3] = S[x[c][3]] /\ y[2] = S[x[(c + 1) % 4][2]]
        /\ y[1] = S[x[(c + 2) % 4][1]] /\ y[0] = S[x[(c + 3) % 4][0]]
    BY Turns DEF ShiftedSub, Rows
  <2> HIDE DEF y
  <2>3. ((Te4_3(x[c][3]) (+) Te4_2(x[(c + 1) % 4][2]))
          (+) Te4_1(x[(c + 2) % 4][1])) (+) Te4_0(x[(c + 3) % 4][0]) = y
    BY <2>1, <2>2, BytesMakeWord DEF Te4_0, Te4_1, Te4_2, Te4_3
  <2> QED
    BY <2>3 DEF y
<1> QED
  BY <1>1 DEF EncryptLast

(* And of decryption, with the inverses in the other order.                *)
LEMMA DecryptRoundIs ==
  ASSUME NEW x \in State, NEW a \in Nat
  PROVE  DecryptRound(x, a) =
           [c \in Columns |-> InvMix[InvShiftedSub(x)[c]] (+) dK[a + c]]
<1>1. ASSUME NEW c \in Columns
      PROVE  ((Td0(x[c][3]) (+) Td1(x[(c + 3) % 4][2])) (+) Td2(x[(c + 2) % 4][1]))
               (+) Td3(x[(c + 1) % 4][0]) = InvMix[InvShiftedSub(x)[c]]
  <2> DEFINE y == InvShiftedSub(x)[c]
  <2>1. y \in Word
    BY ShiftedSubType DEF State
  <2>2. /\ y[3] = Si[x[c][3]] /\ y[2] = Si[x[(c + 3) % 4][2]]
        /\ y[1] = Si[x[(c + 2) % 4][1]] /\ y[0] = Si[x[(c + 1) % 4][0]]
    BY Turns DEF InvShiftedSub, Rows
  <2> HIDE DEF y
  <2>3. ((InvMix[At(3, y[3])] (+) InvMix[At(2, y[2])]) (+) InvMix[At(1, y[1])])
          (+) InvMix[At(0, y[0])] = InvMix[y]
    BY <2>1, MixAssumption, LinearByBytes
  <2>4. ((Td0(x[c][3]) (+) Td1(x[(c + 3) % 4][2])) (+) Td2(x[(c + 2) % 4][1]))
           (+) Td3(x[(c + 1) % 4][0]) = InvMix[y]
    BY <2>2, <2>3 DEF Td0, Td1, Td2, Td3
  <2> QED
    BY <2>4 DEF y
<1> QED
  BY <1>1 DEF DecryptRound

LEMMA MaskedIsAt ==
  ASSUME NEW b \in Byte, NEW n \in Rows
  PROVE  Masked(Td4(b), n) = At(n, Si[b])
BY DEF Masked, Td4, At

LEMMA DecryptLastIs ==
  ASSUME NEW x \in State, NEW a \in Nat
  PROVE  DecryptLast(x, a) =
           [c \in Columns |-> InvShiftedSub(x)[c] (+) dK[a + c]]
<1>1. ASSUME NEW c \in Columns
      PROVE  ((Masked(Td4(x[c][3]), 3) (+) Masked(Td4(x[(c + 3) % 4][2]), 2))
               (+) Masked(Td4(x[(c + 2) % 4][1]), 1))
               (+) Masked(Td4(x[(c + 1) % 4][0]), 0)
             = InvShiftedSub(x)[c]
  <2> DEFINE y == InvShiftedSub(x)[c]
  <2>1. y \in Word
    BY ShiftedSubType DEF State
  <2>2. /\ y[3] = Si[x[c][3]] /\ y[2] = Si[x[(c + 3) % 4][2]]
        /\ y[1] = Si[x[(c + 2) % 4][1]] /\ y[0] = Si[x[(c + 1) % 4][0]]
    BY Turns DEF InvShiftedSub, Rows
  <2>3. /\ x[c][3] \in Byte /\ x[(c + 3) % 4][2] \in Byte
        /\ x[(c + 2) % 4][1] \in Byte /\ x[(c + 1) % 4][0] \in Byte
    <3>1. \A d \in Columns, n \in Rows : x[d][n] \in Byte
      BY DEF State, Word
    <3>2. 0 \in Rows /\ 1 \in Rows /\ 2 \in Rows /\ 3 \in Rows
      BY DEF Rows
    <3> QED
      BY <3>1, <3>2, Turns
  <2>4. /\ Masked(Td4(x[c][3]), 3) = At(3, Si[x[c][3]])
        /\ Masked(Td4(x[(c + 3) % 4][2]), 2) = At(2, Si[x[(c + 3) % 4][2]])
        /\ Masked(Td4(x[(c + 2) % 4][1]), 1) = At(1, Si[x[(c + 2) % 4][1]])
        /\ Masked(Td4(x[(c + 1) % 4][0]), 0) = At(0, Si[x[(c + 1) % 4][0]])
    BY <2>3, MaskedIsAt DEF Rows
  <2> HIDE DEF y
  <2>5. ((Masked(Td4(x[c][3]), 3) (+) Masked(Td4(x[(c + 3) % 4][2]), 2))
          (+) Masked(Td4(x[(c + 2) % 4][1]), 1))
          (+) Masked(Td4(x[(c + 1) % 4][0]), 0) = y
    BY <2>1, <2>2, <2>4, BytesMakeWord
  <2> QED
    BY <2>5 DEF y
<1> QED
  BY <1>1 DEF DecryptLast

-----------------------------------------------------------------------------
(* Writing to the round keys.                                              *)
LEMMA WritesIs ==
  ASSUME eK \in Schedule, NEW a \in Nat, NEW n \in Nat, a + n <= 60, NEW words,
         \A k \in 0 .. n - 1 : words[k + 1] \in Word,
         eK' = Written(a, n, words)
  PROVE  /\ eK' \in Schedule
         /\ \A j \in 0 .. a - 1 : eK'[j] = eK[j]
         /\ \A k \in 0 .. n - 1 : eK'[a + k] = words[k + 1]
<1>1. \A j \in Slots : j \in a .. a + n - 1 => words[j - a + 1] \in Word
  <2> TAKE j \in Slots
  <2> HAVE j \in a .. a + n - 1
  <2>1. j - a \in 0 .. n - 1
    BY DEF Slots
  <2> QED
    BY <2>1
<1>2. eK' = [j \in Slots |-> IF j \in a .. a + n - 1 THEN words[j - a + 1] ELSE eK[j]]
  BY DEF Written
<1>3. eK' \in Schedule
  BY <1>1, <1>2 DEF Schedule
<1>4. \A j \in 0 .. a - 1 : eK'[j] = eK[j]
  BY <1>2 DEF Slots
<1>5. \A k \in 0 .. n - 1 : eK'[a + k] = words[k + 1]
  <2> TAKE k \in 0 .. n - 1
  <2>1. a + k \in Slots /\ a + k \in a .. a + n - 1 /\ (a + k) - a + 1 = k + 1
    BY DEF Slots
  <2>2. eK'[a + k] = words[(a + k) - a + 1]
    BY <1>2, <2>1
  <2> QED
    BY <2>1, <2>2
<1> QED
  BY <1>3, <1>4, <1>5

(* A chain of four words.                                                  *)
LEMMA FourWordsAre ==
  ASSUME NEW f \in [0 .. 3 -> Word], NEW temp \in Word
  PROVE  LET q == FourWords(f, temp)
         IN  /\ q[1] = f[0] (+) temp /\ q[2] = f[1] (+) q[1]
             /\ q[3] = f[2] (+) q[2] /\ q[4] = f[3] (+) q[3]
             /\ q[1] \in Word /\ q[2] \in Word /\ q[3] \in Word /\ q[4] \in Word
<1> DEFINE w0 == f[0] (+) temp
           w1 == f[1] (+) w0
           w2 == f[2] (+) w1
           w3 == f[3] (+) w2
<1>1. f[0] \in Word /\ f[1] \in Word /\ f[2] \in Word /\ f[3] \in Word
  OBVIOUS
<1>2. w0 \in Word
  BY <1>1, WordLaws
<1>3. w1 \in Word
  BY <1>1, <1>2, WordLaws
<1>4. w2 \in Word
  BY <1>1, <1>3, WordLaws
<1>5. w3 \in Word
  BY <1>1, <1>4, WordLaws
<1>6. FourWords(f, temp) = <<w0, w1, w2, w3>>
  BY DEF FourWords
<1> QED
  BY <1>2, <1>3, <1>4, <1>5, <1>6

(* An expansion grows by words that satisfy the recurrence.                *)
LEMMA ExpansionGrows ==
  ASSUME NEW v, NEW w, NEW key, NEW nk \in {4, 6, 8}, NEW a \in Nat,
         NEW n \in Nat, nk <= a,
         IsExpansion(v, key, nk, a),
         \A j \in 0 .. a - 1 : w[j] = v[j],
         \A j \in a .. a + n - 1 : w[j] = w[j - nk] (+) FipsTemp(w, nk, j)
  PROVE  IsExpansion(w, key, nk, a + n)
<1>1. \A j \in 0 .. nk - 1 : w[j] = key[j]
  BY DEF IsExpansion
<1>2. ASSUME NEW j \in nk .. a + n - 1
      PROVE  w[j] = w[j - nk] (+) FipsTemp(w, nk, j)
  <2>1. CASE j >= a
    BY <2>1
  <2>2. CASE j < a
    <3>1. j \in nk .. a - 1 /\ j \in 0 .. a - 1 /\ j - 1 \in 0 .. a - 1
          /\ j - nk \in 0 .. a - 1
      BY <2>2
    <3>2. w[j] = v[j] /\ w[j - 1] = v[j - 1] /\ w[j - nk] = v[j - nk]
      BY <3>1
    <3>3. v[j] = v[j - nk] (+) FipsTemp(v, nk, j)
      BY <3>1 DEF IsExpansion
    <3>4. FipsTemp(v, nk, j) = FipsTemp(w, nk, j)
      BY <3>2 DEF FipsTemp
    <3> QED
      BY <3>2, <3>3, <3>4
  <2> QED
    BY <2>1, <2>2
<1> QED
  BY <1>1, <1>2 DEF IsExpansion

-----------------------------------------------------------------------------
(* What every iteration of the expansion starts from.                      *)
LEMMA ExpandFacts ==
  ASSUME SetupInv, pc = "expand"
  PROVE  /\ eK \in Schedule /\ keylen \in {16, 24, 32} /\ rounds = 6 + Nk
         /\ Nk \in {4, 6, 8} /\ i \in Nat /\ rk \in Nat
         /\ rk = Nk * i /\ rk + Nk + 4 <= 4 * (rounds + 1)
         /\ IsExpansion(eK, user, Nk, rk + Nk)
         /\ i <= 9
         /\ \A k \in 0 .. Nk - 1 : eK[rk + k] \in Word
<1>1. SetupTypeOK /\ SetupPointers /\ KeyIsExpanded
  BY DEF SetupInv
<1>2. eK \in Schedule /\ keylen \in {16, 24, 32} /\ rounds = 6 + Nk
      /\ i \in Nat /\ rk \in Nat
  BY <1>1 DEF SetupTypeOK, SetupPointers
<1>3. Nk \in {4, 6, 8}
  BY <1>2 DEF Nk
<1>4. rk = Nk * i /\ rk + Nk + 4 <= 4 * (rounds + 1)
  BY <1>1, <1>2, <1>3 DEF SetupPointers
<1>5. i <= 9
  <2>1. CASE Nk = 4
    BY <1>2, <1>4, <2>1
  <2>2. CASE Nk = 6
    BY <1>2, <1>4, <2>2
  <2>3. CASE Nk = 8
    BY <1>2, <1>4, <2>3
  <2> QED
    BY <1>3, <2>1, <2>2, <2>3
<1>6. IsExpansion(eK, user, Nk, rk + Nk)
  BY <1>1 DEF KeyIsExpanded
<1>7. \A k \in 0 .. Nk - 1 : eK[rk + k] \in Word
  BY <1>2, <1>3, <1>4 DEF Schedule, Slots
<1> QED
  BY <1>2, <1>3, <1>4, <1>5, <1>6, <1>7

(* The four words that begin every iteration.                              *)
LEMMA NextFourAre ==
  ASSUME SetupInv, pc = "expand"
  PROVE  /\ NextFour[1] = eK[rk] (+) (SubWord(RotWord(eK[rk + Nk - 1])) (+) rcon[i])
         /\ NextFour[2] = eK[rk + 1] (+) NextFour[1]
         /\ NextFour[3] = eK[rk + 2] (+) NextFour[2]
         /\ NextFour[4] = eK[rk + 3] (+) NextFour[3]
         /\ NextFour[1] \in Word /\ NextFour[2] \in Word
         /\ NextFour[3] \in Word /\ NextFour[4] \in Word
<1>1. /\ \A k \in 0 .. Nk - 1 : eK[rk + k] \in Word
      /\ Nk \in {4, 6, 8} /\ i \in Nat /\ rk \in Nat /\ i <= 9
  BY ExpandFacts
<1>2. From(rk) \in [0 .. 3 -> Word]
  BY <1>1 DEF From
<1>3. /\ From(rk)[0] = eK[rk] /\ From(rk)[1] = eK[rk + 1]
      /\ From(rk)[2] = eK[rk + 2] /\ From(rk)[3] = eK[rk + 3]
  BY <1>1 DEF From
<1>4. rcon[i] \in Word
  BY <1>1, RconAssumption, AtIsWord DEF rcon, Rows
<1>5. eK[rk + Nk - 1] \in Word
  <2>1. Nk - 1 \in 0 .. Nk - 1 /\ rk + (Nk - 1) = rk + Nk - 1
    BY <1>1
  <2> QED
    BY <1>1, <2>1
<1>6. setup_mix(eK[rk + Nk - 1]) = SubWord(RotWord(eK[rk + Nk - 1]))
      /\ SubWord(RotWord(eK[rk + Nk - 1])) \in Word
  BY <1>5, SetupMixIsFips, SubWordType
<1> DEFINE temp == setup_mix(eK[rk + Nk - 1]) (+) rcon[i]
<1>7. temp \in Word
  BY <1>4, <1>6, WordLaws
<1>8. NextFour = FourWords(From(rk), temp)
  BY DEF NextFour
<1>9. temp = SubWord(RotWord(eK[rk + Nk - 1])) (+) rcon[i]
  BY <1>6
<1> HIDE DEF temp
<1>10. LET q == FourWords(From(rk), temp)
       IN  /\ q[1] = From(rk)[0] (+) temp /\ q[2] = From(rk)[1] (+) q[1]
           /\ q[3] = From(rk)[2] (+) q[2] /\ q[4] = From(rk)[3] (+) q[3]
           /\ q[1] \in Word /\ q[2] \in Word /\ q[3] \in Word /\ q[4] \in Word
  BY <1>2, <1>7, FourWordsAre
<1> QED
  BY <1>3, <1>8, <1>9, <1>10

LEMMA Residues ==
  ASSUME NEW nk \in {4, 6, 8}, NEW m \in Nat, NEW k \in 0 .. nk - 1
  PROVE  /\ (nk * m + nk + k) % nk = k
         /\ ((nk * m + nk) \div nk) - 1 = m
<1>1. CASE nk = 4
  BY <1>1
<1>2. CASE nk = 6
  BY <1>2
<1>3. CASE nk = 8
  BY <1>3
<1> QED
  BY <1>1, <1>2, <1>3

(* They satisfy the recurrence of FIPS 197.                                *)
LEMMA NextFourGrow ==
  ASSUME SetupInv, pc = "expand", NEW w,
         \A j \in 0 .. rk + Nk - 1 : w[j] = eK[j],
         \A k \in 0 .. 3 : w[rk + Nk + k] = NextFour[k + 1]
  PROVE  \A k \in 0 .. 3 :
           w[rk + Nk + k] = w[rk + k] (+) FipsTemp(w, Nk, rk + Nk + k)
<1> DEFINE nk == Nk
           a == rk + nk
<1>1. nk \in {4, 6, 8} /\ i \in Nat /\ rk \in Nat /\ rk = nk * i
  BY ExpandFacts
<1>2. ASSUME NEW k \in 0 .. 3
      PROVE  (a + k) % nk = k
  <2>1. k \in 0 .. nk - 1 /\ a + k = nk * i + nk + k
    BY <1>1
  <2>2. (nk * i + nk + k) % nk = k
    BY <1>1, <2>1, Residues
  <2> QED
    BY <2>1, <2>2
<1>3. (a \div nk) - 1 = i
  <2>1. 0 \in 0 .. nk - 1 /\ a = nk * i + nk
    BY <1>1
  <2>2. ((nk * i + nk) \div nk) - 1 = i
    BY <1>1, <2>1, Residues
  <2> QED
    BY <2>1, <2>2
<1>4. \A k \in 0 .. 3 : w[rk + k] = eK[rk + k]
  BY <1>1
<1>5. w[a] = NextFour[1] /\ w[a + 1] = NextFour[2] /\ w[a + 2] = NextFour[3]
      /\ w[a + 3] = NextFour[4]
  BY <1>1
<1>6. w[a - 1] = eK[rk + Nk - 1]
  BY <1>1
<1>7. /\ NextFour[1] = eK[rk] (+) (SubWord(RotWord(eK[rk + Nk - 1])) (+) rcon[i])
      /\ NextFour[2] = eK[rk + 1] (+) NextFour[1]
      /\ NextFour[3] = eK[rk + 2] (+) NextFour[2]
      /\ NextFour[4] = eK[rk + 3] (+) NextFour[3]
  BY NextFourAre
<1>8. FipsTemp(w, nk, a) = SubWord(RotWord(eK[rk + Nk - 1])) (+) rcon[i]
  <2>1. a % nk = 0
    BY <1>1, <1>2
  <2> QED
    BY <1>3, <1>6, <2>1 DEF FipsTemp
<1>9. ASSUME NEW k \in 1 .. 3
      PROVE  FipsTemp(w, nk, a + k) = w[a + (k - 1)]
  <2>1. (a + k) % nk \in {1, 2, 3} /\ (a + k) - 1 = a + (k - 1)
    BY <1>1, <1>2
  <2> QED
    BY <2>1 DEF FipsTemp
<1>10. w[a] = w[rk] (+) FipsTemp(w, nk, a)
  BY <1>1, <1>4, <1>5, <1>7, <1>8
<1>11. w[a + 1] = w[rk + 1] (+) FipsTemp(w, nk, a + 1)
  BY <1>1, <1>4, <1>5, <1>7, <1>9
<1>12. w[a + 2] = w[rk + 2] (+) FipsTemp(w, nk, a + 2)
  BY <1>1, <1>4, <1>5, <1>7, <1>9
<1>13. w[a + 3] = w[rk + 3] (+) FipsTemp(w, nk, a + 3)
  BY <1>1, <1>4, <1>5, <1>7, <1>9
<1> HIDE DEF nk
<1>14. \A k \in 0 .. 3 : w[a + k] = w[rk + k] (+) FipsTemp(w, nk, a + k)
  BY <1>1, <1>10, <1>11, <1>12, <1>13
<1> QED
  BY <1>14 DEF nk

(* What an iteration has to do for the schedule to stay an expansion.      *)
Extends(n) ==
  /\ eK' \in Schedule
  /\ \A j \in 0 .. rk + Nk - 1 : eK'[j] = eK[j]
  /\ \A k \in 0 .. n - 1 :
       eK'[rk + Nk + k] = eK'[rk + k] (+) FipsTemp(eK', Nk, rk + Nk + k)

LEMMA Expand16Extends ==
  ASSUME SetupInv, Expand16
  PROVE  Extends(4)
<1>1. pc = "expand" /\ keylen = 16 /\ eK' = Written(rk + 4, 4, NextFour)
  BY DEF Expand16
<1>2. Nk = 4
  BY <1>1 DEF Nk
<1>3. eK \in Schedule /\ rk \in Nat /\ rounds = 6 + Nk
      /\ rk + Nk + 4 <= 4 * (rounds + 1)
  BY <1>1, ExpandFacts
<1>4. \A k \in 0 .. 3 : NextFour[k + 1] \in Word
  BY <1>1, NextFourAre
<1>5. /\ eK' \in Schedule
      /\ \A j \in 0 .. rk + Nk - 1 : eK'[j] = eK[j]
      /\ \A k \in 0 .. 3 : eK'[rk + Nk + k] = NextFour[k + 1]
  <2>1. PICK q : q = NextFour
    OBVIOUS
  <2>2. rk + Nk = rk + 4 /\ rk + Nk \in Nat /\ rk + Nk + 4 <= 60
        /\ 4 \in Nat
    BY <1>2, <1>3
  <2>3. \A k \in 0 .. 4 - 1 : q[k + 1] \in Word
    BY <1>4, <2>1
  <2>4. eK' = Written(rk + Nk, 4, q)
    BY <1>1, <2>1, <2>2
  <2>5. eK \in Schedule
    BY <1>3
  <2>6. /\ eK' \in Schedule
        /\ \A j \in 0 .. (rk + Nk) - 1 : eK'[j] = eK[j]
        /\ \A k \in 0 .. 4 - 1 : eK'[rk + Nk + k] = q[k + 1]
    BY <2>2, <2>3, <2>4, <2>5, WritesIs, ZenonT(60)
  <2> QED
    BY <1>2, <1>3, <2>1, <2>6
<1> QED
  BY <1>1, <1>5, NextFourGrow DEF Extends

(* The loop for 24 bytes writes two words more, except the last time.      *)
LEMMA Expand24Extends ==
  ASSUME SetupInv, Expand24
  PROVE  Extends(IF i + 1 = 8 THEN 4 ELSE 6)
<1>1. pc = "expand" /\ keylen = 24
  BY DEF Expand24
<1>2. Nk = 6
  BY <1>1 DEF Nk
<1>3. eK \in Schedule /\ rk \in Nat /\ rounds = 6 + Nk /\ i \in Nat
      /\ rk = Nk * i /\ rk + Nk + 4 <= 4 * (rounds + 1)
  BY <1>1, ExpandFacts
<1>4. \A k \in 0 .. 3 : NextFour[k + 1] \in Word
  BY <1>1, NextFourAre
<1>5. CASE i + 1 = 8
  <2>1. eK' = Written(rk + 6, 4, NextFour)
    BY <1>5 DEF Expand24
  <2>2. /\ eK' \in Schedule
        /\ \A j \in 0 .. rk + Nk - 1 : eK'[j] = eK[j]
        /\ \A k \in 0 .. 3 : eK'[rk + Nk + k] = NextFour[k + 1]
    <3>1. PICK q : q = NextFour
      OBVIOUS
    <3>2. rk + Nk = rk + 6 /\ rk + Nk \in Nat /\ rk + Nk + 4 <= 60
          /\ 4 \in Nat
      BY <1>2, <1>3
    <3>3. \A k \in 0 .. 4 - 1 : q[k + 1] \in Word
      BY <1>4, <3>1
    <3>4. eK' = Written(rk + Nk, 4, q)
      BY <2>1, <3>1, <3>2
    <3>5. eK \in Schedule
      BY <1>3
    <3>6. /\ eK' \in Schedule
          /\ \A j \in 0 .. (rk + Nk) - 1 : eK'[j] = eK[j]
          /\ \A k \in 0 .. 4 - 1 : eK'[rk + Nk + k] = q[k + 1]
      BY <3>2, <3>3, <3>4, <3>5, WritesIs, ZenonT(60)
    <3> QED
      BY <1>2, <1>3, <3>1, <3>6
  <2> QED
    BY <1>1, <1>5, <2>2, NextFourGrow DEF Extends
<1>6. CASE i + 1 # 8
  <2> DEFINE w4 == eK[rk + 4] (+) NextFour[4]
             w5 == eK[rk + 5] (+) w4
             words == <<NextFour[1], NextFour[2], NextFour[3], NextFour[4], w4, w5>>
  <2>1. eK' = Written(rk + 6, 6, words)
    BY <1>6 DEF Expand24
  <2>2. NextFour[4] \in Word /\ eK[rk + 4] \in Word /\ eK[rk + 5] \in Word
    BY <1>1, <1>2, NextFourAre, ExpandFacts
  <2>3. w4 \in Word
    BY <2>2, WordLaws
  <2>4. w5 \in Word
    BY <2>2, <2>3, WordLaws
  <2> HIDE DEF w4, w5
  <2>5. /\ words[1] = NextFour[1] /\ words[2] = NextFour[2]
        /\ words[3] = NextFour[3] /\ words[4] = NextFour[4]
        /\ words[5] = w4 /\ words[6] = w5
    OBVIOUS
  <2> HIDE DEF words
  <2>6. \A k \in 0 .. 5 : words[k + 1] \in Word
    BY <1>1, <2>3, <2>4, <2>5, NextFourAre
  <2>7. rk + 6 + 6 <= 60
    BY <1>2, <1>3
  <2>8. /\ eK' \in Schedule
        /\ \A j \in 0 .. rk + Nk - 1 : eK'[j] = eK[j]
        /\ \A k \in 0 .. 5 : eK'[rk + Nk + k] = words[k + 1]
    <3>1. PICK q : q = words
      OBVIOUS
    <3>2. rk + Nk = rk + 6 /\ rk + Nk \in Nat /\ rk + Nk + 6 <= 60
          /\ 6 \in Nat
      BY <1>2, <1>3, <2>7
    <3>3. \A k \in 0 .. 6 - 1 : q[k + 1] \in Word
      BY <2>6, <3>1
    <3>4. eK' = Written(rk + Nk, 6, q)
      BY <2>1, <3>1, <3>2
    <3>5. eK \in Schedule
      BY <1>3
    <3>6. /\ eK' \in Schedule
          /\ \A j \in 0 .. (rk + Nk) - 1 : eK'[j] = eK[j]
          /\ \A k \in 0 .. 6 - 1 : eK'[rk + Nk + k] = q[k + 1]
      BY <3>2, <3>3, <3>4, <3>5, WritesIs, ZenonT(60)
    <3> QED
      BY <1>2, <1>3, <3>1, <3>6
  <2>9. \A k \in 0 .. 3 : eK'[rk + Nk + k] = NextFour[k + 1]
    BY <2>5, <2>8
  <2>10. \A k \in 0 .. 3 :
           eK'[rk + Nk + k] = eK'[rk + k] (+) FipsTemp(eK', Nk, rk + Nk + k)
    BY <1>1, <2>8, <2>9, NextFourGrow
  <2>11. \A k \in 4 .. 5 : FipsTemp(eK', Nk, rk + Nk + k) = eK'[rk + Nk + (k - 1)]
    <3> TAKE k \in 4 .. 5
    <3>1. (Nk * i + Nk + k) % Nk = k
      BY <1>2, <1>3, Residues
    <3>2. (rk + Nk + k) % Nk # 0 /\ ~(Nk > 6)
          /\ (rk + Nk + k) - 1 = rk + Nk + (k - 1)
      BY <1>2, <1>3, <3>1
    <3> QED
      BY <3>2 DEF FipsTemp
  <2>12. eK'[rk + Nk + 4] = eK'[rk + 4] (+) FipsTemp(eK', Nk, rk + Nk + 4)
    <3>1. eK'[rk + Nk + 4] = w4 /\ eK'[rk + Nk + 3] = NextFour[4]
          /\ eK'[rk + 4] = eK[rk + 4]
      BY <1>2, <1>3, <2>5, <2>8
    <3> QED
      BY <2>11, <3>1 DEF w4
  <2>13. eK'[rk + Nk + 5] = eK'[rk + 5] (+) FipsTemp(eK', Nk, rk + Nk + 5)
    <3>1. eK'[rk + Nk + 5] = w5 /\ eK'[rk + Nk + 4] = w4
          /\ eK'[rk + 5] = eK[rk + 5]
      BY <1>2, <1>3, <2>5, <2>8
    <3> QED
      BY <2>11, <3>1 DEF w5
  <2>14. \A k \in 0 .. 5 :
           eK'[rk + Nk + k] = eK'[rk + k] (+) FipsTemp(eK', Nk, rk + Nk + k)
    BY <2>10, <2>12, <2>13
  <2> QED
    BY <1>6, <2>8, <2>14 DEF Extends
<1> QED
  BY <1>5, <1>6

(* The loop for 32 bytes writes four words more, except the last time.     *)
LEMMA Expand32Extends ==
  ASSUME SetupInv, Expand32
  PROVE  Extends(IF i + 1 = 7 THEN 4 ELSE 8)
<1>1. pc = "expand" /\ keylen = 32
  BY DEF Expand32
<1>2. Nk = 8
  BY <1>1 DEF Nk
<1>3. eK \in Schedule /\ rk \in Nat /\ rounds = 6 + Nk /\ i \in Nat
      /\ rk = Nk * i /\ rk + Nk + 4 <= 4 * (rounds + 1)
  BY <1>1, ExpandFacts
<1>4. \A k \in 0 .. 3 : NextFour[k + 1] \in Word
  BY <1>1, NextFourAre
<1>5. CASE i + 1 = 7
  <2>1. eK' = Written(rk + 8, 4, NextFour)
    BY <1>5 DEF Expand32
  <2>2. /\ eK' \in Schedule
        /\ \A j \in 0 .. rk + Nk - 1 : eK'[j] = eK[j]
        /\ \A k \in 0 .. 3 : eK'[rk + Nk + k] = NextFour[k + 1]
    <3>1. PICK q : q = NextFour
      OBVIOUS
    <3>2. rk + Nk = rk + 8 /\ rk + Nk \in Nat /\ rk + Nk + 4 <= 60
          /\ 4 \in Nat
      BY <1>2, <1>3
    <3>3. \A k \in 0 .. 4 - 1 : q[k + 1] \in Word
      BY <1>4, <3>1
    <3>4. eK' = Written(rk + Nk, 4, q)
      BY <2>1, <3>1, <3>2
    <3>5. eK \in Schedule
      BY <1>3
    <3>6. /\ eK' \in Schedule
          /\ \A j \in 0 .. (rk + Nk) - 1 : eK'[j] = eK[j]
          /\ \A k \in 0 .. 4 - 1 : eK'[rk + Nk + k] = q[k + 1]
      BY <3>2, <3>3, <3>4, <3>5, WritesIs, ZenonT(60)
    <3> QED
      BY <1>2, <1>3, <3>1, <3>6
  <2> QED
    BY <1>1, <1>5, <2>2, NextFourGrow DEF Extends
<1>6. CASE i + 1 # 7
  <2> DEFINE temp == setup_mix(RotatedRight(NextFour[4]))
             tail == FourWords(From(rk + 4), temp)
             words == <<NextFour[1], NextFour[2], NextFour[3], NextFour[4],
                        tail[1], tail[2], tail[3], tail[4]>>
  <2>1. eK' = Written(rk + 8, 8, words)
    BY <1>6 DEF Expand32
  <2>2. temp = SubWord(NextFour[4]) /\ temp \in Word
    BY <1>4, SetupMixIsFips, SubWordType
  <2>3. From(rk + 4) \in [0 .. 3 -> Word]
    <3>1. \A c \in 0 .. 3 : eK[rk + (4 + c)] \in Word
      BY <1>1, <1>2, ExpandFacts
    <3>2. \A c \in 0 .. 3 : rk + (4 + c) = rk + 4 + c
      BY <1>3
    <3> QED
      BY <3>1, <3>2 DEF From
  <2>4. /\ From(rk + 4)[0] = eK[rk + 4] /\ From(rk + 4)[1] = eK[rk + 5]
        /\ From(rk + 4)[2] = eK[rk + 6] /\ From(rk + 4)[3] = eK[rk + 7]
    BY <1>3 DEF From
  <2> HIDE DEF temp
  <2>5. /\ tail[1] = From(rk + 4)[0] (+) temp
        /\ tail[2] = From(rk + 4)[1] (+) tail[1]
        /\ tail[3] = From(rk + 4)[2] (+) tail[2]
        /\ tail[4] = From(rk + 4)[3] (+) tail[3]
        /\ tail[1] \in Word /\ tail[2] \in Word /\ tail[3] \in Word /\ tail[4] \in Word
    BY <2>2, <2>3, FourWordsAre
  <2> HIDE DEF tail
  <2>6. /\ words[1] = NextFour[1] /\ words[2] = NextFour[2]
        /\ words[3] = NextFour[3] /\ words[4] = NextFour[4]
        /\ words[5] = tail[1] /\ words[6] = tail[2]
        /\ words[7] = tail[3] /\ words[8] = tail[4]
    OBVIOUS
  <2> HIDE DEF words
  <2>7. \A k \in 0 .. 7 : words[k + 1] \in Word
    BY <1>1, <2>5, <2>6, NextFourAre
  <2>8. rk + 8 + 8 <= 60
    <3>1. rk = 8 * i /\ rk + 12 <= 60 /\ i # 6
      BY <1>2, <1>3, <1>6
    <3> QED
      BY <1>3, <3>1
  <2>9. /\ eK' \in Schedule
        /\ \A j \in 0 .. rk + Nk - 1 : eK'[j] = eK[j]
        /\ \A k \in 0 .. 7 : eK'[rk + Nk + k] = words[k + 1]
    <3>1. PICK q : q = words
      OBVIOUS
    <3>2. rk + Nk = rk + 8 /\ rk + Nk \in Nat /\ rk + Nk + 8 <= 60
          /\ 8 \in Nat
      BY <1>2, <1>3, <2>8
    <3>3. \A k \in 0 .. 8 - 1 : q[k + 1] \in Word
      BY <2>7, <3>1
    <3>4. eK' = Written(rk + Nk, 8, q)
      BY <2>1, <3>1, <3>2
    <3>5. eK \in Schedule
      BY <1>3
    <3>6. /\ eK' \in Schedule
          /\ \A j \in 0 .. (rk + Nk) - 1 : eK'[j] = eK[j]
          /\ \A k \in 0 .. 8 - 1 : eK'[rk + Nk + k] = q[k + 1]
      BY <3>2, <3>3, <3>4, <3>5, WritesIs, ZenonT(60)
    <3> QED
      BY <1>2, <1>3, <3>1, <3>6
  <2>10. \A k \in 0 .. 3 : eK'[rk + Nk + k] = NextFour[k + 1]
    BY <2>6, <2>9
  <2>11. \A k \in 0 .. 3 :
           eK'[rk + Nk + k] = eK'[rk + k] (+) FipsTemp(eK', Nk, rk + Nk + k)
    BY <1>1, <2>9, <2>10, NextFourGrow
  <2>12. FipsTemp(eK', Nk, rk + Nk + 4) = SubWord(eK'[rk + Nk + 3])
    <3>1. (Nk * i + Nk + 4) % Nk = 4
      BY <1>2, <1>3, Residues
    <3>2. (rk + Nk + 4) % Nk = 4 /\ Nk > 6 /\ (rk + Nk + 4) - 1 = rk + Nk + 3
      BY <1>2, <1>3, <3>1
    <3> QED
      BY <3>2 DEF FipsTemp
  <2>13. \A k \in 5 .. 7 : FipsTemp(eK', Nk, rk + Nk + k) = eK'[rk + Nk + (k - 1)]
    <3> TAKE k \in 5 .. 7
    <3>1. (Nk * i + Nk + k) % Nk = k
      BY <1>2, <1>3, Residues
    <3>2. (rk + Nk + k) % Nk \in 5 .. 7 /\ (rk + Nk + k) - 1 = rk + Nk + (k - 1)
      BY <1>2, <1>3, <3>1
    <3> QED
      BY <3>2 DEF FipsTemp
  <2>14. /\ eK'[rk + Nk + 3] = NextFour[4] /\ eK'[rk + Nk + 4] = tail[1]
         /\ eK'[rk + Nk + 5] = tail[2] /\ eK'[rk + Nk + 6] = tail[3]
         /\ eK'[rk + Nk + 7] = tail[4]
    BY <2>6, <2>9
  <2>15. /\ eK'[rk + 4] = eK[rk + 4] /\ eK'[rk + 5] = eK[rk + 5]
         /\ eK'[rk + 6] = eK[rk + 6] /\ eK'[rk + 7] = eK[rk + 7]
    BY <1>2, <1>3, <2>9
  <2>16. eK'[rk + Nk + 4] = eK'[rk + 4] (+) FipsTemp(eK', Nk, rk + Nk + 4)
    BY <2>2, <2>4, <2>5, <2>12, <2>14, <2>15
  <2>17. eK'[rk + Nk + 5] = eK'[rk + 5] (+) FipsTemp(eK', Nk, rk + Nk + 5)
    BY <2>4, <2>5, <2>13, <2>14, <2>15
  <2>18. eK'[rk + Nk + 6] = eK'[rk + 6] (+) FipsTemp(eK', Nk, rk + Nk + 6)
    BY <2>4, <2>5, <2>13, <2>14, <2>15
  <2>19. eK'[rk + Nk + 7] = eK'[rk + 7] (+) FipsTemp(eK', Nk, rk + Nk + 7)
    BY <2>4, <2>5, <2>13, <2>14, <2>15
  <2>20. \A k \in 0 .. 7 :
           eK'[rk + Nk + k] = eK'[rk + k] (+) FipsTemp(eK', Nk, rk + Nk + k)
    BY <2>11, <2>16, <2>17, <2>18, <2>19
  <2> QED
    BY <1>6, <2>9, <2>20 DEF Extends
<1> QED
  BY <1>5, <1>6

(* An iteration that extends the schedule keeps it an expansion.           *)
LEMMA ExtendsExpansion ==
  ASSUME SetupInv, pc = "expand", NEW n \in Nat, Extends(n)
  PROVE  IsExpansion(eK', user, Nk, rk + Nk + n)
<1> DEFINE a == rk + Nk
<1>1. Nk \in {4, 6, 8} /\ rk \in Nat /\ IsExpansion(eK, user, Nk, a)
  BY ExpandFacts
<1>2. \A j \in 0 .. a - 1 : eK'[j] = eK[j]
  BY <1>1 DEF Extends
<1>3. \A j \in a .. a + n - 1 : eK'[j] = eK'[j - Nk] (+) FipsTemp(eK', Nk, j)
  <2> TAKE j \in a .. a + n - 1
  <2> DEFINE k == j - a
  <2>1. k \in 0 .. n - 1 /\ j = rk + Nk + k /\ j - Nk = rk + k
    BY <1>1
  <2> HIDE DEF k
  <2> QED
    BY <2>1 DEF Extends
<1>4. a \in Nat /\ Nk <= a
  BY <1>1
<1> HIDE DEF a
<1>5. IsExpansion(eK', user, Nk, a + n)
  BY <1>1, <1>2, <1>3, <1>4, ExpansionGrows
<1> QED
  BY <1>5 DEF a

(* An iteration goes on with room for four words more, or has filled the   *)
(* schedule and leaves the loop.                                           *)
LEMMA ExpandStep ==
  ASSUME SetupInv, Expand
  PROVE  /\ pc = "expand" /\ i' = i + 1
         /\ UNCHANGED <<dK, rounds, keylen, rrk, ret, user, setups>>
         /\ \/ /\ pc' = "invert" /\ rk' = rk /\ Extends(4)
               /\ rk + Nk + 4 = 4 * (rounds + 1)
            \/ /\ pc' = "expand" /\ rk' = rk + Nk /\ Extends(Nk)
               /\ rk + Nk + Nk + 4 <= 4 * (rounds + 1)
<1>1. UNCHANGED <<dK, rounds, keylen, rrk, ret, user, setups>>
  BY DEF Expand
<1>2. pc = "expand"
  BY DEF Expand, Expand16, Expand24, Expand32
<1>3. /\ rk = Nk * i /\ i \in Nat /\ rk \in Nat /\ rounds = 6 + Nk
      /\ rk + Nk + 4 <= 4 * (rounds + 1)
  BY <1>2, ExpandFacts
<1>4. CASE Expand16
  <2>1. Extends(4) /\ i' = i + 1
    BY <1>4, Expand16Extends DEF Expand16
  <2>2. Nk = 4
    BY <1>4 DEF Expand16, Nk
  <2>3. CASE i + 1 = 10
    <3>1. pc' = "invert" /\ rk' = rk
      BY <1>4, <2>3 DEF Expand16
    <3>2. rk + Nk + 4 = 4 * (rounds + 1)
      BY <1>3, <2>2, <2>3
    <3> QED
      BY <1>1, <1>2, <2>1, <3>1, <3>2
  <2>4. CASE i + 1 # 10
    <3>1. pc' = "expand" /\ rk' = rk + Nk
      BY <1>4, <2>2, <2>4 DEF Expand16
    <3>2. rk + Nk + Nk + 4 <= 4 * (rounds + 1)
      BY <1>3, <2>2, <2>4
    <3>3. Extends(Nk)
      BY <2>1, <2>2
    <3> QED
      BY <1>1, <1>2, <2>1, <3>1, <3>2, <3>3
  <2> QED
    BY <2>3, <2>4
<1>5. CASE Expand24
  <2>1. Extends(IF i + 1 = 8 THEN 4 ELSE 6) /\ i' = i + 1
    BY <1>5, Expand24Extends DEF Expand24
  <2>2. Nk = 6
    BY <1>5 DEF Expand24, Nk
  <2>3. CASE i + 1 = 8
    <3>1. pc' = "invert" /\ rk' = rk /\ Extends(4)
      BY <1>5, <2>1, <2>3 DEF Expand24
    <3>2. rk + Nk + 4 = 4 * (rounds + 1)
      BY <1>3, <2>2, <2>3
    <3> QED
      BY <1>1, <1>2, <2>1, <3>1, <3>2
  <2>4. CASE i + 1 # 8
    <3>1. pc' = "expand" /\ rk' = rk + Nk /\ Extends(Nk)
      BY <1>5, <2>1, <2>2, <2>4 DEF Expand24
    <3>2. rk + Nk + Nk + 4 <= 4 * (rounds + 1)
      BY <1>3, <2>2, <2>4
    <3> QED
      BY <1>1, <1>2, <2>1, <3>1, <3>2
  <2> QED
    BY <2>3, <2>4
<1>6. CASE Expand32
  <2>1. Extends(IF i + 1 = 7 THEN 4 ELSE 8) /\ i' = i + 1
    BY <1>6, Expand32Extends DEF Expand32
  <2>2. Nk = 8
    BY <1>6 DEF Expand32, Nk
  <2>3. CASE i + 1 = 7
    <3>1. pc' = "invert" /\ rk' = rk /\ Extends(4)
      BY <1>6, <2>1, <2>3 DEF Expand32
    <3>2. rk + Nk + 4 = 4 * (rounds + 1)
      BY <1>3, <2>2, <2>3
    <3> QED
      BY <1>1, <1>2, <2>1, <3>1, <3>2
  <2>4. CASE i + 1 # 7
    <3>1. pc' = "expand" /\ rk' = rk + Nk /\ Extends(Nk)
      BY <1>6, <2>1, <2>2, <2>4 DEF Expand32
    <3>2. rk + Nk + Nk + 4 <= 4 * (rounds + 1)
      BY <1>3, <2>2, <2>4
    <3> QED
      BY <1>1, <1>2, <2>1, <3>1, <3>2
  <2> QED
    BY <2>3, <2>4
<1> QED
  BY <1>4, <1>5, <1>6 DEF Expand

LEMMA ExpandKeepsInv ==
  ASSUME SetupInv, Expand
  PROVE  SetupInv'
<1>1. /\ eK \in Schedule /\ keylen \in {16, 24, 32} /\ rounds = 6 + Nk
      /\ Nk \in {4, 6, 8} /\ i \in Nat /\ rk \in Nat /\ rk = Nk * i
      /\ rk + Nk + 4 <= 4 * (rounds + 1) /\ i <= 9 /\ pc = "expand"
  BY ExpandFacts, ExpandStep
<1>2. i' = i + 1 /\ UNCHANGED <<dK, rounds, keylen, rrk, ret, user, setups>>
  BY ExpandStep
<1>3. Nk' = Nk
  BY <1>2 DEF Nk
<1>4. SetupTypeOK
  BY DEF SetupInv
<1>5. CASE /\ pc' = "invert" /\ rk' = rk /\ Extends(4)
           /\ rk + Nk + 4 = 4 * (rounds + 1)
  <2>1. IsExpansion(eK', user, Nk, rk + Nk + 4)
    BY <1>1, <1>5, ExtendsExpansion
  <2>2. KeyIsExpanded'
    BY <1>2, <1>3, <1>5, <2>1 DEF KeyIsExpanded
  <2>3. SetupPointers'
    BY <1>1, <1>2, <1>3, <1>5 DEF SetupPointers
  <2>4. SetupTypeOK'
    BY <1>1, <1>2, <1>4, <1>5 DEF SetupTypeOK, SetupLocations, Extends
  <2>5. InvertedSoFar' /\ InverseKeyMatches'
    BY <1>5 DEF InvertedSoFar, InverseKeyMatches
  <2> QED
    BY <2>2, <2>3, <2>4, <2>5 DEF SetupInv
<1>6. CASE /\ pc' = "expand" /\ rk' = rk + Nk /\ Extends(Nk)
           /\ rk + Nk + Nk + 4 <= 4 * (rounds + 1)
  <2>1. IsExpansion(eK', user, Nk, rk + Nk + Nk)
    BY <1>1, <1>6, ExtendsExpansion
  <2>2. KeyIsExpanded'
    BY <1>2, <1>3, <1>6, <2>1 DEF KeyIsExpanded
  <2>3. rk' = Nk * (i + 1)
    BY <1>1, <1>6
  <2>4. 4 * (rounds + 1) - rk' \in Nk + 4 .. 4 * (rounds + 1)
    BY <1>1, <1>6
  <2>5. SetupPointers'
    BY <1>1, <1>2, <1>3, <1>6, <2>3, <2>4 DEF SetupPointers
  <2>6. rk' \in 0 .. 59 /\ i' \in 0 .. 14
    BY <1>1, <1>2, <1>6
  <2>7. SetupTypeOK'
    BY <1>1, <1>2, <1>4, <1>6, <2>6 DEF SetupTypeOK, SetupLocations, Extends
  <2>8. InvertedSoFar' /\ InverseKeyMatches'
    BY <1>6 DEF InvertedSoFar, InverseKeyMatches
  <2> QED
    BY <2>2, <2>5, <2>7, <2>8 DEF SetupInv
<1> QED
  BY <1>5, <1>6, ExpandStep

-----------------------------------------------------------------------------
(* The other steps of aes_key_setup.                                       *)
LEMMA LoadKeepsInv ==
  ASSUME SetupInv, NEW key \in UserKeys, NEW len \in KeyLens, Load(key, len)
  PROVE  SetupInv'
<1>1. SetupTypeOK
  BY DEF SetupInv
<1>2. /\ len \in {16, 24, 32} /\ setups < MaxSetups
      /\ rounds' = 10 + ((len \div 8) - 2) * 2 /\ keylen' = len
      /\ eK' = [j \in Slots |-> IF j < len \div 4 THEN key[j] ELSE eK[j]]
      /\ i' = 0 /\ rk' = 0 /\ pc' = "expand" /\ user' = key
      /\ setups' = setups + 1
      /\ dK' = dK /\ rrk' = rrk /\ ret' = ret
  BY DEF Load
<1>3. Nk' = len \div 4 /\ Nk' \in {4, 6, 8} /\ rounds' = 6 + Nk'
  BY <1>2 DEF Nk
<1>4. key \in [0 .. 7 -> Word]
  BY UserKeysAssumption
<1>5. eK' \in Schedule
  <2>1. \A j \in Slots : j < len \div 4 => j \in 0 .. 7
    BY <1>3 DEF Slots
  <2>2. \A j \in Slots : eK[j] \in Word
    BY <1>1 DEF SetupTypeOK, Schedule
  <2> QED
    BY <1>2, <1>4, <2>1, <2>2 DEF Schedule
<1>6. KeyIsExpanded'
  <2>1. \A j \in 0 .. Nk' - 1 : j \in Slots /\ j < len \div 4
    BY <1>3 DEF Slots
  <2>2. \A j \in 0 .. Nk' - 1 : eK'[j] = user'[j]
    BY <1>2, <2>1
  <2>3. rk' + Nk' = Nk'
    BY <1>2, <1>3
  <2>4. \A j \in Nk' .. Nk' - 1 : FALSE
    BY <1>3
  <2>5. IsExpansion(eK', user', Nk', rk' + Nk')
    BY <2>2, <2>3, <2>4 DEF IsExpansion
  <2> QED
    BY <1>2, <2>5 DEF KeyIsExpanded
<1>7. SetupPointers'
  BY <1>2, <1>3 DEF SetupPointers
<1>8. SetupTypeOK'
  <2>1. rounds' \in {0, 10, 12, 14} /\ setups' \in 0 .. MaxSetups
    BY <1>1, <1>2, <1>3, SetupAssumption DEF SetupTypeOK
  <2> QED
    BY <1>1, <1>2, <1>5, <2>1 DEF SetupTypeOK, SetupLocations
<1>9. InvertedSoFar' /\ InverseKeyMatches'
  BY <1>2 DEF InvertedSoFar, InverseKeyMatches
<1> QED
  BY <1>6, <1>7, <1>8, <1>9 DEF SetupInv

LEMMA RefuseKeepsInv ==
  ASSUME SetupInv, NEW status \in {CRYPTO_INVALID_STRUCT, CRYPTO_INVALID_KEYSIZE},
         Refuse(status)
  PROVE  SetupInv'
<1>1. SetupTypeOK /\ SetupPointers /\ KeyIsExpanded
      /\ InvertedSoFar /\ InverseKeyMatches
  BY DEF SetupInv
<1>2. /\ setups' = setups + 1 /\ setups < MaxSetups /\ ret' = status
      /\ UNCHANGED <<pc, eK, dK, rounds, keylen, i, rk, rrk, user>>
  BY DEF Refuse
<1>3. Nk' = Nk
  BY <1>2 DEF Nk
<1>4. setups' \in 0 .. MaxSetups
  BY <1>1, <1>2, SetupAssumption DEF SetupTypeOK
<1>5. SetupTypeOK'
  BY <1>1, <1>2, <1>4 DEF SetupTypeOK
<1>6. SetupPointers' /\ KeyIsExpanded'
  BY <1>1, <1>2, <1>3 DEF SetupPointers, KeyIsExpanded
<1>7. InvertedSoFar' /\ InverseKeyMatches'
  BY <1>1, <1>2 DEF InvertedSoFar, InverseKeyMatches
<1> QED
  BY <1>5, <1>6, <1>7 DEF SetupInv

LEMMA SetupKeepsInv ==
  ASSUME SetupInv, NEW key \in UserKeys, NEW len \in KeyLens, Setup(key, len)
  PROVE  SetupInv'
BY LoadKeepsInv, RefuseKeepsInv DEF Setup

(* Four words are copied to dK, as they are or inverted; the rest stays.   *)
LEMMA CopiesAre ==
  ASSUME eK \in Schedule, dK \in Schedule, NEW to \in Nat, NEW from \in Nat,
         to + 3 <= 59, from + 3 <= 59
  PROVE  /\ dK' = Copied(to, from, Same) =>
              /\ dK' \in Schedule
              /\ \A c \in Columns : dK'[to + c] = eK[from + c]
              /\ \A j \in 0 .. to - 1 : dK'[j] = dK[j]
         /\ dK' = Copied(to, from, Inverted) =>
              /\ dK' \in Schedule
              /\ \A c \in Columns : dK'[to + c] = InvMix[eK[from + c]]
              /\ \A j \in 0 .. to - 1 : dK'[j] = dK[j]
<1>1. \A j \in Slots : j \in to .. to + 3 => eK[from + (j - to)] \in Word
  BY DEF Slots, Schedule
<1>2. \A j \in Slots : dK[j] \in Word
  BY DEF Schedule
<1>3. \A c \in Columns : /\ to + c \in Slots /\ to + c \in to .. to + 3
                         /\ from + ((to + c) - to) = from + c
                         /\ from + c \in Slots
  BY DEF Columns, Slots
<1>4. \A j \in 0 .. to - 1 : j \in Slots /\ j \notin to .. to + 3
  BY DEF Slots
<1>5. ASSUME dK' = Copied(to, from, Same)
      PROVE  /\ dK' \in Schedule
             /\ \A c \in Columns : dK'[to + c] = eK[from + c]
             /\ \A j \in 0 .. to - 1 : dK'[j] = dK[j]
  <2>1. dK' = [j \in Slots |-> IF j \in to .. to + 3 THEN eK[from + (j - to)]
                               ELSE dK[j]]
    BY <1>5 DEF Copied, Same
  <2> QED
    BY <1>1, <1>2, <1>3, <1>4, <2>1 DEF Schedule
<1>6. ASSUME dK' = Copied(to, from, Inverted)
      PROVE  /\ dK' \in Schedule
             /\ \A c \in Columns : dK'[to + c] = InvMix[eK[from + c]]
             /\ \A j \in 0 .. to - 1 : dK'[j] = dK[j]
  <2>1. dK' = [j \in Slots |-> IF j \in to .. to + 3
                               THEN Inverted(eK[from + (j - to)]) ELSE dK[j]]
    BY <1>6 DEF Copied
  <2>2. \A w \in Word : Inverted(w) = InvMix[w] /\ Inverted(w) \in Word
    BY InvertedIsInvMix, MixAssumption
  <2>3. \A c \in Columns : eK[from + c] \in Word
    BY <1>3 DEF Schedule
  <2>4. dK' \in Schedule
    BY <1>1, <1>2, <2>1, <2>2 DEF Schedule
  <2>5. \A c \in Columns : dK'[to + c] = Inverted(eK[from + c])
    BY <1>3, <2>1
  <2>6. \A j \in 0 .. to - 1 : dK'[j] = dK[j]
    BY <1>4, <2>1
  <2> QED
    BY <2>2, <2>3, <2>4, <2>5, <2>6
<1> QED
  BY <1>5, <1>6

(* What the steps that fill dK leave alone.                                *)
LEMMA CopyKeepsExpansion ==
  ASSUME SetupInv, pc # "expand", pc # "raw", pc' # "expand",
         UNCHANGED <<eK, rounds, keylen, user, setups>>
  PROVE  KeyIsExpanded'
<1>1. Nk' = Nk
  BY DEF Nk
<1>2. KeyIsExpanded
  BY DEF SetupInv
<1> QED
  BY <1>1, <1>2 DEF KeyIsExpanded

LEMMA CopyFirstKeepsInv ==
  ASSUME SetupInv, CopyFirst
  PROVE  SetupInv'
<1>1. SetupTypeOK /\ SetupPointers
  BY DEF SetupInv
<1>2. /\ pc = "invert" /\ pc' = "inverting"
      /\ dK' = Copied(0, 28 + keylen - 4, Same)
      /\ rk' = 0 /\ rrk' = 28 + keylen - 4 /\ i' = 1
      /\ UNCHANGED <<eK, rounds, keylen, ret, user, setups>>
  BY DEF CopyFirst
<1>3. /\ keylen \in {16, 24, 32} /\ rounds \in {10, 12, 14}
      /\ 28 + keylen - 4 = 4 * rounds
      /\ eK \in Schedule /\ dK \in Schedule
  BY <1>1, <1>2 DEF SetupPointers, SetupTypeOK, Nk
<1>4. dK' \in Schedule /\ \A c \in Columns : dK'[0 + c] = eK[4 * rounds + c]
  <2>1. dK' = Copied(0, 4 * rounds, Same) /\ 4 * rounds \in Nat /\ 0 \in Nat
        /\ 0 + 3 <= 59 /\ 4 * rounds + 3 <= 59
    BY <1>2, <1>3
  <2> QED
    BY <1>3, <2>1, CopiesAre, ZenonT(60)
<1>5. SetupTypeOK'
  <2>1. rrk' \in 0 .. 59 /\ i' \in 0 .. 14 /\ rk' \in 0 .. 59
    BY <1>2, <1>3
  <2> QED
    BY <1>1, <1>2, <1>4, <2>1 DEF SetupTypeOK, SetupLocations
<1>6. SetupPointers'
  <2>1. keylen' \in {16, 24, 32} /\ rounds' = 6 + Nk'
    BY <1>1, <1>2 DEF SetupPointers, Nk
  <2>2. i' \in 1 .. rounds' /\ rk' = 4 * (i' - 1) /\ rrk' = 4 * (rounds' - (i' - 1))
    BY <1>2, <1>3
  <2> QED
    BY <1>2, <2>1, <2>2 DEF SetupPointers
<1>7. InvertedSoFar'
  <2>1. ASSUME NEW c \in Columns
        PROVE  dK'[4 * 0 + c] = eK'[4 * (rounds' - 0) + c]
    BY <1>2, <1>3, <1>4 DEF Columns
  <2>2. \A q \in 0 .. i' - 1 : q = 0
    BY <1>2
  <2> QED
    BY <2>1, <2>2 DEF InvertedSoFar
<1>8. KeyIsExpanded'
  BY <1>2, CopyKeepsExpansion
<1>9. InverseKeyMatches'
  BY <1>2 DEF InverseKeyMatches
<1> QED
  BY <1>5, <1>6, <1>7, <1>8, <1>9 DEF SetupInv

LEMMA InvertOneKeepsInv ==
  ASSUME SetupInv, InvertOne
  PROVE  SetupInv'
<1>1. SetupTypeOK /\ SetupPointers /\ InvertedSoFar
  BY DEF SetupInv
<1>2. /\ pc = "inverting" /\ pc' = "inverting" /\ i < rounds
      /\ dK' = Copied(rk + 4, rrk - 4, Inverted)
      /\ rk' = rk + 4 /\ rrk' = rrk - 4 /\ i' = i + 1
      /\ UNCHANGED <<eK, rounds, keylen, ret, user, setups>>
  BY DEF InvertOne
<1>3. /\ i \in 1 .. rounds /\ rk = 4 * (i - 1) /\ rrk = 4 * (rounds - (i - 1))
      /\ rounds \in {10, 12, 14}
      /\ eK \in Schedule /\ dK \in Schedule
  BY <1>1, <1>2 DEF SetupPointers, SetupTypeOK, Nk
<1>4. /\ rk + 4 = 4 * i /\ rrk - 4 = 4 * (rounds - i)
      /\ 4 * i \in Nat /\ 4 * (rounds - i) \in Nat
      /\ 4 * i + 3 <= 59 /\ 4 * (rounds - i) + 3 <= 59
  BY <1>2, <1>3
<1>5. /\ dK' \in Schedule
      /\ \A c \in Columns : dK'[4 * i + c] = InvMix[eK[4 * (rounds - i) + c]]
      /\ \A j \in 0 .. (4 * i) - 1 : dK'[j] = dK[j]
  <2>1. dK' = Copied(4 * i, 4 * (rounds - i), Inverted)
    BY <1>2, <1>4
  <2> QED
    BY <1>3, <1>4, <2>1, CopiesAre, ZenonT(60)
<1>6. SetupTypeOK'
  <2>1. rrk' \in 0 .. 59 /\ i' \in 0 .. 14 /\ rk' \in 0 .. 59
    BY <1>2, <1>3
  <2> QED
    BY <1>1, <1>2, <1>5, <2>1 DEF SetupTypeOK, SetupLocations
<1>7. SetupPointers'
  <2>1. keylen' \in {16, 24, 32} /\ rounds' = 6 + Nk'
    BY <1>1, <1>2 DEF SetupPointers, Nk
  <2>2. i' \in 1 .. rounds' /\ rk' = 4 * (i' - 1) /\ rrk' = 4 * (rounds' - (i' - 1))
    BY <1>2, <1>3
  <2> QED
    BY <1>2, <2>1, <2>2 DEF SetupPointers
<1>8. InvertedSoFar'
  <2>1. ASSUME NEW q \in 0 .. i' - 1, NEW c \in Columns
        PROVE  dK'[4 * q + c] = LET w == eK[4 * (rounds - q) + c]
                                IN  IF q = 0 THEN w ELSE InvMix[w]
    <3>1. CASE q = i
      BY <1>3, <1>5, <3>1
    <3>2. CASE q # i
      <4>1. q \in 0 .. i - 1 /\ 4 * q + c \in 0 .. (4 * i) - 1
        BY <1>2, <1>3, <3>2 DEF Columns
      <4>2. dK'[4 * q + c] = dK[4 * q + c]
        BY <1>5, <4>1
      <4> QED
        BY <1>1, <1>2, <4>1, <4>2 DEF InvertedSoFar
    <3> QED
      BY <3>1, <3>2
  <2> QED
    BY <1>2, <2>1 DEF InvertedSoFar
<1>9. KeyIsExpanded'
  BY <1>2, CopyKeepsExpansion
<1>10. InverseKeyMatches'
  BY <1>2 DEF InverseKeyMatches
<1> QED
  BY <1>6, <1>7, <1>8, <1>9, <1>10 DEF SetupInv

LEMMA CopyLastKeepsInv ==
  ASSUME SetupInv, CopyLast
  PROVE  SetupInv'
<1>1. SetupTypeOK /\ SetupPointers /\ InvertedSoFar
  BY DEF SetupInv
<1>2. /\ pc = "inverting" /\ pc' = "ready" /\ i >= rounds
      /\ dK' = Copied(rk + 4, rrk - 4, Same)
      /\ rrk' = rrk - 1 /\ rk' = rk + 7 /\ ret' = CRYPTO_OK
      /\ UNCHANGED <<eK, rounds, keylen, i, user, setups>>
  BY DEF CopyLast
<1>3. /\ i = rounds /\ rk = 4 * (i - 1) /\ rrk = 4 * (rounds - (i - 1))
      /\ rounds \in {10, 12, 14}
      /\ eK \in Schedule /\ dK \in Schedule
  BY <1>1, <1>2 DEF SetupPointers, SetupTypeOK, Nk
<1>4. /\ rk + 4 = 4 * rounds /\ rrk - 4 = 0
      /\ 4 * rounds \in Nat /\ 0 \in Nat
      /\ 4 * rounds + 3 <= 59 /\ 0 + 3 <= 59
  BY <1>3
<1>5. /\ dK' \in Schedule
      /\ \A c \in Columns : dK'[4 * rounds + c] = eK[0 + c]
      /\ \A j \in 0 .. (4 * rounds) - 1 : dK'[j] = dK[j]
  <2>1. dK' = Copied(4 * rounds, 0, Same)
    BY <1>2, <1>4
  <2> QED
    BY <1>3, <1>4, <2>1, CopiesAre, ZenonT(60)
<1>6. SetupTypeOK'
  <2>1. rrk' \in 0 .. 59 /\ rk' \in 0 .. 59
    BY <1>2, <1>3
  <2> QED
    BY <1>1, <1>2, <1>5, <2>1 DEF SetupTypeOK, SetupLocations
<1>7. SetupPointers'
  BY <1>1, <1>2 DEF SetupPointers, Nk
<1>8. InverseKeyMatches'
  <2>1. ASSUME NEW q \in 0 .. rounds, NEW c \in Columns
        PROVE  dK'[4 * q + c] =
                 LET w == eK[4 * (rounds - q) + c]
                 IN  IF q \in {0, rounds} THEN w ELSE InvMix[w]
    <3>1. CASE q = rounds
      <4>1. 4 * (rounds - q) + c = 0 + c
        BY <1>3, <3>1 DEF Columns
      <4> QED
        BY <1>5, <3>1, <4>1
    <3>2. CASE q # rounds
      <4>1. q \in 0 .. i - 1 /\ 4 * q + c \in 0 .. (4 * rounds) - 1
        BY <1>3, <3>2 DEF Columns
      <4>2. dK'[4 * q + c] = dK[4 * q + c]
        BY <1>5, <4>1
      <4> QED
        BY <1>1, <1>2, <3>2, <4>1, <4>2 DEF InvertedSoFar
    <3> QED
      BY <3>1, <3>2
  <2> QED
    BY <1>2, <2>1 DEF InverseKeyMatches
<1>9. KeyIsExpanded'
  BY <1>2, CopyKeepsExpansion
<1>10. InvertedSoFar'
  BY <1>2 DEF InvertedSoFar
<1> QED
  BY <1>6, <1>7, <1>8, <1>9, <1>10 DEF SetupInv

LEMMA SetupStepKeepsInv ==
  ASSUME SetupInv, SetupStep
  PROVE  SetupInv'
BY ExpandKeepsInv, CopyFirstKeepsInv, InvertOneKeepsInv, CopyLastKeepsInv
   DEF SetupStep

LEMMA SetupStutters ==
  ASSUME SetupInv, UNCHANGED setupVars
  PROVE  SetupInv'
<1>1. Nk' = Nk
  BY DEF Nk, setupVars
<1>2. SetupTypeOK' /\ SetupPointers' /\ KeyIsExpanded'
  BY <1>1 DEF SetupInv, SetupTypeOK, SetupPointers, KeyIsExpanded, setupVars
<1>3. InvertedSoFar' /\ InverseKeyMatches'
  BY DEF SetupInv, InvertedSoFar, InverseKeyMatches, setupVars
<1> QED
  BY <1>2, <1>3 DEF SetupInv

LEMMA SetupInitInv == SetupInit => SetupInv
<1> SUFFICES ASSUME SetupInit PROVE SetupInv
  OBVIOUS
<1>1. eK \in Schedule /\ dK \in Schedule
  BY SetupAssumption DEF SetupInit, Schedule
<1>2. SetupTypeOK
  BY <1>1, SetupAssumption DEF SetupInit, SetupTypeOK, SetupLocations
<1>3. /\ SetupPointers /\ KeyIsExpanded /\ InvertedSoFar /\ InverseKeyMatches
  BY DEF SetupInit, SetupPointers, KeyIsExpanded, InvertedSoFar, InverseKeyMatches
<1> QED
  BY <1>2, <1>3 DEF SetupInv

-----------------------------------------------------------------------------
(* With a key set up, the functions make the rounds of FIPS 197.           *)
LEMMA ReadyFacts ==
  ASSUME SetupInv, pc = "ready"
  PROVE  /\ eK \in Schedule /\ dK \in Schedule /\ rounds \in {10, 12, 14}
         /\ \A k \in 0 .. rounds, c \in Columns :
              /\ 4 * k + c \in Slots
              /\ eK[4 * k + c] \in Word /\ dK[4 * k + c] \in Word
         /\ \A k \in 0 .. rounds, c \in Columns :
              dK[4 * (rounds - k) + c] =
                LET w == eK[4 * k + c]
                IN  IF k \in {0, rounds} THEN w ELSE InvMix[w]
<1>1. SetupTypeOK /\ SetupPointers /\ InverseKeyMatches
  BY DEF SetupInv
<1>2. eK \in Schedule /\ dK \in Schedule /\ rounds \in {10, 12, 14}
  BY <1>1 DEF SetupTypeOK, SetupPointers, Nk
<1>3. \A k \in 0 .. rounds, c \in Columns : 4 * k + c \in Slots
  BY <1>2 DEF Columns, Slots
<1>4. ASSUME NEW k \in 0 .. rounds, NEW c \in Columns
      PROVE  dK[4 * (rounds - k) + c] =
               LET w == eK[4 * k + c]
               IN  IF k \in {0, rounds} THEN w ELSE InvMix[w]
  <2> DEFINE q == rounds - k
  <2>1. /\ q \in 0 .. rounds /\ rounds - q = k
        /\ q \in {0, rounds} <=> k \in {0, rounds}
    BY <1>2
  <2> HIDE DEF q
  <2>2. dK[4 * q + c] = LET w == eK[4 * (rounds - q) + c]
                        IN  IF q \in {0, rounds} THEN w ELSE InvMix[w]
    BY <1>1, <2>1 DEF InverseKeyMatches
  <2>3. dK[4 * q + c] = LET w == eK[4 * k + c]
                        IN  IF k \in {0, rounds} THEN w ELSE InvMix[w]
    BY <2>1, <2>2
  <2> QED
    BY <2>3 DEF q
<1> QED
  BY <1>2, <1>3, <1>4 DEF Schedule

LEMMA RoundTypes ==
  ASSUME SetupInv, pc = "ready", NEW x \in State, NEW k \in 0 .. rounds
  PROVE  AddRoundKey(x, k) \in State /\ MixColumns(x) \in State
<1>1. \A c \in Columns : eK[4 * k + c] \in Word
  BY ReadyFacts
<1> QED
  BY <1>1, WordLaws, MixAssumption DEF AddRoundKey, MixColumns, State

LEMMA EncryptsARound ==
  ASSUME SetupInv, pc = "ready", NEW x \in State, NEW k \in 0 .. rounds
  PROVE  /\ EncryptRound(x, 4 * k) = AddRoundKey(MixColumns(ShiftedSub(x)), k)
         /\ EncryptLast(x, 4 * k) = AddRoundKey(ShiftedSub(x), k)
         /\ EncryptRound(x, 4 * k) \in State /\ EncryptLast(x, 4 * k) \in State
<1>1. 4 * k \in Nat
  BY ReadyFacts
<1>2. EncryptRound(x, 4 * k) = AddRoundKey(MixColumns(ShiftedSub(x)), k)
  BY <1>1, EncryptRoundIs DEF AddRoundKey, MixColumns
<1>3. EncryptLast(x, 4 * k) = AddRoundKey(ShiftedSub(x), k)
  BY <1>1, EncryptLastIs DEF AddRoundKey
<1>4. ShiftedSub(x) \in State
  BY ShiftedSubType
<1>5. MixColumns(ShiftedSub(x)) \in State /\ AddRoundKey(ShiftedSub(x), k) \in State
  BY <1>4, RoundTypes
<1>6. AddRoundKey(MixColumns(ShiftedSub(x)), k) \in State
  BY <1>5, RoundTypes
<1> QED
  BY <1>2, <1>3, <1>5, <1>6

LEMMA DecryptTypes ==
  ASSUME SetupInv, pc = "ready", NEW x \in State, NEW k \in 0 .. rounds
  PROVE  DecryptRound(x, 4 * k) \in State /\ DecryptLast(x, 4 * k) \in State
<1>1. 4 * k \in Nat
  BY ReadyFacts
<1>2. \A c \in Columns : dK[4 * k + c] \in Word
  BY ReadyFacts
<1>3. \A c \in Columns : InvShiftedSub(x)[c] \in Word
  BY ShiftedSubType DEF State
<1>4. \A c \in Columns : InvMix[InvShiftedSub(x)[c]] \in Word
  BY <1>3, MixAssumption
<1>5. DecryptRound(x, 4 * k) \in State
  BY <1>1, <1>2, <1>4, DecryptRoundIs, WordLaws DEF State
<1>6. DecryptLast(x, 4 * k) \in State
  BY <1>1, <1>2, <1>3, DecryptLastIs, WordLaws DEF State
<1> QED
  BY <1>5, <1>6

(* The decryption goes back: the first round key first, ...                *)
LEMMA RetracesFirst ==
  ASSUME SetupInv, pc = "ready", NEW z \in State
  PROVE  LET y == AddRoundKey(z, rounds)
         IN  [c \in Columns |-> y[c] (+) dK[c]] = z
<1> DEFINE y == AddRoundKey(z, rounds)
<1>1. rounds \in 0 .. rounds /\ rounds \in {10, 12, 14}
  BY ReadyFacts
<1>2. ASSUME NEW c \in Columns
      PROVE  y[c] (+) dK[c] = z[c]
  <2>1. dK[4 * (rounds - rounds) + c] = eK[4 * rounds + c]
    BY <1>1, ReadyFacts
  <2>2. dK[c] = eK[4 * rounds + c]
    BY <1>1, <2>1 DEF Columns
  <2>3. eK[4 * rounds + c] \in Word /\ z[c] \in Word
    BY <1>1, ReadyFacts DEF State
  <2>4. y[c] = z[c] (+) eK[4 * rounds + c]
    BY DEF AddRoundKey
  <2> QED
    BY <2>2, <2>3, <2>4, WordLaws
<1>3. z = [c \in Columns |-> z[c]]
  BY DEF State
<1> HIDE DEF y
<1>4. [c \in Columns |-> y[c] (+) dK[c]] = z
  BY <1>2, <1>3
<1> QED
  BY <1>4 DEF y

(* ... then the full rounds, with the inverted round keys, ...             *)
LEMMA RetracesRound ==
  ASSUME SetupInv, pc = "ready", NEW z \in State, NEW k \in 1 .. rounds - 1
  PROVE  LET y == AddRoundKey(MixColumns(z), k)
         IN  DecryptRound(ShiftedSub(y), 4 * (rounds - k)) = z
<1> DEFINE y == AddRoundKey(MixColumns(z), k)
<1>1. rounds \in {10, 12, 14} /\ k \in 0 .. rounds /\ k \notin {0, rounds}
      /\ 4 * (rounds - k) \in Nat
  BY ReadyFacts
<1>2. y \in State
  BY <1>1, RoundTypes
<1>3. ShiftedSub(y) \in State /\ InvShiftedSub(ShiftedSub(y)) = y
  BY <1>2, ShiftedSubType, ShiftedSubInverts
<1>4. ASSUME NEW c \in Columns
      PROVE  InvMix[y[c]] (+) dK[4 * (rounds - k) + c] = z[c]
  <2> DEFINE w == eK[4 * k + c]
  <2>1. dK[4 * (rounds - k) + c] = InvMix[w] /\ w \in Word
    BY <1>1, ReadyFacts
  <2>2. y[c] = Mix[z[c]] (+) w
    BY DEF AddRoundKey, MixColumns
  <2>3. z[c] \in Word /\ Mix[z[c]] \in Word /\ InvMix[w] \in Word
    BY <2>1, MixAssumption DEF State
  <2> HIDE DEF w
  <2>4. InvMix[y[c]] = InvMix[Mix[z[c]]] (+) InvMix[w]
    BY <2>1, <2>2, <2>3, MixAssumption
  <2>5. InvMix[y[c]] = z[c] (+) InvMix[w]
    BY <2>3, <2>4, MixAssumption
  <2> QED
    BY <2>1, <2>3, <2>5, WordLaws
<1>5. z = [c \in Columns |-> z[c]]
  BY DEF State
<1> HIDE DEF y
<1>6. DecryptRound(ShiftedSub(y), 4 * (rounds - k))
        = [c \in Columns |-> InvMix[y[c]] (+) dK[4 * (rounds - k) + c]]
  BY <1>1, <1>3, DecryptRoundIs
<1>7. DecryptRound(ShiftedSub(y), 4 * (rounds - k)) = z
  BY <1>4, <1>5, <1>6
<1> QED
  BY <1>7 DEF y

(* ... and the last without InvMixColumns.                                 *)
LEMMA RetracesLast ==
  ASSUME SetupInv, pc = "ready", NEW z \in State
  PROVE  DecryptLast(ShiftedSub(AddRoundKey(z, 0)), 4 * rounds) = z
<1> DEFINE y == AddRoundKey(z, 0)
<1>1. rounds \in {10, 12, 14} /\ 0 \in 0 .. rounds /\ 4 * rounds \in Nat
  BY ReadyFacts
<1>2. y \in State
  BY <1>1, RoundTypes
<1>3. ShiftedSub(y) \in State /\ InvShiftedSub(ShiftedSub(y)) = y
  BY <1>2, ShiftedSubType, ShiftedSubInverts
<1>4. ASSUME NEW c \in Columns
      PROVE  y[c] (+) dK[4 * rounds + c] = z[c]
  <2>1. dK[4 * (rounds - 0) + c] = eK[4 * 0 + c] /\ eK[4 * 0 + c] \in Word
    BY <1>1, ReadyFacts
  <2>2. rounds - 0 = rounds
    BY <1>1
  <2>3. z[c] \in Word /\ y[c] = z[c] (+) eK[4 * 0 + c]
    BY DEF State, AddRoundKey
  <2> QED
    BY <2>1, <2>2, <2>3, WordLaws
<1>5. z = [c \in Columns |-> z[c]]
  BY DEF State
<1> HIDE DEF y
<1>6. DecryptLast(ShiftedSub(y), 4 * rounds)
        = [c \in Columns |-> y[c] (+) dK[4 * rounds + c]]
  BY <1>1, <1>3, DecryptLastIs
<1>7. DecryptLast(ShiftedSub(y), 4 * rounds) = z
  BY <1>4, <1>5, <1>6
<1> QED
  BY <1>7 DEF y

-----------------------------------------------------------------------------
(* A sequence of states that is an encryption of p.                        *)
IsEncryption(tr, p) ==
  /\ tr[1] = AddRoundKey(p, 0)
  /\ \A k \in 1 .. Len(tr) - 1 :
       tr[k + 1] = AddRoundKey(IF k = rounds THEN ShiftedSub(tr[k])
                               ELSE MixColumns(ShiftedSub(tr[k])), k)

LEMMA EncryptsIsEncryption ==
  /\ EncryptsAsFips197 <=>
       (trace # <<>> => /\ IsEncryption(trace, plain)
                        /\ bpc = "idle" => Len(trace) = rounds + 1)
  /\ UNCHANGED setupVars =>
       (EncryptsAsFips197' <=>
          (trace' # <<>> => /\ IsEncryption(trace', plain')
                            /\ bpc' = "idle" => Len(trace') = rounds + 1))
<1>1. EncryptsAsFips197 <=>
        (trace # <<>> => /\ IsEncryption(trace, plain)
                         /\ bpc = "idle" => Len(trace) = rounds + 1)
  BY DEF EncryptsAsFips197, IsEncryption
<1>2. ASSUME UNCHANGED setupVars
      PROVE  EncryptsAsFips197' <=>
               (trace' # <<>> => /\ IsEncryption(trace', plain')
                                 /\ bpc' = "idle" => Len(trace') = rounds + 1)
  <2>1. eK' = eK /\ rounds' = rounds
    BY <1>2 DEF setupVars
  <2> QED
    BY <2>1 DEF EncryptsAsFips197, IsEncryption, AddRoundKey
<1> QED
  BY <1>1, <1>2

LEMMA EncryptionGrows ==
  ASSUME NEW tr \in Seq(State), tr # <<>>, NEW p, IsEncryption(tr, p),
         NEW y \in State, NEW n, n = Len(tr),
         y = AddRoundKey(IF n = rounds THEN ShiftedSub(tr[n])
                         ELSE MixColumns(ShiftedSub(tr[n])), n)
  PROVE  IsEncryption(Append(tr, y), p)
<1> DEFINE tr2 == Append(tr, y)
<1>1. n \in Nat /\ n >= 1 /\ Len(tr2) = n + 1 /\ tr2[n + 1] = y
      /\ \A k \in 1 .. n : tr2[k] = tr[k]
  OBVIOUS
<1> HIDE DEF tr2
<1>2. tr2[1] = AddRoundKey(p, 0)
  BY <1>1 DEF IsEncryption
<1>3. ASSUME NEW k \in 1 .. Len(tr2) - 1
      PROVE  tr2[k + 1] = AddRoundKey(IF k = rounds THEN ShiftedSub(tr2[k])
                                      ELSE MixColumns(ShiftedSub(tr2[k])), k)
  <2>1. CASE k = n
    <3>1. tr2[k] = tr[n] /\ tr2[k + 1] = y
      BY <1>1, <2>1
    <3> QED
      BY <2>1, <3>1
  <2>2. CASE k # n
    <3>1. k \in 1 .. Len(tr) - 1 /\ k + 1 \in 1 .. n /\ k \in 1 .. n
      BY <1>1, <2>2
    <3>2. tr2[k] = tr[k] /\ tr2[k + 1] = tr[k + 1]
      BY <1>1, <3>1
    <3> QED
      BY <3>1, <3>2 DEF IsEncryption
  <2> QED
    BY <2>1, <2>2
<1>4. IsEncryption(tr2, p)
  BY <1>2, <1>3 DEF IsEncryption
<1> QED
  BY <1>4 DEF tr2

(* Where a function is when it makes a round.                              *)
LEMMA BlockFacts ==
  ASSUME AInv, bpc # "idle"
  PROVE  /\ SetupInv /\ pc = "ready" /\ rounds \in {10, 12, 14}
         /\ Current \in State /\ trace \in Seq(State)
         /\ RoundsDone \in 0 .. rounds - 1
         /\ bpc \in {"odd", "even"} => RoundsDone + 1 \in 1 .. rounds - 1
         /\ bpc = "odd" => at + 4 = 4 * (RoundsDone + 1)
         /\ bpc = "even" => at = 4 * (RoundsDone + 1)
         /\ bpc = "last" => RoundsDone = rounds - 1 /\ at = 4 * rounds
<1>1. SetupInv /\ TypeOK /\ BlockPointers
  BY DEF AInv
<1>2. pc = "ready" /\ bpc \in {"odd", "even", "last"}
  BY <1>1 DEF BlockPointers, TypeOK
<1>3. rounds \in {10, 12, 14}
  BY <1>1, <1>2, ReadyFacts
<1>4. Current \in State /\ trace \in Seq(State) /\ r \in 0 .. 7 /\ at \in 0 .. 56
  BY <1>1 DEF TypeOK, Current
<1>5. CASE bpc = "odd"
  <2>1. r \in 1 .. (rounds \div 2) /\ at = 8 * ((rounds \div 2) - r)
    BY <1>1, <1>5 DEF BlockPointers
  <2>2. RoundsDone = rounds - 2 * r
    BY <1>3, <1>4, <1>5, <2>1 DEF RoundsDone
  <2> QED
    BY <1>1, <1>2, <1>3, <1>4, <1>5, <2>1, <2>2
<1>6. CASE bpc = "even"
  <2>1. r \in 1 .. (rounds \div 2) - 1 /\ at = 8 * ((rounds \div 2) - r)
    BY <1>1, <1>6 DEF BlockPointers
  <2>2. RoundsDone = (at \div 4) - 1 /\ at \div 4 = rounds - 2 * r
    BY <1>3, <1>4, <1>6, <2>1 DEF RoundsDone
  <2> QED
    BY <1>1, <1>2, <1>3, <1>4, <1>6, <2>1, <2>2
<1>7. CASE bpc = "last"
  <2>1. at = 4 * rounds
    BY <1>1, <1>7 DEF BlockPointers
  <2>2. RoundsDone = rounds - 1
    BY <1>3, <1>7, <2>1 DEF RoundsDone
  <2> QED
    BY <1>1, <1>2, <1>3, <1>4, <1>7, <2>1, <2>2
<1> QED
  BY <1>2, <1>5, <1>6, <1>7

(* A full round: the current state y is one round further.                 *)
LEMMA FullRound ==
  ASSUME AInv, bpc \in {"odd", "even"}, UNCHANGED setupVars,
         NEW y, y = Round(Current, 4 * (RoundsDone + 1)),
         Current' = y, RoundsDone' = RoundsDone + 1,
         bpc' \in {"odd", "even", "last"}, dec' = dec,
         trace' = IF dec THEN trace ELSE Append(trace, y),
         input' = input, plain' = plain
  PROVE  /\ y \in State /\ trace' \in Seq(State)
         /\ TraceIsCurrent' /\ EncryptsAsFips197'
         /\ DecryptionRetraces' /\ DecryptInverts'
<1> DEFINE x == Current
           m == RoundsDone
<1>1. /\ SetupInv /\ pc = "ready" /\ rounds \in {10, 12, 14}
      /\ x \in State /\ trace \in Seq(State) /\ m \in 0 .. rounds - 1
      /\ m + 1 \in 1 .. rounds - 1 /\ m + 1 \in 0 .. rounds
  BY BlockFacts
<1>2. dec \in BOOLEAN /\ bpc # "idle" /\ bpc' # "idle" /\ rounds' = rounds
  BY DEF AInv, TypeOK, setupVars
<1>3. TraceIsCurrent /\ EncryptsAsFips197 /\ DecryptionRetraces
  BY DEF AInv
<1>4. DecryptInverts'
  BY <1>2 DEF DecryptInverts
<1>5. CASE dec
  <2>1. y = DecryptRound(x, 4 * (m + 1)) /\ trace' = trace
    BY <1>5 DEF Round
  <2>2. y \in State
    BY <1>1, <2>1, DecryptTypes
  <2>3. trace # <<>> => Len(trace) = rounds + 1
    BY <1>3, <1>5 DEF TraceIsCurrent
  <2>4. TraceIsCurrent'
    BY <1>2, <1>5, <2>1, <2>3 DEF TraceIsCurrent
  <2>5. EncryptsAsFips197'
    BY <1>2, <1>3, <2>1, EncryptsIsEncryption
  <2>6. DecryptionRetraces'
    <3>1. SUFFICES ASSUME trace # <<>>, input = trace[Len(trace)]
                   PROVE  y = ShiftedSub(trace[rounds - (m + 1)])
      BY <1>2, <2>1 DEF DecryptionRetraces
    <3> DEFINE k == rounds - (m + 1)
               z == ShiftedSub(trace[k])
    <3>2. k \in 1 .. rounds - 1 /\ k + 1 = rounds - m /\ rounds - k = m + 1
          /\ k # rounds /\ k \in 1 .. Len(trace) - 1 /\ k \in 1 .. Len(trace)
      BY <1>1, <2>3, <3>1
    <3>3. x = ShiftedSub(trace[k + 1])
      BY <1>2, <1>3, <1>5, <3>1, <3>2 DEF DecryptionRetraces
    <3>4. trace[k + 1] = AddRoundKey(MixColumns(z), k)
      BY <1>3, <3>1, <3>2 DEF EncryptsAsFips197
    <3>5. z \in State
      BY <1>1, <3>2, ShiftedSubType
    <3> HIDE DEF k, z, x, m
    <3>6. DecryptRound(ShiftedSub(AddRoundKey(MixColumns(z), k)), 4 * (rounds - k)) = z
      BY <1>1, <3>2, <3>5, RetracesRound
    <3>7. y = z
      BY <2>1, <3>2, <3>3, <3>4, <3>6
    <3> QED
      BY <3>7 DEF k, z
  <2> QED
    BY <1>1, <1>4, <2>1, <2>2, <2>4, <2>5, <2>6
<1>6. CASE ~dec
  <2>1. y = EncryptRound(x, 4 * (m + 1)) /\ trace' = Append(trace, y)
    BY <1>6 DEF Round
  <2>2. y \in State /\ y = AddRoundKey(MixColumns(ShiftedSub(x)), m + 1)
    BY <1>1, <2>1, EncryptsARound
  <2>3. Len(trace) = m + 1 /\ trace[Len(trace)] = x
    BY <1>2, <1>3, <1>6 DEF TraceIsCurrent
  <2>4. trace # <<>> /\ m + 1 # rounds
    BY <1>1, <2>3
  <2>5. IsEncryption(trace, plain)
    BY <1>3, <2>4, EncryptsIsEncryption
  <2>6. y = AddRoundKey(IF m + 1 = rounds THEN ShiftedSub(trace[m + 1])
                        ELSE MixColumns(ShiftedSub(trace[m + 1])), m + 1)
    BY <2>2, <2>3, <2>4
  <2> HIDE DEF m, x
  <2>7. IsEncryption(Append(trace, y), plain)
    BY <1>1, <2>2, <2>3, <2>4, <2>5, <2>6, EncryptionGrows
  <2>8. /\ trace' \in Seq(State) /\ Len(trace') = m + 2 /\ trace'[m + 2] = y
        /\ trace' # <<>>
    BY <1>1, <2>1, <2>2, <2>3
  <2>9. EncryptsAsFips197'
    BY <1>2, <2>1, <2>7, EncryptsIsEncryption
  <2>10. TraceIsCurrent'
    <3>1. Len(trace') = RoundsDone' + 1 /\ trace'[Len(trace')] = Current'
      BY <1>1, <2>8 DEF m
    <3> QED
      BY <1>2, <1>6, <3>1 DEF TraceIsCurrent
  <2>11. DecryptionRetraces'
    BY <1>6 DEF DecryptionRetraces
  <2> QED
    BY <1>4, <2>2, <2>8, <2>9, <2>10, <2>11
<1> QED
  BY <1>2, <1>5, <1>6

-----------------------------------------------------------------------------
(* The steps.                                                              *)
LEMMA SetupTyped == SetupInv => SetupTypeOK
BY DEF SetupInv

LEMMA OddRoundKeepsInv ==
  ASSUME AInv, OddRound, UNCHANGED setupVars
  PROVE  AInv'
<1>1. /\ bpc = "odd" /\ t' = Round(s, at + 4) /\ at' = at + 8 /\ r' = r - 1
      /\ bpc' = (IF r - 1 = 0 THEN "last" ELSE "even")
      /\ trace' = IF dec THEN trace ELSE Append(trace, t')
      /\ UNCHANGED <<dec, s, input, output, plain, blocks>>
  BY DEF OddRound, Traced
<1>2. TypeOK /\ BlockPointers
  BY DEF AInv
<1>3. /\ pc = "ready" /\ rounds \in {10, 12, 14} /\ at + 4 = 4 * (RoundsDone + 1)
      /\ rounds' = rounds /\ pc' = pc
  BY <1>1, BlockFacts DEF setupVars
<1>4. r \in 1 .. (rounds \div 2) /\ at = 8 * ((rounds \div 2) - r)
  BY <1>1, <1>2 DEF BlockPointers
<1>5. bpc' \in {"even", "last"}
  BY <1>1
<1>6. Current = s /\ Current' = t'
  BY <1>1, <1>5 DEF Current
<1>7. RoundsDone' = RoundsDone + 1
  <2>1. RoundsDone = at \div 4 /\ RoundsDone' = (at' \div 4) - 1
    BY <1>1, <1>5 DEF RoundsDone
  <2> QED
    BY <1>1, <1>3, <1>4, <2>1
<1>8. t' = Round(Current, 4 * (RoundsDone + 1))
  BY <1>1, <1>3, <1>6
<1>9. /\ t' \in State /\ trace' \in Seq(State)
      /\ TraceIsCurrent' /\ EncryptsAsFips197'
      /\ DecryptionRetraces' /\ DecryptInverts'
  BY <1>1, <1>5, <1>6, <1>7, <1>8, FullRound
<1>10. SetupInv' /\ SetupTypeOK'
  BY SetupStutters, SetupTyped DEF AInv, SetupInv
<1>11. at' \in 0 .. 56 /\ r' \in 0 .. 7
  BY <1>1, <1>3, <1>4
<1>12. TypeOK'
  BY <1>1, <1>2, <1>5, <1>9, <1>10, <1>11 DEF TypeOK
<1>13. BlockPointers'
  BY <1>1, <1>3, <1>4, <1>5 DEF BlockPointers
<1> QED
  BY <1>9, <1>10, <1>12, <1>13 DEF AInv

LEMMA EvenRoundKeepsInv ==
  ASSUME AInv, EvenRound, UNCHANGED setupVars
  PROVE  AInv'
<1>1. /\ bpc = "even" /\ bpc' = "odd" /\ s' = Round(t, at)
      /\ trace' = IF dec THEN trace ELSE Append(trace, s')
      /\ UNCHANGED <<dec, t, at, r, input, output, plain, blocks>>
  BY DEF EvenRound, Traced
<1>2. TypeOK /\ BlockPointers
  BY DEF AInv
<1>3. /\ pc = "ready" /\ rounds \in {10, 12, 14} /\ at = 4 * (RoundsDone + 1)
      /\ rounds' = rounds /\ pc' = pc
  BY <1>1, BlockFacts DEF setupVars
<1>4. r \in 1 .. (rounds \div 2) - 1 /\ at = 8 * ((rounds \div 2) - r)
  BY <1>1, <1>2 DEF BlockPointers
<1>5. Current = t /\ Current' = s'
  BY <1>1 DEF Current
<1>6. RoundsDone' = RoundsDone + 1
  <2>1. RoundsDone = (at \div 4) - 1 /\ RoundsDone' = at \div 4
    BY <1>1 DEF RoundsDone
  <2> QED
    BY <1>3, <1>4, <2>1
<1>7. s' = Round(Current, 4 * (RoundsDone + 1))
  BY <1>1, <1>3, <1>5
<1>8. /\ s' \in State /\ trace' \in Seq(State)
      /\ TraceIsCurrent' /\ EncryptsAsFips197'
      /\ DecryptionRetraces' /\ DecryptInverts'
  BY <1>1, <1>5, <1>6, <1>7, FullRound
<1>9. SetupInv' /\ SetupTypeOK'
  BY SetupStutters, SetupTyped DEF AInv, SetupInv
<1>10. TypeOK'
  BY <1>1, <1>2, <1>8, <1>9 DEF TypeOK
<1>11. BlockPointers'
  BY <1>1, <1>3, <1>4 DEF BlockPointers
<1> QED
  BY <1>8, <1>9, <1>10, <1>11 DEF AInv

LEMMA LastRoundKeepsInv ==
  ASSUME AInv, LastRound, UNCHANGED setupVars
  PROVE  AInv'
<1>1. /\ bpc = "last" /\ bpc' = "idle" /\ s' = Last(t, at) /\ output' = s'
      /\ trace' = IF dec THEN trace ELSE Append(trace, s')
      /\ UNCHANGED <<dec, t, at, r, input, plain, blocks>>
  BY DEF LastRound, Traced
<1>2. TypeOK /\ BlockPointers /\ TraceIsCurrent /\ EncryptsAsFips197
      /\ DecryptionRetraces
  BY DEF AInv
<1>3. /\ SetupInv /\ pc = "ready" /\ rounds \in {10, 12, 14}
      /\ RoundsDone = rounds - 1 /\ at = 4 * rounds /\ rounds \in 0 .. rounds
      /\ trace \in Seq(State) /\ Current \in State
      /\ rounds' = rounds /\ pc' = pc
  BY <1>1, BlockFacts DEF setupVars
<1>4. Current = t
  BY <1>1 DEF Current
<1>5. SetupInv' /\ SetupTypeOK'
  BY SetupStutters, SetupTyped DEF AInv, SetupInv
<1>6. BlockPointers'
  BY <1>1, <1>3 DEF BlockPointers
<1>7. DecryptionRetraces'
  BY <1>1 DEF DecryptionRetraces
<1>8. /\ s' \in State /\ trace' \in Seq(State)
      /\ TraceIsCurrent' /\ EncryptsAsFips197' /\ DecryptInverts'
  <2>1. CASE dec
    <3>1. s' = DecryptLast(t, 4 * rounds) /\ trace' = trace /\ dec'
      BY <1>1, <1>3, <2>1 DEF Last
    <3>2. s' \in State
      BY <1>3, <1>4, <3>1, DecryptTypes
    <3>3. trace # <<>> => Len(trace) = rounds + 1
      BY <1>2, <2>1 DEF TraceIsCurrent
    <3>4. TraceIsCurrent'
      BY <1>1, <1>3, <3>1, <3>3 DEF TraceIsCurrent
    <3>5. EncryptsAsFips197'
      BY <1>1, <1>2, <3>1, <3>3, EncryptsIsEncryption
    <3>6. DecryptInverts'
      <4>1. SUFFICES ASSUME trace # <<>>, input = trace[Len(trace)]
                     PROVE  s' = plain
        BY <1>1, <3>1 DEF DecryptInverts
      <4>2. t = ShiftedSub(trace[rounds - RoundsDone])
        BY <1>1, <1>2, <1>4, <2>1, <4>1 DEF DecryptionRetraces
      <4>3. rounds - RoundsDone = 1
        BY <1>3
      <4>4. trace[1] = AddRoundKey(plain, 0)
        BY <1>2, <4>1 DEF EncryptsAsFips197
      <4>5. plain \in State
        BY <1>2 DEF TypeOK
      <4>6. DecryptLast(ShiftedSub(AddRoundKey(plain, 0)), 4 * rounds) = plain
        BY <1>3, <4>5, RetracesLast
      <4> QED
        BY <3>1, <4>2, <4>3, <4>4, <4>6
    <3> QED
      BY <1>3, <3>1, <3>2, <3>4, <3>5, <3>6
  <2>2. CASE ~dec
    <3>1. s' = EncryptLast(t, 4 * rounds) /\ trace' = Append(trace, s') /\ dec' = dec
      BY <1>1, <1>3, <2>2 DEF Last
    <3>2. s' \in State /\ s' = AddRoundKey(ShiftedSub(t), rounds)
      BY <1>3, <1>4, <3>1, EncryptsARound
    <3>3. Len(trace) = rounds /\ trace[rounds] = t
      <4>1. Len(trace) = RoundsDone + 1 /\ trace[Len(trace)] = t
        BY <1>1, <1>2, <1>4, <2>2 DEF TraceIsCurrent
      <4> QED
        BY <1>3, <4>1
    <3>4. trace # <<>>
      BY <1>3, <3>3
    <3>5. IsEncryption(trace, plain)
      BY <1>2, <3>4, EncryptsIsEncryption
    <3>6. s' = AddRoundKey(IF rounds = rounds THEN ShiftedSub(trace[rounds])
                           ELSE MixColumns(ShiftedSub(trace[rounds])), rounds)
      BY <3>2, <3>3
    <3>7. PICK y : y = s'
      OBVIOUS
    <3>8. IsEncryption(Append(trace, y), plain)
      BY <1>3, <3>2, <3>3, <3>4, <3>5, <3>6, <3>7, EncryptionGrows
    <3>9. trace' \in Seq(State) /\ Len(trace') = rounds + 1 /\ trace' # <<>>
      BY <1>3, <3>1, <3>2, <3>3
    <3>10. EncryptsAsFips197'
      BY <1>1, <3>1, <3>7, <3>8, <3>9, EncryptsIsEncryption
    <3>11. TraceIsCurrent'
      BY <1>1, <1>3, <3>9 DEF TraceIsCurrent
    <3>12. DecryptInverts'
      BY <2>2, <3>1 DEF DecryptInverts
    <3> QED
      BY <3>2, <3>9, <3>10, <3>11, <3>12
  <2> QED
    BY <2>1, <2>2
<1>9. TypeOK'
  BY <1>1, <1>2, <1>5, <1>8 DEF TypeOK
<1> QED
  BY <1>5, <1>6, <1>7, <1>8, <1>9 DEF AInv

LEMMA CallBlockKeepsInv ==
  ASSUME AInv, NEW b \in State, NEW decrypting \in BOOLEAN,
         CallBlock(b, decrypting), UNCHANGED setupVars
  PROVE  AInv'
<1>1. /\ pc = "ready" /\ bpc = "idle" /\ blocks < MaxBlocks
      /\ dec' = decrypting
      /\ s' = [c \in Columns |-> b[c] (+) (IF decrypting THEN dK[c] ELSE eK[c])]
      /\ at' = 0 /\ r' = rounds \div 2 /\ bpc' = "odd" /\ input' = b
      /\ plain' = (IF decrypting THEN plain ELSE b)
      /\ trace' = (IF decrypting THEN trace ELSE <<s'>>)
      /\ blocks' = blocks + 1 /\ t' = t /\ output' = output
  BY DEF CallBlock
<1>2. SetupInv /\ TypeOK /\ TraceIsCurrent /\ EncryptsAsFips197
  BY DEF AInv
<1>3. /\ rounds \in {10, 12, 14} /\ rounds' = rounds /\ pc' = pc
      /\ 0 \in 0 .. rounds /\ rounds \in 0 .. rounds
  BY <1>1, <1>2, ReadyFacts DEF setupVars
<1>4. ASSUME NEW c \in Columns
      PROVE  eK[c] \in Word /\ dK[c] \in Word
  <2>1. eK[4 * 0 + c] \in Word /\ dK[4 * 0 + c] \in Word /\ 4 * 0 + c = c
    BY <1>1, <1>2, <1>3, ReadyFacts DEF Columns
  <2> QED
    BY <2>1
<1>5. s' \in State
  BY <1>1, <1>4, WordLaws DEF State
<1>6. trace' \in Seq(State)
  BY <1>1, <1>2, <1>5 DEF TypeOK
<1>7. SetupInv' /\ SetupTypeOK'
  BY <1>2, SetupStutters, SetupTyped DEF SetupInv
<1>8. TypeOK'
  <2>1. blocks' \in 0 .. MaxBlocks /\ r' \in 0 .. 7
    BY <1>1, <1>2, <1>3, BlocksAssumption DEF TypeOK
  <2> QED
    BY <1>1, <1>2, <1>5, <1>6, <1>7, <2>1 DEF TypeOK
<1>9. BlockPointers'
  BY <1>1, <1>3 DEF BlockPointers
<1>10. DecryptInverts'
  BY <1>1 DEF DecryptInverts
<1>11. Current' = s' /\ RoundsDone' = 0
  BY <1>1 DEF Current, RoundsDone
<1>12. TraceIsCurrent' /\ EncryptsAsFips197' /\ DecryptionRetraces'
  <2>1. CASE decrypting
    <3>1. trace' = trace /\ plain' = plain /\ dec'
      BY <1>1, <2>1
    <3>2. trace # <<>> => Len(trace) = rounds + 1
      BY <1>1, <1>2 DEF TraceIsCurrent
    <3>3. TraceIsCurrent'
      BY <1>3, <3>1, <3>2 DEF TraceIsCurrent
    <3>4. EncryptsAsFips197'
      BY <1>1, <1>2, <3>1, EncryptsIsEncryption
    <3>5. DecryptionRetraces'
      <4>1. SUFFICES ASSUME trace # <<>>, b = trace[Len(trace)]
                     PROVE  s' = ShiftedSub(trace[rounds - 0])
        BY <1>1, <1>3, <1>11, <3>1 DEF DecryptionRetraces
      <4>2. b = trace[rounds + 1] /\ rounds \in 1 .. Len(trace) - 1
            /\ rounds \in 1 .. Len(trace) /\ rounds - 0 = rounds
        BY <1>3, <3>2, <4>1
      <4> DEFINE z == ShiftedSub(trace[rounds])
      <4>3. b = AddRoundKey(z, rounds)
        BY <1>2, <4>1, <4>2 DEF EncryptsAsFips197
      <4>4. z \in State
        <5>1. trace[rounds] \in State
          BY <1>2, <4>2 DEF TypeOK
        <5> QED
          BY <5>1, ShiftedSubType
      <4> HIDE DEF z
      <4>5. [c \in Columns |-> AddRoundKey(z, rounds)[c] (+) dK[c]] = z
        BY <1>1, <1>2, <4>4, RetracesFirst
      <4>6. s' = [c \in Columns |-> b[c] (+) dK[c]]
        BY <1>1, <2>1
      <4>7. s' = z
        BY <4>3, <4>5, <4>6
      <4> QED
        BY <4>2, <4>7 DEF z
    <3> QED
      BY <3>3, <3>4, <3>5
  <2>2. CASE ~decrypting
    <3>1. trace' = <<s'>> /\ plain' = b /\ ~dec'
      BY <1>1, <2>2
    <3>2. s' = AddRoundKey(b, 0)
      <4>1. \A c \in Columns : 4 * 0 + c = c
        BY DEF Columns
      <4>2. s' = [c \in Columns |-> b[c] (+) eK[c]]
        BY <1>1, <2>2
      <4> QED
        BY <4>1, <4>2 DEF AddRoundKey
    <3>3. trace' # <<>> /\ Len(trace') = 1 /\ trace'[1] = s'
      BY <3>1
    <3>4. IsEncryption(trace', plain')
      BY <3>1, <3>2, <3>3 DEF IsEncryption
    <3>5. EncryptsAsFips197'
      BY <1>1, <3>4, EncryptsIsEncryption
    <3>6. TraceIsCurrent'
      BY <1>1, <1>11, <3>1, <3>3 DEF TraceIsCurrent
    <3>7. DecryptionRetraces'
      BY <3>1 DEF DecryptionRetraces
    <3> QED
      BY <3>5, <3>6, <3>7
  <2> QED
    BY <2>1, <2>2
<1> QED
  BY <1>7, <1>8, <1>9, <1>10, <1>12 DEF AInv

(* While no block is in the works and the history is empty, the invariant  *)
(* is that of the key setup.                                               *)
LEMMA NothingEncrypted ==
  ASSUME AInv, SetupInv', bpc = "idle", trace' = <<>>,
         UNCHANGED <<bpc, dec, s, t, at, r, input, output, plain, blocks>>
  PROVE  AInv'
<1>1. TypeOK /\ SetupTypeOK'
  BY DEF AInv, SetupInv
<1>2. trace' \in Seq(State)
  OBVIOUS
<1>3. TypeOK'
  BY <1>1, <1>2 DEF TypeOK
<1>4. BlockPointers' /\ TraceIsCurrent'
  BY DEF BlockPointers, TraceIsCurrent
<1>5. EncryptsAsFips197' /\ DecryptionRetraces' /\ DecryptInverts'
  BY DEF EncryptsAsFips197, DecryptionRetraces, DecryptInverts
<1> QED
  BY <1>3, <1>4, <1>5 DEF AInv

LEMMA AesInit == Init => AInv
<1> SUFFICES ASSUME Init PROVE AInv
  OBVIOUS
<1>1. SetupInv /\ SetupTypeOK
  BY SetupInitInv, SetupTyped DEF Init
<1>2. /\ bpc = "idle" /\ trace = <<>> /\ dec = FALSE /\ at = 0 /\ r = 0
      /\ blocks = 0 /\ {s, t, input, output, plain} \subseteq State
  BY BlocksAssumption DEF Init
<1>3. TypeOK
  <2>1. trace \in Seq(State)
    <3>1. <<>> \in Seq(State)
      OBVIOUS
    <3> QED
      BY <1>2, <3>1
  <2>2. blocks \in 0 .. MaxBlocks
    BY <1>2, BlocksAssumption
  <2>3. dec \in BOOLEAN
    BY <1>2
  <2>4. bpc \in {"idle", "odd", "even", "last"} /\ at \in 0 .. 56 /\ r \in 0 .. 7
    BY <1>2
  <2> QED
    BY <1>1, <1>2, <2>1, <2>2, <2>3, <2>4 DEF TypeOK
<1>4. BlockPointers /\ TraceIsCurrent
  BY <1>2 DEF BlockPointers, TraceIsCurrent
<1>5. EncryptsAsFips197 /\ DecryptionRetraces /\ DecryptInverts
  BY <1>2 DEF EncryptsAsFips197, DecryptionRetraces, DecryptInverts
<1> QED
  BY <1>1, <1>3, <1>4, <1>5 DEF AInv

LEMMA AesStutters ==
  ASSUME AInv, UNCHANGED vars
  PROVE  AInv'
<1>1. UNCHANGED setupVars /\ UNCHANGED blockVars
  BY DEF vars
<1>2. SetupInv' /\ SetupTypeOK'
  BY <1>1, SetupStutters, SetupTyped DEF AInv, SetupInv
<1>3. TypeOK' /\ BlockPointers' /\ TraceIsCurrent'
  <2>1. TypeOK'
    BY <1>1, <1>2 DEF AInv, TypeOK, blockVars
  <2>2. BlockPointers'
    BY <1>1 DEF AInv, BlockPointers, blockVars, setupVars
  <2>3. RoundsDone' = RoundsDone /\ Current' = Current
    BY <1>1 DEF RoundsDone, Current, blockVars
  <2>4. TraceIsCurrent'
    BY <1>1, <2>3 DEF AInv, TraceIsCurrent, blockVars, setupVars
  <2> QED
    BY <2>1, <2>2, <2>4
<1>4. EncryptsAsFips197'
  BY <1>1, EncryptsIsEncryption DEF AInv, blockVars, setupVars
<1>5. DecryptionRetraces' /\ DecryptInverts'
  BY <1>1 DEF AInv, DecryptionRetraces, DecryptInverts, RoundsDone, Current,
              blockVars, setupVars
<1> QED
  BY <1>2, <1>3, <1>4, <1>5 DEF AInv

LEMMA AesNext ==
  ASSUME AInv, [Next]_vars
  PROVE  AInv'
<1>1. CASE SetupCall
  <2>1. SetupInv'
    BY <1>1, SetupKeepsInv DEF SetupCall, AInv
  <2> QED
    BY <1>1, <2>1, NothingEncrypted DEF SetupCall
<1>2. CASE SetupStep /\ UNCHANGED blockVars
  <2>1. SetupInv' /\ pc # "ready"
    BY <1>2, SetupStepKeepsInv
       DEF AInv, SetupStep, Expand, Expand16, Expand24, Expand32, CopyFirst, InvertOne,
           CopyLast
  <2>2. trace = <<>> /\ bpc = "idle"
    BY <2>1 DEF AInv, BlockPointers
  <2> QED
    BY <1>2, <2>1, <2>2, NothingEncrypted DEF blockVars
<1>3. ASSUME NEW b \in Blocks \cup {output}, NEW decrypting \in BOOLEAN,
             CallBlock(b, decrypting), UNCHANGED setupVars
      PROVE  AInv'
  <2>1. b \in State
    BY BlocksAssumption DEF AInv, TypeOK
  <2> QED
    BY <1>3, <2>1, CallBlockKeepsInv
<1>4. CASE BlockStep /\ UNCHANGED setupVars
  BY <1>4, OddRoundKeepsInv, EvenRoundKeepsInv, LastRoundKeepsInv DEF BlockStep
<1>5. CASE UNCHANGED vars
  BY <1>5, AesStutters
<1> QED
  BY <1>1, <1>2, <1>3, <1>4, <1>5 DEF Next

-----------------------------------------------------------------------------
(* The inductive invariant: where the pointers are, what has been          *)
(* expanded, inverted, encrypted and decrypted so far.                     *)
THEOREM AesInvariance == Spec => []AInv
<1>1. Init => AInv
  BY AesInit
<1>2. AInv /\ [Next]_vars => AInv'
  BY AesNext
<1> QED
  BY <1>1, <1>2, PTL DEF Spec

(* Every variable has its type: no pointer of aes.c leaves eK or dK.       *)
THEOREM AesTypeCorrect == Spec => []TypeOK
<1>1. AInv => TypeOK
  BY DEF AInv
<1> QED
  BY <1>1, AesInvariance, PTL

(* aes_key_setup writes KeyExpansion of FIPS 197, for all three lengths,   *)
(* whatever the structure held before.                                     *)
THEOREM KeysAreExpanded == Spec => []KeyIsExpanded
<1>1. AInv => KeyIsExpanded
  BY DEF AInv, SetupInv
<1> QED
  BY <1>1, AesInvariance, PTL

(* Its second loop makes the round keys of the equivalent inverse cipher.  *)
THEOREM InverseKeysMatch == Spec => []InverseKeyMatches
<1>1. AInv => InverseKeyMatches
  BY DEF AInv, SetupInv
<1> QED
  BY <1>1, AesInvariance, PTL

(* aes_block_encrypt makes the rounds of FIPS 197, with tables that hold   *)
(* SubBytes and MixColumns together and with its loop left in the middle.  *)
THEOREM EncryptsFips197 == Spec => []EncryptsAsFips197
<1>1. AInv => EncryptsAsFips197
  BY DEF AInv
<1> QED
  BY <1>1, AesInvariance, PTL

(* aes_block_decrypt gives back the block that aes_block_encrypt took, for *)
(* every S-box with an inverse and every linear MixColumns with one.       *)
THEOREM DecryptionInverts == Spec => []DecryptInverts
<1>1. AInv => DecryptInverts
  BY DEF AInv
<1> QED
  BY <1>1, AesInvariance, PTL
=============================================================================
