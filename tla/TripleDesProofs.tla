--------------------------- MODULE TripleDesProofs ---------------------------
(***************************************************************************)
(* Proofs about TripleDes, for every set of S-boxes, every key and every   *)
(* block.  Decryption is shown to go back through the states of the        *)
(* encryption, which the history keeps: the tables at both ends undo each  *)
(* other but for the exchange of the words, an iteration with the round    *)
(* keys in reverse undoes one, and the schedules are each other's reverse. *)
(* Encryption is shown to be that of the standard: a word is a half turned *)
(* by one bit, two words of a schedule are a round key in another order,   *)
(* and an iteration is two rounds.                                         *)
(***************************************************************************)
EXTENDS TripleDes, Arithmetic, TLAPS

-----------------------------------------------------------------------------
(* The two tables of 64 bits.                                              *)

(* A bit by its byte, and by its word.                                     *)
LEMMA ByByte ==
  ASSUME NEW b \in Bits64
  PROVE  \E c \in 0 .. 7, m \in 0 .. 3, e \in 0 .. 1 : b = 8 * c + 2 * m + e
BY SMTT(30) DEF Bits64

LEMMA ByWord ==
  ASSUME NEW b \in Bits64
  PROVE  \E h \in 0 .. 1, q \in 0 .. 3, p \in 0 .. 7 : b = 32 * h + 8 * q + p
BY SMTT(30) DEF Bits64

(* Where the initial permutation puts a bit.                               *)
LEMMA InitialAt ==
  ASSUME NEW c \in 0 .. 7, NEW m \in 0 .. 3, NEW e \in 0 .. 1
  PROVE  Numbered(Initial(Numbered(8 * c + 2 * m + e)))
           = (32 * (1 - e) + 8 * m + 7) - c
<1> DEFINE n == Numbered(8 * c + 2 * m + e)
<1>1. n \in 1 .. 64 /\ n - 1 = 8 * (7 - c) + ((7 - 2 * m) - e)
  BY DEF Numbered
<1>2. (n - 1) \div 8 = 7 - c /\ (n - 1) % 8 = (7 - 2 * m) - e
  BY <1>1
<1>3. ((7 - 2 * m) - e) \div 2 = 3 - m /\ ((7 - 2 * m) - e) % 2 = 1 - e
  OBVIOUS
<1>4. Initial(n) = ((IF 1 - e = 0 THEN 40 ELSE 8) + 8 * (3 - m)) - (7 - c)
  BY <1>2, <1>3 DEF Initial
<1> QED BY <1>4 DEF Numbered

(* Where the final one puts it.                                            *)
LEMMA FinalAt ==
  ASSUME NEW h \in 0 .. 1, NEW q \in 0 .. 3, NEW p \in 0 .. 7
  PROVE  Numbered(Final(Numbered(32 * h + 8 * q + p)))
           = 8 * (7 - p) + 2 * q + (1 - h)
<1> DEFINE n == Numbered(32 * h + 8 * q + p)
           i == 7 - (4 * h + q)
<1>1. n \in 1 .. 64 /\ n - 1 = 8 * i + (7 - p)
  BY DEF Numbered
<1>2. (n - 1) \div 8 = i /\ (n - 1) % 8 = 7 - p
  BY <1>1
<1>3. Final(n) = (IF i < 4 THEN 58 + 2 * i ELSE 49 + 2 * i) - 8 * (7 - p)
  BY <1>2 DEF Final
<1>4. CASE h = 0
  BY <1>3, <1>4 DEF Numbered
<1>5. CASE h = 1
  BY <1>3, <1>5 DEF Numbered
<1> QED BY <1>4, <1>5

(* The two permutations undo each other.                                   *)
LEMMA FinalAfterInitial ==
  ASSUME NEW b \in Bits64
  PROVE  /\ Numbered(Initial(Numbered(b))) \in Bits64
         /\ Numbered(Final(Numbered(Numbered(Initial(Numbered(b)))))) = b
<1>1. PICK c \in 0 .. 7, m \in 0 .. 3, e \in 0 .. 1 : b = 8 * c + 2 * m + e
  BY ByByte
<1>2. Numbered(Initial(Numbered(b))) = (32 * (1 - e) + 8 * m + 7) - c
  BY <1>1, InitialAt
<1>3. (32 * (1 - e) + 8 * m + 7) - c = 32 * (1 - e) + 8 * m + (7 - c)
  OBVIOUS
<1>4. 1 - e \in 0 .. 1 /\ 7 - c \in 0 .. 7
  OBVIOUS
<1>5. Numbered(Final(Numbered(32 * (1 - e) + 8 * m + (7 - c))))
        = 8 * (7 - (7 - c)) + 2 * m + (1 - (1 - e))
  BY <1>4, FinalAt
<1> QED BY <1>1, <1>2, <1>3, <1>5 DEF Bits64

LEMMA InitialAfterFinal ==
  ASSUME NEW b \in Bits64
  PROVE  /\ Numbered(Final(Numbered(b))) \in Bits64
         /\ Numbered(Initial(Numbered(Numbered(Final(Numbered(b)))))) = b
<1>1. PICK h \in 0 .. 1, q \in 0 .. 3, p \in 0 .. 7 : b = 32 * h + 8 * q + p
  BY ByWord
<1>2. Numbered(Final(Numbered(b))) = 8 * (7 - p) + 2 * q + (1 - h)
  BY <1>1, FinalAt
<1>3. 7 - p \in 0 .. 7 /\ 1 - h \in 0 .. 1
  OBVIOUS
<1>4. Numbered(Initial(Numbered(8 * (7 - p) + 2 * q + (1 - h))))
        = (32 * (1 - (1 - h)) + 8 * q + 7) - (7 - p)
  BY <1>3, InitialAt
<1> QED BY <1>1, <1>2, <1>4 DEF Bits64

(* The rotations of the words and their exchange.                          *)
LEMMA TurnsBack ==
  ASSUME NEW b \in Bits64
  PROVE  /\ Leftward(b) \in Bits64 /\ Rightward(b) \in Bits64
         /\ Swapped(b) \in Bits64
         /\ Rightward(Leftward(b)) = b /\ Leftward(Rightward(b)) = b
         /\ Swapped(Swapped(b)) = b
         /\ Leftward(Swapped(b)) = Swapped(Leftward(b))
         /\ Rightward(Swapped(b)) = Swapped(Rightward(b))
<1> USE DEF Leftward, Rightward, Bits64, Swapped
<1>1. CASE b \in 0 .. 31
  <2>1. b \div 32 = 0
    BY <1>1
  <2>2. (b + 1) % 32 = IF b = 31 THEN 0 ELSE b + 1
    BY <1>1
  <2>3. (b + 31) % 32 = IF b = 0 THEN 31 ELSE b - 1
    BY <1>1
  <2>4. (b + 32) % 64 = b + 32
    BY <1>1
  <2> QED BY <1>1, <2>1, <2>2, <2>3, <2>4
<1>2. CASE b \in 32 .. 63
  <2>1. b \div 32 = 1
    BY <1>2
  <2>2. (b + 1) % 32 = IF b = 63 THEN 0 ELSE (b + 1) - 32
    BY <1>2
  <2>3. (b + 31) % 32 = IF b = 32 THEN 31 ELSE (b - 1) - 32
    BY <1>2
  <2>4. (b + 32) % 64 = b - 32
    BY <1>2
  <2> QED BY <1>2, <2>1, <2>2, <2>3, <2>4
<1> QED BY <1>1, <1>2

(* The tables undo each other, but for the exchange of the two words.      *)
LEMMA TablesInvert ==
  ASSUME NEW b \in Bits64
  PROVE  /\ des_ip[b] \in Bits64 /\ des_fp[b] \in Bits64
         /\ des_ip[Swapped(des_fp[b])] = Swapped(b)
         /\ Swapped(des_fp[Swapped(des_ip[b])]) = b
<1> DEFINE I(x) == Numbered(Initial(Numbered(x)))
           F(x) == Numbered(Final(Numbered(x)))
<1>1. \A x \in Bits64 : I(x) \in Bits64 /\ F(I(x)) = x
  BY FinalAfterInitial
<1>2. \A x \in Bits64 : F(x) \in Bits64 /\ I(F(x)) = x
  BY InitialAfterFinal
<1>3. \A x \in Bits64 : des_ip[x] = Leftward(I(x))
  BY DEF des_ip
<1>4. \A x \in Bits64 : des_fp[x] = Swapped(F(Swapped(Rightward(x))))
  BY DEF des_fp
<1> HIDE DEF I, F
<1>5. des_ip[b] \in Bits64 /\ des_fp[b] \in Bits64
  BY <1>1, <1>2, <1>3, <1>4, TurnsBack
<1>6. des_ip[Swapped(des_fp[b])] = Swapped(b)
  <2>1. Swapped(Rightward(b)) \in Bits64
    BY TurnsBack
  <2>2. Swapped(des_fp[b]) = F(Swapped(Rightward(b)))
    BY <1>2, <1>4, <2>1, TurnsBack
  <2>3. des_ip[Swapped(des_fp[b])] = Leftward(Swapped(Rightward(b)))
    BY <1>2, <1>3, <2>1, <2>2
  <2> QED BY <2>3, TurnsBack
<1>7. Swapped(des_fp[Swapped(des_ip[b])]) = b
  <2>1. I(b) \in Bits64 /\ des_ip[b] = Leftward(I(b))
    BY <1>1, <1>3
  <2>2. Swapped(Leftward(I(b))) \in Bits64
    BY <2>1, TurnsBack
  <2>3. Swapped(Rightward(Swapped(Leftward(I(b))))) = I(b)
    BY <2>1, TurnsBack
  <2>4. des_fp[Swapped(des_ip[b])] = Swapped(F(I(b)))
    BY <1>4, <2>1, <2>2, <2>3
  <2> QED BY <1>1, <2>4, TurnsBack
<1> QED BY <1>5, <1>6, <1>7

-----------------------------------------------------------------------------
(* Blocks and words.                                                       *)

(* The words of a block and the block of two words.                        *)
LEMMA Words ==
  /\ \A x \in SUBSET Bits64 :
       High(x) \in DesWord /\ Low(x) \in DesWord /\ Joined(High(x), Low(x)) = x
  /\ \A l, r \in DesWord :
       /\ Joined(l, r) \in SUBSET Bits64
       /\ High(Joined(l, r)) = l /\ Low(Joined(l, r)) = r
<1>1. ASSUME NEW x \in SUBSET Bits64
      PROVE  /\ High(x) \in DesWord /\ Low(x) \in DesWord
             /\ Joined(High(x), Low(x)) = x
  <2>1. \A b \in x \cap 32 .. 63 : b - 32 \in Bits32 /\ (b - 32) + 32 = b
    BY DEF Bits32
  <2>2. High(x) \in DesWord /\ Low(x) \in DesWord
    BY <2>1 DEF High, Low, DesWord, Bits32
  <2>3. {c + 32 : c \in High(x)} = {(b - 32) + 32 : b \in x \cap 32 .. 63}
    BY DEF High
  <2>4. {(b - 32) + 32 : b \in x \cap 32 .. 63} = x \cap 32 .. 63
    BY <2>1
  <2>5. x = (x \cap 32 .. 63) \cup (x \cap 0 .. 31)
    <3>1. \A b \in x : b \in 32 .. 63 \/ b \in 0 .. 31
      BY DEF Bits64
    <3> QED BY <3>1
  <2>6. Joined(High(x), Low(x)) = (x \cap 32 .. 63) \cup (x \cap 0 .. 31)
    BY <2>3, <2>4 DEF Joined, Low
  <2> QED BY <2>2, <2>5, <2>6
<1>2. ASSUME NEW l \in DesWord, NEW r \in DesWord
      PROVE  /\ Joined(l, r) \in SUBSET Bits64
             /\ High(Joined(l, r)) = l /\ Low(Joined(l, r)) = r
  <2>1. /\ \A b \in l : b + 32 \in 32 .. 63 /\ (b + 32) - 32 = b
        /\ \A b \in r : b \in 0 .. 31
    BY DEF DesWord, Bits32
  <2>2. Joined(l, r) \in SUBSET Bits64
    BY <2>1 DEF Joined, Bits64
  <2>3. Joined(l, r) \cap 32 .. 63 = {b + 32 : b \in l}
    BY <2>1 DEF Joined
  <2>4. {c - 32 : c \in {b + 32 : b \in l}} = {(b + 32) - 32 : b \in l}
    OBVIOUS
  <2>5. {(b + 32) - 32 : b \in l} = l
    BY <2>1
  <2>6. Low(Joined(l, r)) = r
    BY <2>1 DEF Joined, Low
  <2> QED BY <2>2, <2>3, <2>4, <2>5, <2>6 DEF High
<1> QED BY <1>1, <1>2

(* Exchanging the words moves every bit to the other word.                 *)
LEMMA Exchange ==
  ASSUME NEW x \in SUBSET Bits64
  PROVE  Joined(Low(x), High(x)) = {Swapped(b) : b \in x}
<1>1. \A b \in x : Swapped(b) = IF b \in 0 .. 31 THEN b + 32 ELSE b - 32
  <2> TAKE b \in x
  <2>1. b \in Bits64
    OBVIOUS
  <2>2. CASE b \in 0 .. 31
    BY <2>2 DEF Swapped
  <2>3. CASE b \in 32 .. 63
    BY <2>3 DEF Swapped
  <2> QED BY <2>1, <2>2, <2>3 DEF Bits64
<1>2. {Swapped(b) : b \in x} =
        {IF b \in 0 .. 31 THEN b + 32 ELSE b - 32 : b \in x}
  BY <1>1
<1>3. Joined(Low(x), High(x)) =
        {IF b \in 0 .. 31 THEN b + 32 ELSE b - 32 : b \in x}
  BY DEF Joined, Low, High, Bits64
<1> QED BY <1>2, <1>3

(* What desfunc loads are words, and what it stores is a block.            *)
LEMMA EnterType ==
  ASSUME NEW x \in SUBSET Bits64
  PROVE  /\ Permuted(des_ip, x) \in SUBSET Bits64
         /\ Enter(x) = <<High(Permuted(des_ip, x)), Low(Permuted(des_ip, x))>>
         /\ Enter(x)[1] \in DesWord /\ Enter(x)[2] \in DesWord
         /\ Joined(Enter(x)[1], Enter(x)[2]) = Permuted(des_ip, x)
<1>1. Permuted(des_ip, x) \in SUBSET Bits64
  BY TablesInvert DEF Permuted
<1> QED BY <1>1, Words DEF Enter

LEMMA LeaveType ==
  ASSUME NEW l \in DesWord, NEW r \in DesWord
  PROVE  /\ Permuted(des_fp, Joined(l, r)) \in SUBSET Bits64
         /\ Leave(l, r) \in SUBSET Bits64
         /\ Leave(l, r) = {Swapped(b) : b \in Permuted(des_fp, Joined(l, r))}
<1> DEFINE y == Permuted(des_fp, Joined(l, r))
<1>1. y \in SUBSET Bits64
  BY Words, TablesInvert DEF Permuted
<1>2. Leave(l, r) = {Swapped(b) : b \in y}
  BY <1>1, Exchange DEF Leave
<1>3. Leave(l, r) \in SUBSET Bits64
  BY <1>1, <1>2, TurnsBack
<1> QED BY <1>1, <1>2, <1>3

(* A call of desfunc that takes the block of the one before finds its last *)
(* words, exchanged.                                                       *)
LEMMA EnterAfterLeave ==
  ASSUME NEW l \in DesWord, NEW r \in DesWord
  PROVE  Enter(Leave(l, r)) = <<r, l>>
<1> DEFINE x == Joined(l, r)
           z == Permuted(des_ip, Leave(l, r))
<1>1. x \in SUBSET Bits64
  BY Words
<1>2. Leave(l, r) = {Swapped(des_fp[b]) : b \in x}
  BY LeaveType DEF Permuted
<1>3. z = {des_ip[Swapped(des_fp[b])] : b \in x}
  BY <1>2 DEF Permuted
<1>4. z = {Swapped(b) : b \in x}
  BY <1>1, <1>3, TablesInvert
<1>5. z = Joined(r, l)
  BY <1>1, <1>4, Exchange, Words
<1>6. Enter(Leave(l, r)) = <<High(z), Low(z)>>
  BY LeaveType, EnterType
<1> QED BY <1>5, <1>6, Words

(* Leaving with the words exchanged gives the block back.                  *)
LEMMA LeaveAfterEnter ==
  ASSUME NEW x \in SUBSET Bits64
  PROVE  Leave(Enter(x)[2], Enter(x)[1]) = x
<1> DEFINE y == Permuted(des_ip, x)
           l == Enter(x)[2]
           r == Enter(x)[1]
<1>1. l \in DesWord /\ r \in DesWord /\ y \in SUBSET Bits64
  BY EnterType
<1>2. Joined(l, r) = {Swapped(b) : b \in y}
  BY <1>1, EnterType, Exchange
<1>3. Joined(l, r) = {Swapped(des_ip[b]) : b \in x}
  BY <1>2 DEF Permuted
<1>4. Leave(l, r) = {Swapped(des_fp[Swapped(des_ip[b])]) : b \in x}
  BY <1>1, <1>3, LeaveType DEF Permuted
<1>5. \A b \in x : Swapped(des_fp[Swapped(des_ip[b])]) = b
  BY TablesInvert
<1> QED BY <1>4, <1>5

-----------------------------------------------------------------------------
(* The rounds.                                                             *)

LEMMA XorWords ==
  ASSUME NEW a \in DesWord, NEW b \in DesWord
  PROVE  Xor(a, b) \in DesWord /\ Xor(Xor(a, b), b) = a
BY DEF Xor, DesWord

(* What the tables give is a word.                                         *)
LEMMA RoundWordType ==
  ASSUME NEW x, NEW keys, NEW at
  PROVE  RoundWord(x, keys, at) \in DesWord
<1>1. \A o \in 1 .. 32 : (33 - o) % 32 \in Bits32
  <2> TAKE o \in 1 .. 32
  <2>1. CASE o = 1
    BY <2>1 DEF Bits32
  <2>2. CASE o \in 2 .. 32
    BY <2>2 DEF Bits32
  <2> QED BY <2>1, <2>2
<1>2. ASSUME NEW k, NEW six
      PROVE  SP(k, six) \in DesWord
  BY <1>1 DEF SP, DesWord
<1> QED BY <1>2 DEF RoundWord, DesWord

(* It depends on two words of the schedule only.                           *)
LEMMA RoundWordOfKeys ==
  ASSUME NEW x, NEW k1, NEW k2, NEW a, NEW b,
         k1[a] = k2[b], k1[a + 1] = k2[b + 1]
  PROVE  RoundWord(x, k1, a) = RoundWord(x, k2, b)
BY DEF RoundWord

LEMMA IterationType ==
  ASSUME NEW keys, NEW n, NEW l \in DesWord, NEW r \in DesWord
  PROVE  Iteration(keys, n, l, r) \in DesWord \X DesWord
<1>1. Xor(l, RoundWord(r, keys, 4 * n)) \in DesWord
  BY RoundWordType, XorWords
<1>2. Xor(r, RoundWord(Xor(l, RoundWord(r, keys, 4 * n)), keys, 4 * n + 2))
        \in DesWord
  BY RoundWordType, XorWords
<1> QED BY <1>1, <1>2 DEF Iteration

(* An iteration with the words of another one in reverse, on its result    *)
(* exchanged, gives what that one began with, exchanged.                   *)
LEMMA IterationUndone ==
  ASSUME NEW keys, NEW rev, NEW n \in 0 .. 7,
         NEW l \in DesWord, NEW r \in DesWord,
         rev[4 * (7 - n)] = keys[4 * n + 2],
         rev[4 * (7 - n) + 1] = keys[4 * n + 3],
         rev[4 * (7 - n) + 2] = keys[4 * n],
         rev[4 * (7 - n) + 3] = keys[4 * n + 1]
  PROVE  LET next == Iteration(keys, n, l, r)
         IN  Iteration(rev, 7 - n, next[2], next[1]) = <<r, l>>
<1> DEFINE w1 == RoundWord(r, keys, 4 * n)
           l1 == Xor(l, w1)
           w2 == RoundWord(l1, keys, 4 * n + 2)
           r1 == Xor(r, w2)
<1>1. Iteration(keys, n, l, r) = <<l1, r1>>
  BY DEF Iteration
<1>2. w1 \in DesWord /\ w2 \in DesWord
  BY RoundWordType
<1>3. RoundWord(l1, rev, 4 * (7 - n)) = w2
  <2>1. (4 * n + 2) + 1 = 4 * n + 3
    OBVIOUS
  <2> HIDE DEF l1
  <2> QED BY <2>1, RoundWordOfKeys
<1>4. Xor(r1, w2) = r
  BY <1>2, XorWords
<1>5. RoundWord(r, rev, 4 * (7 - n) + 2) = w1
  <2>1. (4 * (7 - n) + 2) + 1 = 4 * (7 - n) + 3
    OBVIOUS
  <2> QED BY <2>1, RoundWordOfKeys
<1>6. Xor(l1, w1) = l
  BY <1>2, XorWords
<1>7. Iteration(rev, 7 - n, r1, l1) = <<r, l>>
  BY <1>3, <1>4, <1>5, <1>6 DEF Iteration
<1> QED BY <1>1, <1>7

-----------------------------------------------------------------------------
(* The schedules.                                                          *)

(* A round key is stored as two words.                                     *)
LEMMA ScheduleType ==
  ASSUME NEW k, NEW offset, NEW edf
  PROVE  deskey(k, offset, edf) \in DesSchedule
<1>1. ASSUME NEW w, NEW from \in {0, 6, 12, 18}, NEW to \in {0, 8, 16, 24}
      PROVE  Field(w, from, to) \in DesWord
  <2>1. \A b \in w \cap from .. from + 5 : (b + to) - from \in Bits32
    BY DEF Bits32
  <2> QED BY <2>1 DEF Field, DesWord
<1>2. \A kn : cookey(kn) \in DesSchedule
  BY <1>1 DEF cookey, DesSchedule, DesWord
<1> QED BY <1>2 DEF deskey

(* The schedule for one direction is that for the other in reverse.        *)
LEMMA ScheduleReversed ==
  ASSUME NEW k, NEW offset, NEW m \in 0 .. 15, NEW x \in 0 .. 1
  PROVE  deskey(k, offset, DE1)[2 * m + x]
           = deskey(k, offset, EN0)[2 * (15 - m) + x]
<1> DEFINE d == Kn(Pc1m(k, offset), DE1)
           e == Kn(Pc1m(k, offset), EN0)
<1>1. ASSUME NEW y \in 0 .. 1
      PROVE  /\ 2 * m + y \in 0 .. 31 /\ 2 * (15 - m) + y \in 0 .. 31
             /\ (2 * m + y) \div 2 = m /\ (2 * m + y) % 2 = y
             /\ (2 * (15 - m) + y) \div 2 = 15 - m
             /\ (2 * (15 - m) + y) % 2 = y
  OBVIOUS
<1>2. \A y \in 0 .. 1 : d[2 * m + y] = e[2 * (15 - m) + y]
  BY <1>1 DEF Kn, DE1, EN0
<1>3. d[2 * m] = e[2 * (15 - m)] /\ d[2 * m + 1] = e[2 * (15 - m) + 1]
  <2>1. 2 * m + 0 = 2 * m /\ 2 * (15 - m) + 0 = 2 * (15 - m) /\ 0 \in 0 .. 1
    OBVIOUS
  <2> QED BY <1>2, <2>1
<1> HIDE DEF d, e
<1>4. cookey(d)[2 * m + x] = cookey(e)[2 * (15 - m) + x]
  BY <1>1, <1>3 DEF cookey
<1> QED BY <1>4 DEF deskey, d, e

(* What dk[n] holds is ek[2 - n] in reverse, two words at a time.          *)
LEMMA KeysReversed ==
  ASSUME NEW n \in 0 .. 2, NEW m \in 0 .. 15, NEW x \in 0 .. 1
  PROVE  DecryptionKey(n)[2 * m + x] = EncryptionKey(2 - n)[2 * (15 - m) + x]
<1>1. CASE n = 0
  BY <1>1, ScheduleReversed DEF DecryptionKey, EncryptionKey
<1>2. CASE n = 2
  BY <1>2, ScheduleReversed DEF DecryptionKey, EncryptionKey
<1>3. CASE n = 1
  <2>1. 15 - m \in 0 .. 15 /\ 15 - (15 - m) = m
    OBVIOUS
  <2>2. deskey(key, 8, DE1)[2 * (15 - m) + x] = deskey(key, 8, EN0)[2 * m + x]
    BY <2>1, ScheduleReversed
  <2> QED BY <1>3, <2>2 DEF DecryptionKey, EncryptionKey
<1> QED BY <1>1, <1>2, <1>3

(* The four words of an iteration, for IterationUndone.                    *)
LEMMA WordsOfIteration ==
  ASSUME NEW n \in 0 .. 2, NEW c \in 0 .. 7
  PROVE  LET rev == DecryptionKey(2 - n)
             keys == EncryptionKey(n)
         IN  /\ rev[4 * (7 - c)] = keys[4 * c + 2]
             /\ rev[4 * (7 - c) + 1] = keys[4 * c + 3]
             /\ rev[4 * (7 - c) + 2] = keys[4 * c]
             /\ rev[4 * (7 - c) + 3] = keys[4 * c + 1]
<1>1. 2 - n \in 0 .. 2 /\ 2 - (2 - n) = n
  OBVIOUS
<1>2. \A m \in 0 .. 15, x \in 0 .. 1 :
        DecryptionKey(2 - n)[2 * m + x] = EncryptionKey(n)[2 * (15 - m) + x]
  BY <1>1, KeysReversed
<1>3. /\ 2 * (7 - c) \in 0 .. 15 /\ 2 * (7 - c) + 1 \in 0 .. 15
      /\ 2 * (2 * (7 - c)) = 4 * (7 - c)
      /\ 2 * (2 * (7 - c) + 1) = 4 * (7 - c) + 2
      /\ 2 * (15 - 2 * (7 - c)) = 4 * c + 2
      /\ 2 * (15 - (2 * (7 - c) + 1)) = 4 * c
  OBVIOUS
<1>4. \A x \in 0 .. 1 :
        /\ DecryptionKey(2 - n)[4 * (7 - c) + x]
             = EncryptionKey(n)[(4 * c + 2) + x]
        /\ DecryptionKey(2 - n)[(4 * (7 - c) + 2) + x]
             = EncryptionKey(n)[4 * c + x]
  BY <1>2, <1>3
<1>5. /\ 4 * (7 - c) + 0 = 4 * (7 - c) /\ (4 * c + 2) + 0 = 4 * c + 2
      /\ (4 * c + 2) + 1 = 4 * c + 3
      /\ (4 * (7 - c) + 2) + 0 = 4 * (7 - c) + 2
      /\ (4 * (7 - c) + 2) + 1 = 4 * (7 - c) + 3
      /\ 4 * c + 0 = 4 * c /\ 0 \in 0 .. 1 /\ 1 \in 0 .. 1
  OBVIOUS
<1> QED BY <1>4, <1>5

-----------------------------------------------------------------------------
(* The inductive invariant.                                                *)

LEMMA KeyTypes ==
  \A n \in 0 .. 2 : /\ EncryptionKey(n) \in DesSchedule
                    /\ DecryptionKey(n) \in DesSchedule
BY ScheduleType DEF EncryptionKey, DecryptionKey

LEMMA KeysKept ==
  ASSUME key' = key
  PROVE  \A n \in 0 .. 2 : /\ EncryptionKey(n)' = EncryptionKey(n)
                           /\ DecryptionKey(n)' = DecryptionKey(n)
BY DEF EncryptionKey, DecryptionKey, ThirdKey

LEMMA DesBegins == DesInit => DesInv
<1> SUFFICES ASSUME DesInit PROVE DesInv
  OBVIOUS
<1> USE DEF DesInit
<1>1. DesTypeOK
  <2>1. PICK g \in DesGarbage : ek = [n \in 0 .. 2 |-> [m \in 0 .. 31 |-> g]]
    OBVIOUS
  <2>2. ek \in [0 .. 2 -> DesSchedule]
    BY <2>1, DesGarbageAssumption DEF DesSchedule
  <2>3. desTrace \in Seq(DesWord \X DesWord) /\ Len(desTrace) <= 27
    OBVIOUS
  <2>4. {desInput, desOutput, desPlain} \subseteq SUBSET Bits64
    OBVIOUS
  <2>5. leftt \in DesWord /\ right \in DesWord
    BY DEF DesWord
  <2>6. key.len = 0 /\ key.bits = {} /\ desSetups = 0 /\ desBlocks = 0
    OBVIOUS
  <2>7. /\ desPc \in {"new", "setup", "ready", "loop"}
        /\ deskeys \in 0 .. 6 /\ desRet \in {CRYPTO_OK, CRYPTO_INVALID_KEYSIZE}
        /\ stage \in 0 .. 2 /\ cur_round \in 0 .. 8
    OBVIOUS
  <2>9. decrypts = FALSE
    OBVIOUS
  <2>8. dk \in [0 .. 2 -> DesSchedule]
    <3>1. dk = ek
      OBVIOUS
    <3> QED BY <2>2, <3>1
  <2> HIDE DEF DesInit
  <2>10. decrypts \in BOOLEAN
    BY <2>9
  <2>11. /\ key.len \in Nat /\ key.bits \subseteq 0 .. 8 * key.len - 1
         /\ desSetups \in 0 .. MaxDesSetups /\ desBlocks \in 0 .. MaxDesBlocks
    BY <2>6, DesBoundsAssumption
  <2> QED BY <2>2, <2>3, <2>4, <2>5, <2>7, <2>8, <2>10, <2>11 DEF DesTypeOK
<1>2. SchedulesAreMade
  BY DEF SchedulesAreMade
<1>3. HistorySteps /\ HistoryIsCurrent
  BY DEF HistorySteps, HistoryIsCurrent
<1>4. DecryptionRetraces3 /\ TripleDecryptInverts
  BY DEF DecryptionRetraces3, TripleDecryptInverts
<1> QED BY <1>1, <1>2, <1>3, <1>4 DEF DesInv

(* Types.  The history is not longer than the loops of an encryption.      *)
LEMMA DesTypeStep ==
  ASSUME DesTypeOK, SchedulesAreMade, HistoryIsCurrent, [DesNext]_desVars
  PROVE  DesTypeOK'
<1> USE DEF DesTypeOK
<1>1. ASSUME NEW k \in DesKeys, DesRefuse(k)
      PROVE  DesTypeOK'
  BY <1>1, DesBoundsAssumption DEF DesRefuse, desfuncVars
<1>2. ASSUME NEW k \in DesKeys, DesSetup(k)
      PROVE  DesTypeOK'
  BY <1>2, DesKeysAssumption, DesBoundsAssumption DEF DesSetup
<1>3. CASE SetupEk
  <2>1. ek' \in [0 .. 2 -> DesSchedule]
    BY <1>3, KeyTypes DEF SetupEk
  <2> QED BY <1>3, <2>1 DEF SetupEk, desfuncVars
<1>4. CASE SetupDk
  <2>1. deskeys \in 3 .. 5
    BY <1>4 DEF SetupDk, SchedulesAreMade
  <2>2. dk' \in [0 .. 2 -> DesSchedule]
    BY <1>4, <2>1, KeyTypes DEF SetupDk
  <2>3. deskeys' \in 0 .. 6
    BY <1>4, <2>1 DEF SetupDk
  <2> QED BY <1>4, <2>2, <2>3 DEF SetupDk, desfuncVars
<1>5. ASSUME NEW x \in DesBlocks \cup {desOutput}, NEW d \in BOOLEAN,
             Crypt(x, d)
      PROVE  DesTypeOK'
  <2>1. x \in SUBSET Bits64
    BY DesBlocksAssumption
  <2>2. leftt' \in DesWord /\ right' \in DesWord
    BY <1>5, <2>1, EnterType DEF Crypt, Desfunc
  <2>3. /\ desTrace' \in Seq(DesWord \X DesWord)
        /\ Len(desTrace') <= 27
    <3>1. CASE d
      BY <1>5, <3>1 DEF Crypt
    <3>2. CASE ~d
      <4>1. desTrace' = <<<<leftt', right'>>>>
        BY <1>5, <3>2 DEF Crypt
      <4>2. <<leftt', right'>> \in DesWord \X DesWord
        BY <2>2
      <4> QED BY <4>1, <4>2
    <3> QED BY <3>1, <3>2
  <2>4. desPlain' \in SUBSET Bits64
    BY <1>5, <2>1 DEF Crypt
  <2>5. desBlocks' \in 0 .. MaxDesBlocks
    BY <1>5, DesBoundsAssumption DEF Crypt
  <2> QED BY <1>5, <2>1, <2>2, <2>3, <2>4, <2>5
          DEF Crypt, Desfunc, des3KeyVars
<1>6. ASSUME leftt' \in DesWord, right' \in DesWord, DesTraced,
             desPc = "loop", Tests < 26
      PROVE  /\ desTrace' \in Seq(DesWord \X DesWord)
             /\ Len(desTrace') <= 27
  <2>1. CASE decrypts
    BY <1>6, <2>1 DEF DesTraced
  <2>2. CASE ~decrypts
    <3>1. Len(desTrace) = Tests + 1
      BY <1>6, <2>2 DEF HistoryIsCurrent
    <3> QED BY <1>6, <2>2, <3>1 DEF DesTraced, Tests
  <2> QED BY <2>1, <2>2
<1>7. CASE Iterate
  <2>1. leftt' \in DesWord /\ right' \in DesWord
    BY <1>7, IterationType DEF Iterate
  <2>2. DesTraced /\ Tests < 26
    BY <1>7 DEF Iterate, Tests
  <2>3. desPc = "loop"
    BY <1>7 DEF Iterate
  <2> QED BY <1>6, <1>7, <2>1, <2>2, <2>3 DEF Iterate, des3KeyVars
<1>8. CASE NextDesfunc
  <2>1. leftt' \in DesWord /\ right' \in DesWord
    BY <1>8, LeaveType, EnterType DEF NextDesfunc, Desfunc
  <2>2. DesTraced /\ Tests < 26
    BY <1>8 DEF NextDesfunc, Tests
  <2>3. desPc = "loop"
    BY <1>8 DEF NextDesfunc
  <2> QED BY <1>6, <1>8, <2>1, <2>2, <2>3 DEF NextDesfunc, Desfunc, des3KeyVars
<1>9. CASE Store
  BY <1>9, LeaveType DEF Store, des3KeyVars
<1>10. CASE UNCHANGED desVars
  BY <1>10 DEF desVars, des3KeyVars, desfuncVars
<1> QED BY <1>1, <1>2, <1>3, <1>4, <1>5, <1>7, <1>8, <1>9, <1>10 DEF DesNext

(* The schedules, made one after the other.                                *)
LEMMA SchedulesStep ==
  ASSUME DesTypeOK, SchedulesAreMade, [DesNext]_desVars
  PROVE  SchedulesAreMade'
<1> USE DEF SchedulesAreMade
<1>1. ASSUME UNCHANGED des3KeyVars, desPc' \in {"ready", "loop"},
             desPc \in {"ready", "loop"}
      PROVE  SchedulesAreMade'
  BY <1>1, KeysKept DEF des3KeyVars
<1>2. ASSUME NEW k \in DesKeys, DesRefuse(k)
      PROVE  SchedulesAreMade'
  BY <1>2, KeysKept DEF DesRefuse
<1>3. ASSUME NEW k \in DesKeys, DesSetup(k)
      PROVE  SchedulesAreMade'
  BY <1>3 DEF DesSetup
<1>4. CASE SetupEk
  <2>1. key' = key /\ deskeys \in 0 .. 2
    BY <1>4 DEF SetupEk, DesTypeOK
  <2>2. \A n \in 0 .. 2 : n < deskeys' => ek'[n] = EncryptionKey(n)
    BY <1>4, <2>1 DEF SetupEk, DesTypeOK
  <2> QED BY <1>4, <2>1, <2>2, KeysKept DEF SetupEk, desfuncVars
<1>5. CASE SetupDk
  <2>1. key' = key /\ deskeys \in 3 .. 5
    BY <1>5 DEF SetupDk, DesTypeOK
  <2>2. \A n \in 0 .. 2 : 5 - n < deskeys' => dk'[n] = DecryptionKey(n)
    BY <1>5, <2>1 DEF SetupDk, DesTypeOK
  <2> QED BY <1>5, <2>1, <2>2, KeysKept DEF SetupDk, desfuncVars
<1>6. ASSUME NEW x \in DesBlocks \cup {desOutput}, NEW d \in BOOLEAN,
             Crypt(x, d)
      PROVE  SchedulesAreMade'
  BY <1>1, <1>6 DEF Crypt, des3KeyVars
<1>7. CASE Iterate
  BY <1>1, <1>7 DEF Iterate, des3KeyVars
<1>8. CASE NextDesfunc
  BY <1>1, <1>8 DEF NextDesfunc, des3KeyVars
<1>9. CASE Store
  BY <1>1, <1>9 DEF Store, des3KeyVars
<1>10. CASE UNCHANGED desVars
  BY <1>10, KeysKept DEF desVars, des3KeyVars
<1> QED BY <1>2, <1>3, <1>4, <1>5, <1>6, <1>7, <1>8, <1>9, <1>10 DEF DesNext

(* A step that leaves keys, loops and blocks alone keeps the history.      *)
LEMMA HistoryKept ==
  ASSUME HistorySteps, HistoryIsCurrent, DecryptionRetraces3,
         TripleDecryptInverts,
         UNCHANGED <<ek, desPc, decrypts, stage, cur_round, leftt, right,
                     desInput, desOutput, desPlain, desTrace>>
  PROVE  /\ HistorySteps' /\ HistoryIsCurrent'
         /\ DecryptionRetraces3' /\ TripleDecryptInverts'
<1>1. HistorySteps'
  BY DEF HistorySteps
<1>2. HistoryIsCurrent'
  BY DEF HistoryIsCurrent, Tests
<1>3. DecryptionRetraces3'
  BY DEF DecryptionRetraces3, Tests, Sealed
<1>4. TripleDecryptInverts'
  BY DEF TripleDecryptInverts, Sealed
<1> QED BY <1>1, <1>2, <1>3, <1>4

(* Without a history there is nothing to keep, outside the loops.          *)
LEMMA NoHistory ==
  ASSUME desTrace' = <<>>, desPc' # "loop"
  PROVE  /\ HistorySteps' /\ HistoryIsCurrent'
         /\ DecryptionRetraces3' /\ TripleDecryptInverts'
BY DEF HistorySteps, HistoryIsCurrent, DecryptionRetraces3,
       TripleDecryptInverts

(* Where the loops of des3_encrypt and of des3_decrypt are at a test.      *)
LEMMA TestsAt ==
  ASSUME NEW s \in 0 .. 2, NEW c \in 0 .. 8
  PROVE  /\ (9 * s + c) \div 9 = s /\ (9 * s + c) % 9 = c
         /\ 26 - (9 * s + c) = 9 * (2 - s) + (8 - c)
         /\ 2 - s \in 0 .. 2 /\ 8 - c \in 0 .. 8
OBVIOUS

(* A state of the history is two words.                                    *)
LEMMA HistoryWords ==
  ASSUME NEW t \in Seq(DesWord \X DesWord), NEW j \in 1 .. Len(t)
  PROVE  /\ t[j] \in DesWord \X DesWord
         /\ \E l \in DesWord, r \in DesWord : t[j] = <<l, r>>
<1>1. t[j] \in DesWord \X DesWord
  OBVIOUS
<1> QED BY <1>1

(* The step of the history from the state before the one numbered j.       *)
LEMMA HistoryAt ==
  ASSUME HistorySteps, NEW s \in 0 .. 2, NEW c \in 0 .. 8,
         desTrace # <<>>, 9 * s + c + 1 \in 1 .. Len(desTrace) - 1
  PROVE  LET from == desTrace[9 * s + c + 1]
         IN  desTrace[9 * s + c + 2] =
               IF c = 8 THEN Enter(Leave(from[1], from[2]))
               ELSE Iteration(ek[s], c, from[1], from[2])
<1> DEFINE j == 9 * s + c + 1
<1>1. j \in 1 .. Len(desTrace) - 1 /\ j - 1 = 9 * s + c /\ j + 1 = 9 * s + c + 2
  OBVIOUS
<1>2. (j - 1) \div 9 = s /\ (j - 1) % 9 = c
  BY <1>1, TestsAt
<1>3. desTrace[j + 1] =
        IF (j - 1) % 9 = 8 THEN Enter(Leave(desTrace[j][1], desTrace[j][2]))
        ELSE Iteration(ek[(j - 1) \div 9], (j - 1) % 9,
                       desTrace[j][1], desTrace[j][2])
  BY <1>1 DEF HistorySteps
<1> QED BY <1>1, <1>2, <1>3

(* A step of an encryption makes the history longer by its result.         *)
LEMMA HistoryGrows ==
  ASSUME DesTypeOK, HistorySteps, HistoryIsCurrent,
         desPc = "loop", ~decrypts, Tests < 26, DesTraced,
         UNCHANGED <<ek, desPc, decrypts, desPlain>>,
         9 * stage' + cur_round' = Tests + 1,
         <<leftt', right'>> = IF cur_round = 8 THEN Enter(Leave(leftt, right))
                              ELSE Iteration(ek[stage], cur_round, leftt, right)
  PROVE  HistorySteps' /\ HistoryIsCurrent'
<1> DEFINE n == Tests + 1
<1>1. /\ desTrace' = Append(desTrace, <<leftt', right'>>)
      /\ Len(desTrace) = n /\ desTrace[n] = <<leftt, right>>
      /\ n \in Nat \ {0}
  BY DEF DesTraced, HistoryIsCurrent, Tests, DesTypeOK
<1>2. /\ Len(desTrace') = n + 1 /\ desTrace'[n + 1] = <<leftt', right'>>
      /\ \A j \in 1 .. n : desTrace'[j] = desTrace[j]
      /\ desTrace # <<>>
  BY <1>1 DEF DesTypeOK
<1>3. (n - 1) \div 9 = stage /\ (n - 1) % 9 = cur_round
  <2>1. stage \in 0 .. 2 /\ cur_round \in 0 .. 8
    BY DEF DesTypeOK
  <2>2. n - 1 = 9 * stage + cur_round
    BY <2>1 DEF Tests
  <2> QED BY <2>1, <2>2, TestsAt
<1>4. ASSUME NEW j \in 1 .. n
      PROVE  desTrace'[j + 1] =
               IF (j - 1) % 9 = 8
               THEN Enter(Leave(desTrace'[j][1], desTrace'[j][2]))
               ELSE Iteration(ek'[(j - 1) \div 9], (j - 1) % 9,
                              desTrace'[j][1], desTrace'[j][2])
  <2>1. CASE j = n
    <3>1. desTrace'[n][1] = leftt /\ desTrace'[n][2] = right
      BY <1>1, <1>2
    <3> QED BY <1>2, <1>3, <2>1, <3>1
  <2>2. CASE j # n
    <3>1. j \in 1 .. Len(desTrace) - 1 /\ j + 1 \in 1 .. n
      BY <1>1, <2>2
    <3> QED BY <1>2, <3>1 DEF HistorySteps
  <2> QED BY <2>1, <2>2
<1>5. desTrace'[1] = Enter(desPlain')
  BY <1>1, <1>2 DEF HistorySteps
<1>6. HistorySteps'
  BY <1>1, <1>2, <1>4, <1>5 DEF HistorySteps
<1>7. HistoryIsCurrent'
  <2>1. Tests' = n
    BY DEF Tests
  <2> QED BY <1>2, <2>1 DEF HistoryIsCurrent
<1> QED BY <1>6, <1>7

(* A step of a decryption leaves it as it is.                              *)
LEMMA HistoryStays ==
  ASSUME HistorySteps, HistoryIsCurrent, desPc = "loop", decrypts, DesTraced,
         UNCHANGED <<ek, desPc, decrypts, desPlain>>
  PROVE  HistorySteps' /\ HistoryIsCurrent' /\ desTrace' = desTrace
<1>1. desTrace' = desTrace
  BY DEF DesTraced
<1>2. HistorySteps'
  BY <1>1 DEF HistorySteps
<1>3. HistoryIsCurrent'
  BY <1>1 DEF HistoryIsCurrent
<1> QED BY <1>1, <1>2, <1>3
-----------------------------------------------------------------------------
(* The actions that have a history, one lemma each.                        *)

LEMMA CryptKeeps ==
  ASSUME DesInv, NEW x \in SUBSET Bits64, NEW d \in BOOLEAN, Crypt(x, d)
  PROVE  /\ HistorySteps' /\ HistoryIsCurrent'
         /\ DecryptionRetraces3' /\ TripleDecryptInverts'
<1> USE DEF DesInv
<1>1. /\ desPc = "ready" /\ desPc' = "loop" /\ decrypts' = d
      /\ stage' = 0 /\ cur_round' = 0 /\ desInput' = x /\ ek' = ek
      /\ leftt' = Enter(x)[1] /\ right' = Enter(x)[2]
  BY DEF Crypt, Desfunc, des3KeyVars
<1>2. Tests' = 0
  BY <1>1 DEF Tests
<1>3. Enter(x) = <<leftt', right'>>
  BY <1>1, EnterType
<1>4. TripleDecryptInverts'
  BY <1>1 DEF TripleDecryptInverts
<1>5. CASE d
  <2>1. desTrace' = desTrace /\ desPlain' = desPlain
    BY <1>5 DEF Crypt
  <2>2. HistorySteps'
    BY <1>1, <2>1 DEF HistorySteps
  <2>3. desTrace # <<>> => Len(desTrace) = 27
    BY <1>1 DEF HistoryIsCurrent
  <2>4. HistoryIsCurrent'
    BY <1>1, <1>5, <2>1, <2>3 DEF HistoryIsCurrent
  <2>5. ASSUME desTrace # <<>>, x = Sealed
        PROVE  desTrace[27] = <<right', leftt'>>
    <3>1. PICK l \in DesWord, r \in DesWord : desTrace[27] = <<l, r>>
      <4>1. desTrace \in Seq(DesWord \X DesWord) /\ desTrace # <<>>
        BY <2>5 DEF DesTypeOK
      <4> HIDE DEF DesInv
      <4>3. Len(desTrace) = 27
        BY <2>3, <4>1
      <4>2. 27 \in 1 .. Len(desTrace)
        BY <4>3
      <4> QED BY <4>1, <4>2, HistoryWords
    <3>2. Enter(x) = <<r, l>>
      BY <2>5, <3>1, EnterAfterLeave DEF Sealed
    <3> QED BY <1>3, <3>1, <3>2
  <2>6. DecryptionRetraces3'
    <3>1. Sealed' = Sealed
      BY <2>1 DEF Sealed
    <3> QED BY <1>1, <1>2, <2>1, <2>5, <3>1 DEF DecryptionRetraces3
  <2> QED BY <1>4, <2>2, <2>4, <2>6
<1>6. CASE ~d
  <2>1. desTrace' = <<<<leftt', right'>>>> /\ desPlain' = x
    BY <1>6 DEF Crypt
  <2>2. HistorySteps'
    BY <1>3, <2>1 DEF HistorySteps
  <2>3. HistoryIsCurrent'
    BY <1>1, <1>2, <1>6, <2>1 DEF HistoryIsCurrent
  <2>4. DecryptionRetraces3'
    BY <1>1, <1>6 DEF DecryptionRetraces3
  <2> QED BY <1>4, <2>2, <2>3, <2>4
<1> QED BY <1>5, <1>6

(* What the round keys of a state are, and where in the history it is.     *)
LEMMA Retraced ==
  ASSUME DesInv, desPc = "loop", decrypts, desTrace # <<>>, desInput = Sealed
  PROVE  /\ Len(desTrace) = 27 /\ desTrace[27 - Tests] = <<right, leftt>>
         /\ \A j \in 1 .. 27 : desTrace[j] \in DesWord \X DesWord
         /\ ek[2 - stage] = EncryptionKey(2 - stage)
         /\ RoundKeys = DecryptionKey(stage)
<1> USE DEF DesInv
<1>1. Len(desTrace) = 27
  BY DEF HistoryIsCurrent
<1>2. \A j \in 1 .. 27 : desTrace[j] \in DesWord \X DesWord
  <2>1. desTrace \in Seq(DesWord \X DesWord)
    BY DEF DesTypeOK
  <2> QED BY <1>1, <2>1, HistoryWords
<1>3. stage \in 0 .. 2 /\ 2 - stage \in 0 .. 2
  BY DEF DesTypeOK
<1>4. /\ ek[2 - stage] = EncryptionKey(2 - stage)
      /\ dk[stage] = DecryptionKey(stage)
  BY <1>3 DEF SchedulesAreMade
<1> QED BY <1>1, <1>2, <1>4 DEF DecryptionRetraces3, RoundKeys

LEMMA IterateKeeps ==
  ASSUME DesInv, Iterate
  PROVE  /\ HistorySteps' /\ HistoryIsCurrent'
         /\ DecryptionRetraces3' /\ TripleDecryptInverts'
<1> USE DEF DesInv
<1>1. /\ stage \in 0 .. 2 /\ cur_round \in 0 .. 7
      /\ leftt \in DesWord /\ right \in DesWord
  BY DEF DesTypeOK, Iterate
<1>2. /\ desPc = "loop" /\ desPc' = "loop" /\ DesTraced
      /\ stage' = stage /\ cur_round' = cur_round + 1
      /\ UNCHANGED <<ek, decrypts, desPlain, desInput>>
  BY DEF Iterate, des3KeyVars
<1>3. <<leftt', right'>> = Iteration(RoundKeys, cur_round, leftt, right)
  BY <1>1, IterationType DEF Iterate
<1>4. TripleDecryptInverts'
  BY <1>2 DEF TripleDecryptInverts
<1>5. Tests' = Tests + 1 /\ Tests < 26
  BY <1>1, <1>2 DEF Tests
<1>6. CASE ~decrypts
  <2>1. HistorySteps' /\ HistoryIsCurrent'
    <3>1. <<leftt', right'>> = Iteration(ek[stage], cur_round, leftt, right)
      BY <1>3, <1>6 DEF RoundKeys
    <3>2. 9 * stage' + cur_round' = Tests + 1
      BY <1>5 DEF Tests
    <3> QED BY <1>1, <1>2, <1>5, <1>6, <3>1, <3>2, HistoryGrows
  <2> QED BY <1>2, <1>4, <1>6, <2>1 DEF DecryptionRetraces3
<1>7. CASE decrypts
  <2>1. HistorySteps' /\ HistoryIsCurrent' /\ desTrace' = desTrace
    BY <1>2, <1>7, HistoryStays
  <2>2. ASSUME desTrace # <<>>, desInput = Sealed
        PROVE  desTrace[26 - Tests] = <<right', leftt'>>
    <3> DEFINE s == 2 - stage
               c == 7 - cur_round
               from == desTrace[9 * s + c + 1]
    <3>1. /\ s \in 0 .. 2 /\ c \in 0 .. 7 /\ 2 - s = stage
          /\ 7 - c = cur_round /\ 9 * s + c + 1 = 26 - Tests
          /\ 9 * s + c + 2 = 27 - Tests /\ 9 * s + c + 1 \in 1 .. 26
      BY <1>1 DEF Tests
    <3>2. /\ Len(desTrace) = 27 /\ desTrace[27 - Tests] = <<right, leftt>>
          /\ from \in DesWord \X DesWord
          /\ ek[s] = EncryptionKey(s) /\ RoundKeys = DecryptionKey(2 - s)
      <4> HIDE DEF DesInv, c
      <4>1. /\ Len(desTrace) = 27 /\ desTrace[27 - Tests] = <<right, leftt>>
            /\ \A j \in 1 .. 27 : desTrace[j] \in DesWord \X DesWord
            /\ ek[s] = EncryptionKey(s) /\ RoundKeys = DecryptionKey(stage)
        BY <1>2, <1>7, <2>2, Retraced
      <4>2. 9 * s + c + 1 \in 1 .. 27
        BY <3>1
      <4> HIDE DEF s
      <4> QED BY <3>1, <4>1, <4>2
    <3> HIDE DEF s, c
    <3>3. <<right, leftt>> = Iteration(EncryptionKey(s), c, from[1], from[2])
      <4>1. 9 * s + c + 1 \in 1 .. Len(desTrace) - 1 /\ c \in 0 .. 8 /\ c # 8
        BY <3>1, <3>2
      <4> QED BY <2>2, <3>1, <3>2, <4>1, HistoryAt
    <3>4. Iteration(DecryptionKey(2 - s), 7 - c, leftt, right)
            = <<from[2], from[1]>>
      <4>1. from[1] \in DesWord /\ from[2] \in DesWord
        BY <3>2
      <4> DEFINE keys == EncryptionKey(s)
                 rev == DecryptionKey(2 - s)
      <4>2. /\ rev[4 * (7 - c)] = keys[4 * c + 2]
            /\ rev[4 * (7 - c) + 1] = keys[4 * c + 3]
            /\ rev[4 * (7 - c) + 2] = keys[4 * c]
            /\ rev[4 * (7 - c) + 3] = keys[4 * c + 1]
        BY <3>1, WordsOfIteration
      <4> HIDE DEF keys, rev, from, DesInv
      <4>3. LET next == Iteration(keys, c, from[1], from[2])
            IN  Iteration(rev, 7 - c, next[2], next[1]) = <<from[2], from[1]>>
        BY <3>1, <4>1, <4>2, IterationUndone
      <4>4. Iteration(keys, c, from[1], from[2]) = <<right, leftt>>
        BY <3>3 DEF keys
      <4> QED BY <4>3, <4>4 DEF rev
    <3>5. <<leftt', right'>> = <<from[2], from[1]>>
      BY <1>3, <3>1, <3>2, <3>4
    <3> QED BY <3>1, <3>2, <3>5
  <2>3. DecryptionRetraces3'
    <3>1. 27 - Tests' = 26 - Tests
      BY <1>1, <1>5 DEF Tests
    <3>2. Sealed' = Sealed
      BY <2>1 DEF Sealed
    <3> QED BY <1>2, <2>1, <2>2, <3>1, <3>2 DEF DecryptionRetraces3
  <2> QED BY <1>4, <2>1, <2>3
<1> QED BY <1>6, <1>7

LEMMA NextDesfuncKeeps ==
  ASSUME DesInv, NextDesfunc
  PROVE  /\ HistorySteps' /\ HistoryIsCurrent'
         /\ DecryptionRetraces3' /\ TripleDecryptInverts'
<1> USE DEF DesInv
<1>1. /\ stage \in 0 .. 1 /\ cur_round = 8
      /\ leftt \in DesWord /\ right \in DesWord
  BY DEF DesTypeOK, NextDesfunc
<1>2. /\ desPc = "loop" /\ desPc' = "loop" /\ DesTraced
      /\ stage' = stage + 1 /\ cur_round' = 0
      /\ UNCHANGED <<ek, decrypts, desPlain, desInput>>
  BY DEF NextDesfunc, Desfunc, des3KeyVars
<1>3. <<leftt', right'>> = Enter(Leave(leftt, right))
  <2>1. Leave(leftt, right) \in SUBSET Bits64
    BY <1>1, LeaveType
  <2> QED BY <2>1, EnterType DEF NextDesfunc, Desfunc
<1>4. TripleDecryptInverts'
  BY <1>2 DEF TripleDecryptInverts
<1>5. Tests' = Tests + 1 /\ Tests < 26
  BY <1>1, <1>2 DEF Tests
<1>6. CASE ~decrypts
  <2>1. HistorySteps' /\ HistoryIsCurrent'
    <3>1. 9 * stage' + cur_round' = Tests + 1
      BY <1>5 DEF Tests
    <3> QED BY <1>1, <1>2, <1>3, <1>5, <1>6, <3>1, HistoryGrows
  <2> QED BY <1>2, <1>4, <1>6, <2>1 DEF DecryptionRetraces3
<1>7. CASE decrypts
  <2>1. HistorySteps' /\ HistoryIsCurrent' /\ desTrace' = desTrace
    BY <1>2, <1>7, HistoryStays
  <2>2. ASSUME desTrace # <<>>, desInput = Sealed
        PROVE  desTrace[26 - Tests] = <<right', leftt'>>
    <3> DEFINE s == 1 - stage
               from == desTrace[9 * s + 8 + 1]
    <3>1. /\ s \in 0 .. 2 /\ 9 * s + 8 + 1 = 26 - Tests
          /\ 9 * s + 8 + 2 = 27 - Tests /\ 9 * s + 8 + 1 \in 1 .. 26
      BY <1>1 DEF Tests
    <3>2. /\ Len(desTrace) = 27 /\ desTrace[27 - Tests] = <<right, leftt>>
          /\ from \in DesWord \X DesWord
      <4> HIDE DEF DesInv
      <4>1. /\ Len(desTrace) = 27 /\ desTrace[27 - Tests] = <<right, leftt>>
            /\ \A j \in 1 .. 27 : desTrace[j] \in DesWord \X DesWord
        BY <1>2, <1>7, <2>2, Retraced
      <4>2. 9 * s + 8 + 1 \in 1 .. 27
        BY <3>1
      <4> QED BY <4>1, <4>2
    <3> HIDE DEF s
    <3>3. PICK l \in DesWord, r \in DesWord : from = <<l, r>>
      BY <3>2
    <3>4. <<right, leftt>> = Enter(Leave(l, r))
      <4>1. 9 * s + 8 + 1 \in 1 .. Len(desTrace) - 1 /\ 8 \in 0 .. 8
        BY <3>1, <3>2
      <4> HIDE DEF DesInv, from
      <4>2. desTrace[9 * s + 8 + 2] = Enter(Leave(from[1], from[2]))
        BY <2>2, <3>1, <4>1, HistoryAt DEF from, DesInv
      <4> QED BY <3>1, <3>2, <3>3, <4>2
    <3>5. right = r /\ leftt = l
      BY <3>4, EnterAfterLeave
    <3>6. <<leftt', right'>> = <<r, l>>
      BY <1>3, <3>5, EnterAfterLeave
    <3> QED BY <3>1, <3>3, <3>6
  <2>3. DecryptionRetraces3'
    <3>1. 27 - Tests' = 26 - Tests
      BY <1>1, <1>5 DEF Tests
    <3>2. Sealed' = Sealed
      BY <2>1 DEF Sealed
    <3> QED BY <1>2, <2>1, <2>2, <3>1, <3>2 DEF DecryptionRetraces3
  <2> QED BY <1>4, <2>1, <2>3
<1> QED BY <1>6, <1>7

LEMMA StoreKeeps ==
  ASSUME DesInv, Store
  PROVE  /\ HistorySteps' /\ HistoryIsCurrent'
         /\ DecryptionRetraces3' /\ TripleDecryptInverts'
<1> USE DEF DesInv
<1>1. /\ desPc = "loop" /\ desPc' = "ready" /\ Tests = 26
      /\ desOutput' = Leave(leftt, right)
      /\ UNCHANGED <<ek, decrypts, stage, cur_round, leftt, right, desInput,
                     desPlain, desTrace>>
  BY DEF Store, Tests, des3KeyVars
<1>2. HistorySteps'
  BY <1>1 DEF HistorySteps
<1>3. HistoryIsCurrent'
  BY <1>1 DEF HistoryIsCurrent
<1>4. DecryptionRetraces3'
  BY <1>1 DEF DecryptionRetraces3
<1>5. ASSUME decrypts, desTrace # <<>>, desInput = Sealed
      PROVE  desOutput' = desPlain
  <2>1. desTrace[1] = <<right, leftt>>
    BY <1>1, <1>5 DEF DecryptionRetraces3
  <2>2. desTrace[1] = Enter(desPlain) /\ desPlain \in SUBSET Bits64
    BY <1>5 DEF HistorySteps, DesTypeOK
  <2>3. Enter(desPlain)[2] = leftt /\ Enter(desPlain)[1] = right
    BY <2>1, <2>2
  <2> QED BY <1>1, <2>2, <2>3, LeaveAfterEnter
<1>6. TripleDecryptInverts'
  BY <1>1, <1>5 DEF TripleDecryptInverts, Sealed
<1> QED BY <1>2, <1>3, <1>4, <1>6

LEMMA DesStep == DesInv /\ [DesNext]_desVars => DesInv'
<1> SUFFICES ASSUME DesInv, [DesNext]_desVars
             PROVE  DesInv'
  OBVIOUS
<1> USE DEF DesInv
<1>1. DesTypeOK' /\ SchedulesAreMade'
  BY DesTypeStep, SchedulesStep
<1>2. ASSUME NEW k \in DesKeys, DesRefuse(k)
      PROVE  DesInv'
  BY <1>1, <1>2, HistoryKept DEF DesRefuse, desfuncVars
<1>3. ASSUME NEW k \in DesKeys, DesSetup(k)
      PROVE  DesInv'
  BY <1>1, <1>3, NoHistory DEF DesSetup
<1>4. ASSUME SetupEk \/ SetupDk
      PROVE  DesInv'
  <2>1. desTrace = <<>>
    BY <1>4 DEF SetupEk, SetupDk, HistoryIsCurrent
  <2>2. desTrace' = <<>> /\ desPc' # "loop"
    BY <1>4, <2>1 DEF SetupEk, SetupDk, desfuncVars
  <2> QED BY <1>1, <2>2, NoHistory
<1>5. ASSUME NEW x \in DesBlocks \cup {desOutput}, NEW d \in BOOLEAN,
             Crypt(x, d)
      PROVE  DesInv'
  <2>1. x \in SUBSET Bits64
    BY DesBlocksAssumption DEF DesTypeOK
  <2> QED BY <1>1, <1>5, <2>1, CryptKeeps
<1>6. CASE Iterate
  BY <1>1, <1>6, IterateKeeps
<1>7. CASE NextDesfunc
  BY <1>1, <1>7, NextDesfuncKeeps
<1>8. CASE Store
  BY <1>1, <1>8, StoreKeeps
<1>9. CASE UNCHANGED desVars
  BY <1>1, <1>9, HistoryKept DEF desVars, des3KeyVars, desfuncVars
<1> QED BY <1>2, <1>3, <1>4, <1>5, <1>6, <1>7, <1>8, <1>9 DEF DesNext

-----------------------------------------------------------------------------
(* The inductive invariant: what des3_setup has made, the history of the   *)
(* last encryption, and where on it a decryption is.                       *)
THEOREM TripleDesInvariance == DesSpec => []DesInv
BY DesBegins, DesStep, PTL DEF DesSpec

(* Every variable keeps its type: a function makes three calls of desfunc  *)
(* with eight iterations each and the words stay words.                    *)
THEOREM DesTypeCorrect == DesSpec => []DesTypeOK
<1>1. DesInv => DesTypeOK
  BY DEF DesInv
<1> QED BY <1>1, TripleDesInvariance, PTL

(* des3_decrypt gives back the block that des3_encrypt took, for every     *)
(* key of two or three parts, every block and every eight S-boxes.         *)
THEOREM TripleDecryptionInverts == DesSpec => []TripleDecryptInverts
<1>1. DesInv => TripleDecryptInverts
  BY DEF DesInv
<1> QED BY <1>1, TripleDesInvariance, PTL

-----------------------------------------------------------------------------
(* The words of a block and the halves of the standard.                    *)

(* A word of the code as a half of the standard: it is rotated by one.     *)
HalfOf(w) == {o \in 1 .. 32 : (33 - o) % 32 \in w}

(* The table IP is the permutation Initial, the other way around.          *)
LEMMA TableIP ==
  /\ \A i \in 0 .. 3, j \in 0 .. 7 : IP[8 * i + j + 1] = (58 + 2 * i) - 8 * j
  /\ \A i \in 4 .. 7, j \in 0 .. 7 : IP[8 * i + j + 1] = (49 + 2 * i) - 8 * j
  /\ DOMAIN IP = 1 .. 64
BY DEF IP

LEMMA InitialOfTable ==
  ASSUME NEW o \in 1 .. 64
  PROVE  IP[o] \in 1 .. 64 /\ Initial(IP[o]) = o
<1>1. PICK i \in 0 .. 7, j \in 0 .. 7 : o = 8 * i + j + 1
  <2>1. o - 1 = 8 * ((o - 1) \div 8) + ((o - 1) % 8)
        /\ (o - 1) \div 8 \in 0 .. 7 /\ (o - 1) % 8 \in 0 .. 7
    OBVIOUS
  <2> QED
    BY <2>1
<1>2. CASE i \in 0 .. 3
  <2>1. IP[o] - 1 = 8 * (7 - j) + (2 * i + 1)
    BY <1>1, <1>2, TableIP
  <2>2. (IP[o] - 1) \div 8 = 7 - j /\ (IP[o] - 1) % 8 = 2 * i + 1
    BY <1>1, <1>2, <2>1
  <2>3. (2 * i + 1) % 2 = 1 /\ (2 * i + 1) \div 2 = i
    BY <1>2
  <2>4. Initial(IP[o]) = (8 + 8 * i) - (7 - j)
    BY <2>2, <2>3 DEF Initial
  <2>5. IP[o] \in 1 .. 64
    BY <1>1, <1>2, TableIP
  <2> QED
    BY <1>1, <1>2, <2>4, <2>5
<1>3. CASE i \in 4 .. 7
  <2>1. IP[o] - 1 = 8 * (7 - j) + 2 * (i - 4)
    BY <1>1, <1>3, TableIP
  <2>2. (IP[o] - 1) \div 8 = 7 - j /\ (IP[o] - 1) % 8 = 2 * (i - 4)
    BY <1>1, <1>3, <2>1
  <2>3. (2 * (i - 4)) % 2 = 0 /\ (2 * (i - 4)) \div 2 = i - 4
    BY <1>3
  <2>4. Initial(IP[o]) = (40 + 8 * (i - 4)) - (7 - j)
    BY <2>2, <2>3 DEF Initial
  <2>5. IP[o] \in 1 .. 64
    BY <1>1, <1>3, TableIP
  <2> QED
    BY <1>1, <1>3, <2>4, <2>5
<1> QED
  BY <1>2, <1>3

LEMMA TableOfInitial ==
  ASSUME NEW n \in 1 .. 64
  PROVE  Initial(n) \in 1 .. 64 /\ IP[Initial(n)] = n
<1> DEFINE i == (n - 1) \div 8
           j == (n - 1) % 8
<1>1. i \in 0 .. 7 /\ j \in 0 .. 7 /\ n = 8 * i + j + 1
  OBVIOUS
<1>2. Initial(n) = ((IF j % 2 = 0 THEN 40 ELSE 8) + 8 * (j \div 2)) - i
  BY DEF Initial
<1> HIDE DEF i, j
<1>3. PICK m \in 0 .. 3, e \in 0 .. 1 : j = 2 * m + e
  BY <1>1
<1>4. j % 2 = e /\ j \div 2 = m
  BY <1>3
<1>5. CASE e = 0
  <2>1. Initial(n) = 8 * (4 + m) + (7 - i) + 1
    BY <1>1, <1>2, <1>4, <1>5
  <2>2. IP[8 * (4 + m) + (7 - i) + 1] = (49 + 2 * (4 + m)) - 8 * (7 - i)
    BY <1>1, TableIP
  <2> QED
    BY <1>1, <1>3, <1>5, <2>1, <2>2
<1>6. CASE e = 1
  <2>1. Initial(n) = 8 * m + (7 - i) + 1
    BY <1>1, <1>2, <1>4, <1>6
  <2>2. IP[8 * m + (7 - i) + 1] = (58 + 2 * m) - 8 * (7 - i)
    BY <1>1, TableIP
  <2> QED
    BY <1>1, <1>3, <1>6, <2>1, <2>2
<1> QED
  BY <1>5, <1>6

(* Where des_ip puts the bit that IP takes to place o.                     *)
LEMMA PlaceInWords ==
  ASSUME NEW o \in 1 .. 64
  PROVE  /\ 64 - IP[o] \in Bits64
         /\ des_ip[64 - IP[o]] = IF o <= 32 THEN 32 + ((33 - o) % 32)
                                 ELSE (65 - o) % 32
<1>1. 64 - IP[o] \in Bits64 /\ Numbered(64 - IP[o]) = IP[o]
  <2>1. \A n \in 1 .. 64 : 64 - n \in Bits64 /\ Numbered(64 - n) = n
    BY DEF Bits64, Numbered
  <2> QED
    BY <2>1, InitialOfTable
<1>2. des_ip[64 - IP[o]] = Leftward(64 - o)
  BY <1>1, InitialOfTable DEF des_ip, Numbered
<1>3. CASE o <= 32
  BY <1>1, <1>2, <1>3 DEF Leftward
<1>4. CASE o > 32
  BY <1>1, <1>2, <1>4 DEF Leftward
<1> QED
  BY <1>3, <1>4

(* Before its loop desfunc has the halves of IP.                           *)
LEMMA EnterIsIP ==
  ASSUME NEW x \in SUBSET Bits64
  PROVE  Halves(Selected(IP, Standard(x)))
           = <<HalfOf(Enter(x)[1]), HalfOf(Enter(x)[2])>>
<1> DEFINE y == Permuted(des_ip, x)
           s == Selected(IP, Standard(x))
<1>1. \A b \in Bits64 : des_ip[b] \in y <=> b \in x
  <2> TAKE b \in Bits64
  <2>1. ASSUME des_ip[b] \in y PROVE b \in x
    <3>1. PICK c \in x : des_ip[b] = des_ip[c]
      BY <2>1 DEF Permuted
    <3>2. c \in Bits64
      OBVIOUS
    <3> QED
      BY <3>1, <3>2, TablesInvert
  <2> QED
    BY <2>1 DEF Permuted
<1>2. \A b \in Bits64 : 64 - b \in Standard(x) <=> b \in x
  BY DEF Standard, Numbered, Bits64
<1>3. \A o \in 1 .. 64 : o \in s <=> des_ip[64 - IP[o]] \in y
  <2> TAKE o \in 1 .. 64
  <2>1. o \in s <=> IP[o] \in Standard(x)
    BY TableIP DEF Selected
  <2>2. 64 - IP[o] \in Bits64 /\ 64 - (64 - IP[o]) = IP[o]
    <3>1. \A n \in 1 .. 64 : 64 - n \in Bits64 /\ 64 - (64 - n) = n
      BY DEF Bits64
    <3> QED
      BY <3>1, InitialOfTable
  <2> QED
    BY <1>1, <1>2, <2>1, <2>2
<1>4. Enter(x) = <<High(y), Low(y)>>
  BY EnterType
<1>5. s \subseteq 1 .. 64
  BY TableIP DEF Selected
<1> HIDE DEF y, s
<1>6. s \cap 1 .. 32 = HalfOf(High(y))
  <2>1. ASSUME NEW o \in 1 .. 32
        PROVE  o \in s <=> (33 - o) % 32 \in High(y)
    <3>1. o \in 1 .. 64 /\ o <= 32 /\ (33 - o) % 32 \in 0 .. 31
      OBVIOUS
    <3>2. o \in s <=> 32 + ((33 - o) % 32) \in y
      BY <1>3, <3>1, PlaceInWords
    <3>3. \A k \in 0 .. 31 : k \in High(y) <=> 32 + k \in y
      BY DEF High
    <3> QED
      BY <3>1, <3>2, <3>3
  <2> QED
    BY <2>1 DEF HalfOf
<1>7. {n - 32 : n \in s \cap 33 .. 64} = HalfOf(Low(y))
  <2>1. ASSUME NEW o \in 1 .. 32
        PROVE  o + 32 \in s <=> (33 - o) % 32 \in Low(y)
    <3>1. /\ o + 32 \in 1 .. 64 /\ ~(o + 32 <= 32) /\ (33 - o) % 32 \in 0 .. 31
          /\ 65 - (o + 32) = 33 - o
      OBVIOUS
    <3>2. o + 32 \in s <=> (33 - o) % 32 \in y
      BY <1>3, <3>1, PlaceInWords
    <3>3. \A k \in 0 .. 31 : k \in Low(y) <=> k \in y
      BY DEF Low
    <3> QED
      BY <3>1, <3>2, <3>3
  <2>2. \A o \in 1 .. 32 : o \in {n - 32 : n \in s \cap 33 .. 64} <=> o + 32 \in s
    OBVIOUS
  <2>3. {n - 32 : n \in s \cap 33 .. 64} \subseteq 1 .. 32
    OBVIOUS
  <2> QED
    BY <2>1, <2>2, <2>3 DEF HalfOf
<1> QED
  BY <1>4, <1>6, <1>7 DEF Halves, s

(* Behind its loop it makes the block of the halves exchanged.             *)
LEMMA LeaveIsInverse ==
  ASSUME NEW l \in DesWord, NEW r \in DesWord
  PROVE  Standard(Leave(l, r))
           = {IP[o] : o \in FromHalves(<<HalfOf(r), HalfOf(l)>>)}
<1> DEFINE x == Standard(Leave(l, r))
           s == Selected(IP, x)
<1>1. Leave(l, r) \in SUBSET Bits64
  BY LeaveType
<1>2. Halves(s) = <<HalfOf(r), HalfOf(l)>>
  <2>1. Enter(Leave(l, r)) = <<r, l>>
    BY EnterAfterLeave
  <2> QED
    BY <1>1, <2>1, EnterIsIP
<1>3. x \subseteq 1 .. 64
  BY <1>1 DEF Standard, Numbered, Bits64
<1>4. s \subseteq 1 .. 64 /\ \A o \in 1 .. 64 : o \in s <=> IP[o] \in x
  BY TableIP DEF Selected
<1> HIDE DEF x, s
<1>5. FromHalves(Halves(s)) = s
  <2> DEFINE high == s \cap 1 .. 32
             low == {n - 32 : n \in s \cap 33 .. 64}
  <2>1. \A n \in 1 .. 64 : n \in high \cup {k + 32 : k \in low} <=> n \in s
    <3> TAKE n \in 1 .. 64
    <3>1. \A k \in low : k \in 1 .. 32 /\ k + 32 \in s
      BY <1>4
    <3>2. ASSUME n \in s, n > 32 PROVE n - 32 \in low /\ n = (n - 32) + 32
      BY <3>2
    <3> HIDE DEF low
    <3>3. CASE n <= 32
      BY <3>1, <3>3
    <3>4. CASE n > 32
      BY <3>1, <3>2, <3>4
    <3> QED
      BY <3>3, <3>4
  <2>2. high \cup {k + 32 : k \in low} \subseteq 1 .. 64
    OBVIOUS
  <2>3. FromHalves(Halves(s)) = high \cup {k + 32 : k \in low}
    BY DEF FromHalves, Halves
  <2> QED
    BY <1>4, <2>1, <2>2, <2>3
<1>6. {IP[o] : o \in s} = x
  <2>1. ASSUME NEW n \in x PROVE \E o \in s : n = IP[o]
    <3>1. Initial(n) \in 1 .. 64 /\ IP[Initial(n)] = n
      BY <1>3, TableOfInitial
    <3> QED
      BY <1>4, <3>1
  <2>2. ASSUME NEW o \in s PROVE IP[o] \in x
    BY <1>4
  <2> QED
    BY <2>1, <2>2
<1> QED
  BY <1>2, <1>5, <1>6 DEF x

-----------------------------------------------------------------------------
(* A round of the code and a round of the standard.                        *)

(* The two words of a round key in the code hold the six bits for each box *)
(* where RoundWord looks for them.                                         *)
KeyPlace(k, j) == IF k % 2 = 1 THEN (28 - 4 * k) + j ELSE (32 - 4 * k) + j
KeyFits(keys, at, k48) ==
  \A k \in 1 .. 8, j \in Six :
    6 * k - j \in k48 <=> KeyPlace(k, j) \in keys[at + (IF k % 2 = 1 THEN 0 ELSE 1)]

(* The bits of a half that E takes for a box.                              *)
LEMMA ExpandedBit ==
  ASSUME NEW w \in DesWord, NEW k \in 1 .. 8, NEW j \in Six
  PROVE  6 * k - j \in Selected(E, HalfOf(w)) <=> ((32 - 4 * k) + j) % 32 \in w
<1> DEFINE o == 6 * k - j
           e == ((4 * k - j + 32) % 32) + 1
<1>1. j \in 0 .. 5 /\ o \in 1 .. 48
  BY DEF Six
<1>2. (o - 1) \div 6 = k - 1 /\ (o - 1) % 6 = 5 - j
  <2>1. o - 1 = 6 * (k - 1) + (5 - j)
    BY <1>1
  <2> HIDE DEF o
  <2> QED
    BY <1>1, <2>1
<1>3. E[o] = ((4 * (k - 1) + (5 - j) + 31) % 32) + 1
  BY <1>1, <1>2 DEF E
<1>4. 4 * (k - 1) + (5 - j) + 31 = 32 + ((4 * k) - j)
  BY <1>1
<1>5. E[o] = ((32 + ((4 * k) - j)) % 32) + 1
  BY <1>3, <1>4
<1>6. E[o] \in 1 .. 32 /\ (33 - E[o]) % 32 = ((32 - 4 * k) + j) % 32
  BY <1>1, <1>5
<1>7. o \in DOMAIN E
  BY <1>1 DEF E
<1> QED
  BY <1>6, <1>7 DEF Selected, HalfOf

(* The bits of the rotated word that a lookup takes.                       *)
LEMMA RotatedBit ==
  ASSUME NEW w \in DesWord, NEW c \in 0 .. 31
  PROVE  c \in RORc(w, 4) <=> (c + 4) % 32 \in w
<1>1. \A b \in 0 .. 31 : (b + (32 - 4)) % 32 = c <=> b = (c + 4) % 32
  OBVIOUS
<1>2. (c + 4) % 32 \in 0 .. 31
  OBVIOUS
<1> QED
  BY <1>1, <1>2 DEF RORc, DesWord, Bits32

LEMMA SixBits ==
  ASSUME NEW w, NEW n \in 0 .. 26
  PROVE  /\ SixAt(w, n) \in SUBSET Six
         /\ \A j \in Six : j \in SixAt(w, n) <=> n + j \in w
BY DEF SixAt, Six

(* Every box gets the six bits of the standard.                            *)
LEMMA BoxGetsInput ==
  ASSUME NEW w \in DesWord, NEW keys, NEW at \in Nat, NEW k48,
         KeyFits(keys, at, k48), NEW k \in 1 .. 8
  PROVE  BoxInput(Xor(Selected(E, HalfOf(w)), k48), k)
           = IF k % 2 = 1 THEN SixAt(Xor(RORc(w, 4), keys[at]), 28 - 4 * k)
             ELSE SixAt(Xor(w, keys[at + 1]), 32 - 4 * k)
<1> DEFINE in == BoxInput(Xor(Selected(E, HalfOf(w)), k48), k)
<1>1. in \subseteq Six
  BY DEF BoxInput
<1>2. ASSUME NEW j \in Six
      PROVE  /\ j \in in <=> ~(6 * k - j \in Selected(E, HalfOf(w)) <=> 6 * k - j \in k48)
             /\ 6 * k - j \in Selected(E, HalfOf(w)) <=> ((32 - 4 * k) + j) % 32 \in w
             /\ j \in 0 .. 5
  BY ExpandedBit DEF BoxInput, Xor, Six
<1> HIDE DEF in
<1>3. CASE k % 2 = 1
  <2> DEFINE n == 28 - 4 * k
             v == Xor(RORc(w, 4), keys[at])
  <2>1. n \in 0 .. 24
    BY <1>3
  <2>2. SixAt(v, n) \in SUBSET Six /\ \A j \in Six : j \in SixAt(v, n) <=> n + j \in v
    <3> HIDE DEF n, v
    <3> QED
      BY <2>1, SixBits
  <2>3. ASSUME NEW j \in Six PROVE j \in in <=> n + j \in v
    <3>1. n + j \in 0 .. 31 /\ ((n + j) + 4) % 32 = ((32 - 4 * k) + j) % 32
      BY <1>2, <2>1
    <3>2. n + j \in RORc(w, 4) <=> ((32 - 4 * k) + j) % 32 \in w
      <4> DEFINE c == n + j
      <4>1. c \in RORc(w, 4) <=> (c + 4) % 32 \in w
        <5> HIDE DEF c
        <5> QED
          BY <3>1, RotatedBit DEF c
      <4> QED
        BY <3>1, <4>1
    <3>3. 6 * k - j \in k48 <=> n + j \in keys[at]
      <4>1. KeyPlace(k, j) = n + j /\ at + 0 = at
        BY <1>3 DEF KeyPlace
      <4> QED
        BY <1>3, <4>1 DEF KeyFits
    <3>4. n + j \in v <=> ~(n + j \in RORc(w, 4) <=> n + j \in keys[at])
      BY DEF Xor
    <3> QED
      BY <1>2, <3>2, <3>3, <3>4
  <2> QED
    BY <1>1, <1>3, <2>2, <2>3 DEF in
<1>4. CASE k % 2 # 1
  <2> DEFINE n == 32 - 4 * k
             v == Xor(w, keys[at + 1])
  <2>1. n \in 0 .. 24
    BY <1>4
  <2>2. SixAt(v, n) \in SUBSET Six /\ \A j \in Six : j \in SixAt(v, n) <=> n + j \in v
    <3> HIDE DEF n, v
    <3> QED
      BY <2>1, SixBits
  <2>3. ASSUME NEW j \in Six PROVE j \in in <=> n + j \in v
    <3>1. n + j \in 0 .. 31 /\ (n + j) % 32 = n + j
      BY <1>2, <2>1
    <3>3. 6 * k - j \in k48 <=> n + j \in keys[at + 1]
      <4>1. KeyPlace(k, j) = n + j
        BY <1>4 DEF KeyPlace
      <4> QED
        BY <1>4, <4>1 DEF KeyFits
    <3>4. n + j \in v <=> ~(n + j \in w <=> n + j \in keys[at + 1])
      BY DEF Xor
    <3> QED
      BY <1>2, <3>1, <3>3, <3>4
  <2> QED
    BY <1>1, <1>4, <2>2, <2>3 DEF in
<1> QED
  BY <1>3, <1>4

(* A lookup gives the bits of P that come from its box.                    *)
LEMMA TableP == \A o \in 1 .. 32 : P[o] \in 1 .. 32
BY DEF P

LEMMA BitOfLookup ==
  ASSUME NEW o \in 1 .. 32, NEW k \in 1 .. 8, NEW six
  PROVE  (33 - o) % 32 \in SP(k, six)
           <=> (P[o] - 1) \div 4 + 1 = k /\ 4 * k - P[o] \in SBox[k][six]
<1>1. \A q \in 1 .. 32 : (33 - q) % 32 = (33 - o) % 32 <=> q = o
  OBVIOUS
<1>2. (33 - o) % 32 \in SP(k, six)
        <=> P[o] \in 4 * k - 3 .. 4 * k /\ 4 * k - P[o] \in SBox[k][six]
  <2> HIDE DEF P
  <2> QED
    BY <1>1 DEF SP
<1>3. \A n \in 1 .. 32 : n \in 4 * k - 3 .. 4 * k <=> (n - 1) \div 4 + 1 = k
  OBVIOUS
<1> QED
  BY <1>2, <1>3, TableP

(* A round of the code is the cipher function.                             *)
LEMMA RoundIsCipherFunction ==
  ASSUME NEW w \in DesWord, NEW keys, NEW at \in Nat, NEW k48,
         KeyFits(keys, at, k48)
  PROVE  HalfOf(RoundWord(w, keys, at)) = f(HalfOf(w), k48)
<1> DEFINE x == Xor(Selected(E, HalfOf(w)), k48)
           boxes == {o \in 1 .. 32 :
                       LET box == ((o - 1) \div 4) + 1
                       IN  4 * box - o \in SBox[box][BoxInput(x, box)]}
           w0 == Xor(RORc(w, 4), keys[at])
           w1 == Xor(w, keys[at + 1])
<1>1. f(HalfOf(w), k48) = Selected(P, boxes)
  BY DEF f
<1>2. RoundWord(w, keys, at) = UNION {SP(k, BoxInput(x, k)) : k \in 1 .. 8}
  <2>1. /\ BoxInput(x, 1) = SixAt(w0, 24) /\ BoxInput(x, 2) = SixAt(w1, 24)
        /\ BoxInput(x, 3) = SixAt(w0, 16) /\ BoxInput(x, 4) = SixAt(w1, 16)
        /\ BoxInput(x, 5) = SixAt(w0, 8) /\ BoxInput(x, 6) = SixAt(w1, 8)
        /\ BoxInput(x, 7) = SixAt(w0, 0) /\ BoxInput(x, 8) = SixAt(w1, 0)
    <3>1. \A k \in 1 .. 8 : BoxInput(x, k) = IF k % 2 = 1 THEN SixAt(w0, 28 - 4 * k)
                                             ELSE SixAt(w1, 32 - 4 * k)
      BY BoxGetsInput
    <3> HIDE DEF x, w0, w1
    <3> QED
      BY <3>1
  <2>2. RoundWord(w, keys, at)
          = UNION {SP(7, SixAt(w0, 0)), SP(5, SixAt(w0, 8)),
                   SP(3, SixAt(w0, 16)), SP(1, SixAt(w0, 24)),
                   SP(8, SixAt(w1, 0)), SP(6, SixAt(w1, 8)),
                   SP(4, SixAt(w1, 16)), SP(2, SixAt(w1, 24))}
    BY DEF RoundWord
  <2> HIDE DEF x, w0, w1
  <2> QED
    BY <2>1, <2>2
<1> HIDE DEF x
<1>3. ASSUME NEW o \in 1 .. 32
      PROVE  (33 - o) % 32 \in RoundWord(w, keys, at) <=> P[o] \in boxes
  <2> DEFINE box == ((P[o] - 1) \div 4) + 1
  <2>1. P[o] \in 1 .. 32 /\ box \in 1 .. 8
    <3>1. \A n \in 1 .. 32 : ((n - 1) \div 4) + 1 \in 1 .. 8
      OBVIOUS
    <3> QED
      BY <3>1, TableP
  <2>2. P[o] \in boxes <=> 4 * box - P[o] \in SBox[box][BoxInput(x, box)]
    BY <2>1
  <2>3. ASSUME NEW k \in 1 .. 8
        PROVE  (33 - o) % 32 \in SP(k, BoxInput(x, k))
                 <=> box = k /\ 4 * k - P[o] \in SBox[k][BoxInput(x, k)]
    BY BitOfLookup
  <2> HIDE DEF box, boxes
  <2> QED
    BY <1>2, <2>1, <2>2, <2>3
<1> HIDE DEF boxes
<1>4. DOMAIN P = 1 .. 32
  BY DEF P
<1> QED
  BY <1>1, <1>3, <1>4 DEF HalfOf, Selected

(* Two rounds of the standard from their keys; halves of an XOR.           *)
LEMMA HalfOfXor ==
  ASSUME NEW a, NEW b
  PROVE  HalfOf(Xor(a, b)) = Xor(HalfOf(a), HalfOf(b))
BY DEF HalfOf, Xor

DesRound(h, k48) == <<h[2], Xor(h[1], f(h[2], k48))>>

LEMMA IterationIsTwoRounds ==
  ASSUME NEW l \in DesWord, NEW r \in DesWord, NEW keys, NEW n \in Nat,
         NEW ka, NEW kb, KeyFits(keys, 4 * n, ka), KeyFits(keys, 4 * n + 2, kb)
  PROVE  LET next == Iteration(keys, n, l, r)
         IN  <<HalfOf(next[1]), HalfOf(next[2])>>
               = DesRound(DesRound(<<HalfOf(l), HalfOf(r)>>, ka), kb)
<1> DEFINE l1 == Xor(l, RoundWord(r, keys, 4 * n))
           r1 == Xor(r, RoundWord(l1, keys, 4 * n + 2))
<1>1. Iteration(keys, n, l, r) = <<l1, r1>>
  BY DEF Iteration
<1>2. l1 \in DesWord
  BY RoundWordType, XorWords
<1>3. 4 * n \in Nat /\ 4 * n + 2 \in Nat
  OBVIOUS
<1>4. HalfOf(l1) = Xor(HalfOf(l), f(HalfOf(r), ka))
  BY <1>3, RoundIsCipherFunction, HalfOfXor
<1>5. HalfOf(r1) = Xor(HalfOf(r), f(HalfOf(l1), kb))
  <2> HIDE DEF l1
  <2> QED
    BY <1>2, <1>3, RoundIsCipherFunction, HalfOfXor
<1> HIDE DEF l1, r1
<1>6. DesRound(<<HalfOf(l), HalfOf(r)>>, ka) = <<HalfOf(r), HalfOf(l1)>>
  BY <1>4 DEF DesRound
<1>7. DesRound(<<HalfOf(r), HalfOf(l1)>>, kb) = <<HalfOf(l1), HalfOf(r1)>>
  BY <1>5 DEF DesRound
<1> QED
  BY <1>1, <1>6, <1>7

-----------------------------------------------------------------------------
(* The shifts of the standard and the totals of the code.                  *)

(* Both halves of a key shifted by t.                                      *)
TurnedPlace(o, t) == 28 * ((o - 1) \div 28) + ((((o - 1) % 28) + t) % 28) + 1
Turned(cd, t) == {o \in 1 .. 56 : TurnedPlace(o, t) \in cd}

LEMMA PlacesTurn ==
  ASSUME NEW o \in 1 .. 56, NEW a \in 0 .. 28, NEW b \in 0 .. 2
  PROVE  /\ TurnedPlace(o, b) \in 1 .. 56
         /\ TurnedPlace(TurnedPlace(o, b), a) = TurnedPlace(o, a + b)
         /\ TurnedPlace(o, 0) = o
<1>1. PICK h \in 0 .. 1, p \in 0 .. 27 : o = 28 * h + p + 1
  <2>1. o - 1 = 28 * ((o - 1) \div 28) + ((o - 1) % 28)
        /\ (o - 1) \div 28 \in 0 .. 1 /\ (o - 1) % 28 \in 0 .. 27
    OBVIOUS
  <2> QED
    BY <2>1
<1>2. \A q \in 0 .. 27, t \in 0 .. 30 : TurnedPlace(28 * h + q + 1, t) = 28 * h + ((q + t) % 28) + 1
  <2> TAKE q \in 0 .. 27, t \in 0 .. 30
  <2>1. (28 * h + q + 1) - 1 = 28 * h + q /\ (28 * h + q) \div 28 = h
        /\ (28 * h + q) % 28 = q
    OBVIOUS
  <2> QED
    BY <2>1 DEF TurnedPlace
<1>3. (p + b) % 28 \in 0 .. 27 /\ (((p + b) % 28) + a) % 28 = (p + (a + b)) % 28
      /\ (p + 0) % 28 = p
  OBVIOUS
<1>4. TurnedPlace(o, b) = 28 * h + ((p + b) % 28) + 1 /\ TurnedPlace(o, 0) = o
      /\ TurnedPlace(o, a + b) = 28 * h + ((p + (a + b)) % 28) + 1
  <2> DEFINE c == a + b
             z == 0
  <2>1. b \in 0 .. 30 /\ c \in 0 .. 30 /\ z \in 0 .. 30
    OBVIOUS
  <2>2. 28 * h + ((p + z) % 28) + 1 = o
    BY <1>1, <1>3
  <2> HIDE DEF c, z
  <2>3. TurnedPlace(o, b) = 28 * h + ((p + b) % 28) + 1
    BY <1>1, <1>2, <2>1
  <2>4. TurnedPlace(o, c) = 28 * h + ((p + c) % 28) + 1
    BY <1>1, <1>2, <2>1
  <2>5. TurnedPlace(o, z) = o
    BY <1>1, <1>2, <2>1, <2>2
  <2> QED
    BY <2>3, <2>4, <2>5 DEF c, z
<1>5. TurnedPlace(28 * h + ((p + b) % 28) + 1, a) = 28 * h + ((((p + b) % 28) + a) % 28) + 1
  <2> DEFINE q == (p + b) % 28
  <2>1. q \in 0 .. 27 /\ a \in 0 .. 30
    BY <1>3
  <2> HIDE DEF q
  <2>2. TurnedPlace(28 * h + q + 1, a) = 28 * h + ((q + a) % 28) + 1
    BY <1>2, <2>1
  <2> QED
    BY <2>2 DEF q
<1> QED
  BY <1>1, <1>3, <1>4, <1>5

LEMMA TurnsAdd ==
  ASSUME NEW cd \in SUBSET (1 .. 56), NEW a \in 0 .. 28
  PROVE  /\ \A b \in 0 .. 2 : Turned(Turned(cd, a), b) = Turned(cd, a + b)
         /\ Turned(cd, 0) = cd
         /\ LeftShift(cd) = Turned(cd, 1)
<1>1. \A b \in 0 .. 2 : Turned(Turned(cd, a), b) = Turned(cd, a + b)
  <2> TAKE b \in 0 .. 2
  <2>1. \A o \in 1 .. 56 : /\ TurnedPlace(o, b) \in 1 .. 56
                            /\ TurnedPlace(TurnedPlace(o, b), a) = TurnedPlace(o, a + b)
    BY PlacesTurn
  <2> QED
    BY <2>1, Zenon DEF Turned
<1>2. Turned(cd, 0) = cd
  <2>1. 0 \in 0 .. 2
    OBVIOUS
  <2>2. \A o \in 1 .. 56 : TurnedPlace(o, 0) = o
    BY <2>1, PlacesTurn
  <2> QED
    BY <2>2, Zenon DEF Turned
<1>3. \A o \in 1 .. 56 : TurnedPlace(o, 1) = IF o % 28 = 0 THEN o - 27 ELSE o + 1
  <2> TAKE o \in 1 .. 56
  <2>1. CASE o \in 1 .. 28
    <3>1. (o - 1) \div 28 = 0 /\ (o - 1) % 28 = o - 1
      BY <2>1
    <3> QED
      BY <2>1, <3>1 DEF TurnedPlace
  <2>2. CASE o \in 29 .. 56
    <3>1. (o - 1) \div 28 = 1 /\ (o - 1) % 28 = o - 29
      BY <2>2
    <3> QED
      BY <2>2, <3>1 DEF TurnedPlace
  <2> QED
    BY <2>1, <2>2
<1>4. LeftShift(cd) = Turned(cd, 1)
  BY <1>3 DEF LeftShift, Turned
<1> QED
  BY <1>1, <1>2, <1>4

(* The table of the code holds the shifts added up.                        *)
Total(n) == IF n = 0 THEN 0 ELSE totrot[n - 1]

LEMMA TotalsAreSums ==
  /\ Total(0) = 0
  /\ \A n \in 1 .. 16 : /\ Total(n) = Total(n - 1) + Shifts[n]
                        /\ Total(n) \in 0 .. 28 /\ Total(n - 1) \in 0 .. 28
                        /\ Shifts[n] \in 1 .. 2
BY DEF Total, totrot, FromZero, Shifts

LEMMA ShiftsAdd ==
  ASSUME NEW cd \in SUBSET (1 .. 56), NEW n \in 1 .. 16
  PROVE  LeftShifts(Turned(cd, Total(n - 1)), Shifts[n]) = Turned(cd, Total(n))
<1> DEFINE t == Total(n - 1)
           s == Shifts[n]
           x == Turned(cd, t)
<1>1. t \in 0 .. 28 /\ s \in 1 .. 2 /\ Total(n) = t + s
  BY TotalsAreSums
<1> HIDE DEF t, s
<1>2. x \in SUBSET (1 .. 56)
  BY DEF Turned
<1>3. \A b \in 0 .. 2 : Turned(x, b) = Turned(cd, t + b)
  BY <1>1, TurnsAdd
<1> HIDE DEF x
<1>4. LeftShift(x) = Turned(x, 1)
  <2> DEFINE a == 0
  <2>1. a \in 0 .. 28
    OBVIOUS
  <2> HIDE DEF a
  <2> QED
    BY <1>2, <2>1, TurnsAdd
<1>5. CASE s = 1
  BY <1>1, <1>3, <1>4, <1>5 DEF LeftShifts, x, t, s
<1>6. CASE s = 2
  <2>1. Turned(x, 1) \in SUBSET (1 .. 56)
    BY DEF Turned
  <2>2. Turned(Turned(x, 1), 1) = Turned(x, 1 + 1)
    <3> DEFINE a == 1
    <3>1. a \in 0 .. 28 /\ a \in 0 .. 2
      OBVIOUS
    <3> HIDE DEF a
    <3>2. Turned(Turned(x, a), a) = Turned(x, a + a)
      BY <1>2, <3>1, TurnsAdd
    <3> QED
      BY <3>2 DEF a
  <2>3. LeftShift(Turned(x, 1)) = Turned(Turned(x, 1), 1)
    <3> DEFINE a == 0
               y == Turned(x, 1)
    <3>1. a \in 0 .. 28 /\ y \in SUBSET (1 .. 56)
      BY <2>1
    <3> HIDE DEF a, y
    <3>2. LeftShift(y) = Turned(y, 1)
      BY <3>1, TurnsAdd
    <3> QED
      BY <3>2 DEF y
  <2>4. LeftShifts(x, 2) = LeftShift(LeftShift(x))
    BY DEF LeftShifts
  <2>5. Turned(x, 1 + 1) = Turned(cd, t + 2)
    BY <1>3
  <2> QED
    BY <1>1, <1>4, <1>6, <2>2, <2>3, <2>4, <2>5 DEF x, t, s
<1> QED
  BY <1>1, <1>5, <1>6

(* The halves after n shifts are those of PC1 shifted by the total.        *)
LEMMA ShiftedKeysAre ==
  ASSUME NEW k
  PROVE  \A n \in 0 .. 16 : ShiftedKeys(k)[n] = Turned(Selected(PC1, k), Total(n))
<1> DEFINE cd0 == Selected(PC1, k)
           g == [n \in 0 .. 16 |-> Turned(cd0, Total(n))]
           Is(h) == h = [n \in 0 .. 16 |-> IF n = 0 THEN Selected(PC1, k)
                                           ELSE LeftShifts(h[n - 1], Shifts[n])]
           cd == CHOOSE h : Is(h)
<1>1. cd0 \in SUBSET (1 .. 56)
  <2>1. DOMAIN PC1 = 1 .. 56
    BY DEF PC1
  <2> QED
    BY <2>1 DEF Selected
<1>2. Is(g)
  <2>1. Turned(cd0, Total(0)) = cd0
    <3> DEFINE a == 0
    <3>1. a \in 0 .. 28
      OBVIOUS
    <3> HIDE DEF a, cd0
    <3>2. Turned(cd0, 0) = cd0
      BY <1>1, <3>1, TurnsAdd
    <3> QED
      BY <3>2, TotalsAreSums
  <2>2. ASSUME NEW n \in 1 .. 16
        PROVE  Turned(cd0, Total(n)) = LeftShifts(g[n - 1], Shifts[n])
    <3>1. g[n - 1] = Turned(cd0, Total(n - 1))
      OBVIOUS
    <3> HIDE DEF cd0, g
    <3> QED
      BY <1>1, <3>1, ShiftsAdd
  <2>3. g = [n \in 0 .. 16 |-> IF n = 0 THEN cd0 ELSE LeftShifts(g[n - 1], Shifts[n])]
    <3>1. \A n \in 0 .. 16 : Turned(cd0, Total(n))
            = IF n = 0 THEN cd0 ELSE LeftShifts(g[n - 1], Shifts[n])
      <4> HIDE DEF cd0, g
      <4> QED
        BY <2>1, <2>2
    <3> QED
      BY <3>1, Zenon
  <2> QED
    BY <2>3
<1>3. Is(cd)
  <2> HIDE DEF Is, g
  <2> QED
    BY <1>2
<1>4. ShiftedKeys(k) = cd
  BY DEF ShiftedKeys
<1> HIDE DEF cd
<1>5. cd[0] = cd0 /\ \A n \in 1 .. 16 : cd[n] = LeftShifts(cd[n - 1], Shifts[n])
  BY <1>3
<1> DEFINE S == {n \in Nat : n <= 16 => cd[n] = Turned(cd0, Total(n))}
<1>6. 0 \in S
  <2>1. Turned(cd0, Total(0)) = cd0
    <3> DEFINE a == 0
    <3>1. a \in 0 .. 28
      OBVIOUS
    <3> HIDE DEF a, cd0
    <3>2. Turned(cd0, 0) = cd0
      BY <1>1, <3>1, TurnsAdd
    <3> QED
      BY <3>2, TotalsAreSums
  <2> HIDE DEF cd0
  <2> QED
    BY <1>5, <2>1
<1>7. ASSUME NEW n \in S PROVE n + 1 \in S
  <2> SUFFICES ASSUME n + 1 <= 16 PROVE cd[n + 1] = Turned(cd0, Total(n + 1))
    OBVIOUS
  <2> DEFINE q == n + 1
  <2>1. q \in 1 .. 16 /\ q - 1 = n /\ cd[n] = Turned(cd0, Total(n))
    OBVIOUS
  <2> HIDE DEF q, cd0, S
  <2>2. cd[q] = LeftShifts(Turned(cd0, Total(q - 1)), Shifts[q])
    BY <1>5, <2>1
  <2>3. cd[q] = Turned(cd0, Total(q))
    BY <1>1, <2>1, <2>2, ShiftsAdd
  <2> QED
    BY <2>3 DEF q
<1>8. S = Nat
  <2>1. S \in SUBSET Nat
    OBVIOUS
  <2> HIDE DEF S
  <2> QED
    BY <1>6, <1>7, <2>1, Induction
<1>9. \A n \in 0 .. 16 : n \in S
  BY <1>8
<1> QED
  BY <1>4, <1>9

-----------------------------------------------------------------------------
(* The schedules of the code and the keys of the standard.                 *)

(* The tables of the code count from 0, those of the standard from 1.      *)
LEMMA TablesOfKeys ==
  /\ \A o \in 1 .. 56 : pc1[o - 1] \in 0 .. 63 /\ PC1[o] = pc1[o - 1] + 1
  /\ \A o \in 1 .. 48 : pc2[o - 1] \in 0 .. 55 /\ PC2[o] = pc2[o - 1] + 1
  /\ DOMAIN PC1 = 1 .. 56 /\ DOMAIN PC2 = 1 .. 48
<1>1. \A o \in 1 .. 56 : pc1[o - 1] \in 0 .. 63 /\ PC1[o] = pc1[o - 1] + 1
  BY DEF PC1, pc1, FromZero
<1>2. \A o \in 1 .. 48 : pc2[o - 1] \in 0 .. 55 /\ PC2[o] = pc2[o - 1] + 1
  BY DEF PC2, pc2, FromZero
<1>3. DOMAIN PC1 = 1 .. 56 /\ DOMAIN PC2 = 1 .. 48
  BY DEF PC1, PC2
<1> QED
  BY <1>1, <1>2, <1>3

(* The key of 64 bits that begins at a byte of the key of the code.        *)
KeyAt(k, offset) == {n \in 1 .. 64 : 8 * offset + n - 1 \in k.bits}

LEMMA ChosenBit ==
  ASSUME NEW k, NEW offset \in Nat, NEW o \in 1 .. 56
  PROVE  o - 1 \in Pc1m(k, offset) <=> o \in Selected(PC1, KeyAt(k, offset))
<1> DEFINE l == pc1[o - 1]
<1>1. l \in 0 .. 63 /\ PC1[o] = l + 1 /\ o - 1 \in 0 .. 55
  <2>1. o - 1 \in 0 .. 55
    OBVIOUS
  <2> QED
    BY <2>1, TablesOfKeys, Zenon
<1>2. o \in Selected(PC1, KeyAt(k, offset)) <=> l + 1 \in KeyAt(k, offset)
  BY <1>1, TablesOfKeys DEF Selected
<1>3. o - 1 \in Pc1m(k, offset) <=> KeyBit(k, offset, l)
  BY <1>1 DEF Pc1m
<1> HIDE DEF l
<1>4. (8 * (offset + (l \div 8)) + 7) - (7 - (l % 8)) = 8 * offset + (l + 1) - 1
  <2>1. l = 8 * (l \div 8) + (l % 8) /\ l \div 8 \in Nat /\ l % 8 \in Nat
    BY <1>1
  <2> QED
    BY <2>1
<1>5. l + 1 \in KeyAt(k, offset) <=> 8 * offset + (l + 1) - 1 \in k.bits
  BY <1>1 DEF KeyAt
<1> QED
  BY <1>2, <1>3, <1>4, <1>5 DEF KeyBit, bytebit

(* A word of kn holds the bits that PC2 chooses for half of a round key.   *)
LEMMA RawWord ==
  ASSUME NEW k, NEW offset \in Nat, NEW n \in 0 .. 15, NEW x \in 0 .. 1,
         NEW b \in 0 .. 23
  PROVE  b \in Kn(Pc1m(k, offset), EN0)[2 * n + x]
           <=> (24 - b) + 24 * x \in KeySchedule(KeyAt(k, offset))[n + 1]
<1> DEFINE key64 == KeyAt(k, offset)
           cd == Turned(Selected(PC1, key64), Total(n + 1))
           pcr == Rotated(Pc1m(k, offset), totrot[n])
           o == (24 - b) + 24 * x
<1>1. o \in 1 .. 48
  OBVIOUS
<1>2. KeySchedule(key64)[n + 1] = Selected(PC2, cd)
  <2> DEFINE m == n + 1
  <2>1. m \in 1 .. 16 /\ m \in 0 .. 16
    OBVIOUS
  <2> HIDE DEF m, key64
  <2>2. ShiftedKeys(key64)[m] = Turned(Selected(PC1, key64), Total(m))
    BY <2>1, ShiftedKeysAre
  <2>3. KeySchedule(key64)[m] = Selected(PC2, ShiftedKeys(key64)[m])
    BY <2>1 DEF KeySchedule
  <2> QED
    BY <2>2, <2>3 DEF m
<1>3. o \in KeySchedule(key64)[n + 1] <=> PC2[o] \in cd
  <2> HIDE DEF cd, o, key64
  <2> QED
    BY <1>1, <1>2, TablesOfKeys DEF Selected
<1>4. b \in Kn(Pc1m(k, offset), EN0)[2 * n + x] <=> pc2[o - 1] \in pcr
  <2> DEFINE m == 2 * n + x
  <2>1. m \in 0 .. 31 /\ m \div 2 = n /\ m % 2 = x
    OBVIOUS
  <2> HIDE DEF m, pcr
  <2>2. Kn(Pc1m(k, offset), EN0)[m]
          = {bigbyte(j) : j \in {j \in 0 .. 23 : pc2[j + 24 * x] \in pcr}}
    BY <2>1 DEF Kn, EN0, DE1, pcr
  <2>3. \A j \in 0 .. 23 : bigbyte(j) = b <=> j = 23 - b
    BY DEF bigbyte
  <2>4. 23 - b \in 0 .. 23 /\ (23 - b) + 24 * x = o - 1
    OBVIOUS
  <2> HIDE DEF o
  <2> QED
    BY <2>2, <2>3, <2>4 DEF m
<1>5. \A p \in 1 .. 56 : p - 1 \in pcr <=> p \in cd
  <2> DEFINE t == totrot[n]
             base == Selected(PC1, key64)
  <2>1. t \in 0 .. 28 /\ Total(n + 1) = t
    <3> DEFINE m == n + 1
    <3>1. m \in 1 .. 16 /\ m - 1 = n /\ m # 0
      OBVIOUS
    <3> HIDE DEF m
    <3>2. Total(m) \in 0 .. 28 /\ Total(m) = totrot[m - 1]
      BY <3>1, TotalsAreSums DEF Total
    <3> QED
      BY <3>1, <3>2 DEF m
  <2> HIDE DEF t
  <2> TAKE p \in 1 .. 56
  <2> DEFINE q == TurnedPlace(p, t)
  <2>2. q - 1 = (28 * ((p - 1) \div 28)) + ((((p - 1) % 28) + t) % 28)
        /\ q \in 1 .. 56 /\ p - 1 \in 0 .. 55
    <3>1. \A j \in 0 .. 55, c \in 0 .. 28 :
            /\ 28 * (j \div 28) + (((j % 28) + c) % 28) \in 0 .. 55
      <4> TAKE j \in 0 .. 55, c \in 0 .. 28
      <4>1. j \div 28 \in 0 .. 1 /\ ((j % 28) + c) % 28 \in 0 .. 27
        OBVIOUS
      <4> QED
        BY <4>1
    <3>2. p - 1 \in 0 .. 55
      OBVIOUS
    <3>3. 28 * ((p - 1) \div 28) + ((((p - 1) % 28) + t) % 28) \in 0 .. 55
      BY <2>1, <3>1, <3>2
    <3> QED
      BY <3>2, <3>3 DEF TurnedPlace
  <2>3. p - 1 \in pcr <=> q - 1 \in Pc1m(k, offset)
    BY <2>2 DEF Rotated, t
  <2>4. p \in cd <=> q \in base
    BY <2>1 DEF Turned
  <2>5. q - 1 \in Pc1m(k, offset) <=> q \in base
    <3> HIDE DEF q
    <3> QED
      BY <2>2, ChosenBit
  <2> QED
    BY <2>3, <2>4, <2>5
<1>6. PC2[o] \in 1 .. 56 /\ PC2[o] - 1 = pc2[o - 1]
  <2>1. \A c \in 0 .. 55 : c + 1 \in 1 .. 56 /\ (c + 1) - 1 = c
    OBVIOUS
  <2> HIDE DEF o
  <2>2. pc2[o - 1] \in 0 .. 55 /\ PC2[o] = pc2[o - 1] + 1
    BY <1>1, TablesOfKeys, Zenon
  <2> QED
    BY <2>1, <2>2
<1> QED
  BY <1>3, <1>4, <1>5, <1>6

(* cookey moves six bits.                                                  *)
LEMMA BitOfField ==
  ASSUME NEW w, NEW from \in 0 .. 18, NEW to \in 0 .. 24, NEW c \in 0 .. 31
  PROVE  c \in Field(w, from, to)
           <=> c \in to .. to + 5 /\ (c - to) + from \in w
<1>1. \A b \in from .. from + 5 : (b + to) - from = c <=> b = (c - to) + from
  OBVIOUS
<1>2. (c - to) + from \in from .. from + 5 <=> c \in to .. to + 5
  OBVIOUS
<1> QED
  BY <1>1, <1>2 DEF Field

(* The two words that cookey makes for round n hold its key.               *)
LEMMA CookedFits ==
  ASSUME NEW k, NEW offset \in Nat, NEW n \in 0 .. 15
  PROVE  KeyFits(deskey(k, offset, EN0), 2 * n,
                 KeySchedule(KeyAt(k, offset))[n + 1])
<1> DEFINE kn == Kn(Pc1m(k, offset), EN0)
           raw0 == kn[2 * n]
           raw1 == kn[2 * n + 1]
           k48 == KeySchedule(KeyAt(k, offset))[n + 1]
           cooked == cookey(kn)
<1>1. \A b \in 0 .. 23 : /\ b \in raw0 <=> 24 - b \in k48
                         /\ b \in raw1 <=> 48 - b \in k48
  <2> TAKE b \in 0 .. 23
  <2> DEFINE zero == 0
             one == 1
  <2>1. zero \in 0 .. 1 /\ one \in 0 .. 1
    OBVIOUS
  <2>2. /\ 2 * n + zero = 2 * n /\ 2 * n + one = 2 * n + 1
        /\ (24 - b) + 24 * zero = 24 - b /\ (24 - b) + 24 * one = 48 - b
    OBVIOUS
  <2> HIDE DEF zero, one
  <2>3. b \in kn[2 * n + zero] <=> (24 - b) + 24 * zero \in k48
    BY <2>1, RawWord
  <2>4. b \in kn[2 * n + one] <=> (24 - b) + 24 * one \in k48
    BY <2>1, RawWord
  <2> QED
    BY <2>2, <2>3, <2>4
<1>2. /\ cooked[2 * n] = Field(raw0, 18, 24) \cup Field(raw0, 6, 16)
                         \cup Field(raw1, 18, 8) \cup Field(raw1, 6, 0)
      /\ cooked[2 * n + 1] = Field(raw0, 12, 24) \cup Field(raw0, 0, 16)
                             \cup Field(raw1, 12, 8) \cup Field(raw1, 0, 0)
  <2>1. /\ 2 * n \in 0 .. 31 /\ 2 * n + 1 \in 0 .. 31
        /\ (2 * n) \div 2 = n /\ (2 * n + 1) \div 2 = n
        /\ (2 * n) % 2 = 0 /\ (2 * n + 1) % 2 = 1
    OBVIOUS
  <2> HIDE DEF kn
  <2> QED
    BY <2>1 DEF cookey
<1> HIDE DEF raw0, raw1, cooked, k48, kn
<1>3. ASSUME NEW j \in Six
      PROVE  /\ 24 + j \in cooked[2 * n] <=> 6 - j \in k48
             /\ 16 + j \in cooked[2 * n] <=> 18 - j \in k48
             /\ 8 + j \in cooked[2 * n] <=> 30 - j \in k48
             /\ j \in cooked[2 * n] <=> 42 - j \in k48
             /\ 24 + j \in cooked[2 * n + 1] <=> 12 - j \in k48
             /\ 16 + j \in cooked[2 * n + 1] <=> 24 - j \in k48
             /\ 8 + j \in cooked[2 * n + 1] <=> 36 - j \in k48
             /\ j \in cooked[2 * n + 1] <=> 48 - j \in k48
  <2>1. j \in 0 .. 5
    BY DEF Six
  <2>2. ASSUME NEW c \in 0 .. 31
        PROVE  /\ c \in Field(raw0, 18, 24) <=> c \in 24 .. 29 /\ c - 6 \in raw0
               /\ c \in Field(raw0, 6, 16) <=> c \in 16 .. 21 /\ c - 10 \in raw0
               /\ c \in Field(raw1, 18, 8) <=> c \in 8 .. 13 /\ c + 10 \in raw1
               /\ c \in Field(raw1, 6, 0) <=> c \in 0 .. 5 /\ c + 6 \in raw1
               /\ c \in Field(raw0, 12, 24) <=> c \in 24 .. 29 /\ c - 12 \in raw0
               /\ c \in Field(raw0, 0, 16) <=> c \in 16 .. 21 /\ c - 16 \in raw0
               /\ c \in Field(raw1, 12, 8) <=> c \in 8 .. 13 /\ c + 4 \in raw1
               /\ c \in Field(raw1, 0, 0) <=> c \in 0 .. 5 /\ c \in raw1
    <3>1. ASSUME NEW w, NEW from \in 0 .. 18, NEW to \in 0 .. 24
          PROVE  c \in Field(w, from, to)
                   <=> c \in to .. to + 5 /\ (c - to) + from \in w
      BY BitOfField
    <3>2. ASSUME NEW from \in 0 .. 18, NEW to \in 0 .. 24
          PROVE  (c - to) + from = c + (from - to)
      OBVIOUS
    <3>3. c \in Field(raw0, 18, 24) <=> c \in 24 .. 29 /\ c - 6 \in raw0
      <4>1. c \in Field(raw0, 18, 24) <=> c \in 24 .. 24 + 5 /\ (c - 24) + 18 \in raw0
        BY <3>1, SMT
      <4>2. (c - 24) + 18 = c - 6 /\ 24 + 5 = 29
        OBVIOUS
      <4> QED
        BY <4>1, <4>2
    <3>4. c \in Field(raw0, 6, 16) <=> c \in 16 .. 21 /\ c - 10 \in raw0
      <4>1. c \in Field(raw0, 6, 16) <=> c \in 16 .. 16 + 5 /\ (c - 16) + 6 \in raw0
        BY <3>1, SMT
      <4>2. (c - 16) + 6 = c - 10 /\ 16 + 5 = 21
        OBVIOUS
      <4> QED
        BY <4>1, <4>2
    <3>5. c \in Field(raw1, 18, 8) <=> c \in 8 .. 13 /\ c + 10 \in raw1
      <4>1. c \in Field(raw1, 18, 8) <=> c \in 8 .. 8 + 5 /\ (c - 8) + 18 \in raw1
        BY <3>1, SMT
      <4>2. (c - 8) + 18 = c + 10 /\ 8 + 5 = 13
        OBVIOUS
      <4> QED
        BY <4>1, <4>2
    <3>6. c \in Field(raw1, 6, 0) <=> c \in 0 .. 5 /\ c + 6 \in raw1
      <4>1. c \in Field(raw1, 6, 0) <=> c \in 0 .. 0 + 5 /\ (c - 0) + 6 \in raw1
        BY <3>1, SMT
      <4>2. (c - 0) + 6 = c + 6 /\ 0 + 5 = 5
        OBVIOUS
      <4> QED
        BY <4>1, <4>2
    <3>7. c \in Field(raw0, 12, 24) <=> c \in 24 .. 29 /\ c - 12 \in raw0
      <4>1. c \in Field(raw0, 12, 24) <=> c \in 24 .. 24 + 5 /\ (c - 24) + 12 \in raw0
        BY <3>1, SMT
      <4>2. (c - 24) + 12 = c - 12 /\ 24 + 5 = 29
        OBVIOUS
      <4> QED
        BY <4>1, <4>2
    <3>8. c \in Field(raw0, 0, 16) <=> c \in 16 .. 21 /\ c - 16 \in raw0
      <4>1. c \in Field(raw0, 0, 16) <=> c \in 16 .. 16 + 5 /\ (c - 16) + 0 \in raw0
        BY <3>1, SMT
      <4>2. (c - 16) + 0 = c - 16 /\ 16 + 5 = 21
        OBVIOUS
      <4> QED
        BY <4>1, <4>2
    <3>9. c \in Field(raw1, 12, 8) <=> c \in 8 .. 13 /\ c + 4 \in raw1
      <4>1. c \in Field(raw1, 12, 8) <=> c \in 8 .. 8 + 5 /\ (c - 8) + 12 \in raw1
        BY <3>1, SMT
      <4>2. (c - 8) + 12 = c + 4 /\ 8 + 5 = 13
        OBVIOUS
      <4> QED
        BY <4>1, <4>2
    <3>10. c \in Field(raw1, 0, 0) <=> c \in 0 .. 5 /\ c \in raw1
      <4>1. c \in Field(raw1, 0, 0) <=> c \in 0 .. 0 + 5 /\ (c - 0) + 0 \in raw1
        BY <3>1, SMT
      <4>2. (c - 0) + 0 = c /\ 0 + 5 = 5
        OBVIOUS
      <4> QED
        BY <4>1, <4>2
    <3> QED
      BY <3>3, <3>4, <3>5, <3>6, <3>7, <3>8, <3>9, <3>10
  <2>3. /\ 24 + j \in cooked[2 * n] <=> 18 + j \in raw0
        /\ 16 + j \in cooked[2 * n] <=> 6 + j \in raw0
        /\ 8 + j \in cooked[2 * n] <=> 18 + j \in raw1
        /\ j \in cooked[2 * n] <=> 6 + j \in raw1
    BY <1>2, <2>1, <2>2
  <2>4. /\ 24 + j \in cooked[2 * n + 1] <=> 12 + j \in raw0
        /\ 16 + j \in cooked[2 * n + 1] <=> j \in raw0
        /\ 8 + j \in cooked[2 * n + 1] <=> 12 + j \in raw1
        /\ j \in cooked[2 * n + 1] <=> j \in raw1
    BY <1>2, <2>1, <2>2
  <2>5. /\ 18 + j \in raw0 <=> 6 - j \in k48
        /\ 6 + j \in raw0 <=> 18 - j \in k48
        /\ 12 + j \in raw0 <=> 12 - j \in k48
        /\ j \in raw0 <=> 24 - j \in k48
    BY <1>1, <2>1
  <2>6. /\ 18 + j \in raw1 <=> 30 - j \in k48
        /\ 6 + j \in raw1 <=> 42 - j \in k48
        /\ 12 + j \in raw1 <=> 36 - j \in k48
        /\ j \in raw1 <=> 48 - j \in k48
    BY <1>1, <2>1
  <2> QED
    BY <2>3, <2>4, <2>5, <2>6
<1>4. ASSUME NEW b \in 1 .. 8, NEW j \in Six
      PROVE  6 * b - j \in k48
               <=> KeyPlace(b, j) \in cooked[2 * n + (IF b % 2 = 1 THEN 0 ELSE 1)]
  <2>1. 2 * n + 0 = 2 * n /\ j \in 0 .. 5
    BY DEF Six
  <2>2. CASE b = 1
    BY <1>3, <2>1, <2>2 DEF KeyPlace
  <2>3. CASE b = 2
    BY <1>3, <2>1, <2>3 DEF KeyPlace
  <2>4. CASE b = 3
    BY <1>3, <2>1, <2>4 DEF KeyPlace
  <2>5. CASE b = 4
    BY <1>3, <2>1, <2>5 DEF KeyPlace
  <2>6. CASE b = 5
    BY <1>3, <2>1, <2>6 DEF KeyPlace
  <2>7. CASE b = 6
    BY <1>3, <2>1, <2>7 DEF KeyPlace
  <2>8. CASE b = 7
    BY <1>3, <2>1, <2>8 DEF KeyPlace
  <2>9. CASE b = 8
    BY <1>3, <2>1, <2>9 DEF KeyPlace
  <2> QED
    BY <2>2, <2>3, <2>4, <2>5, <2>6, <2>7, <2>8, <2>9
<1> QED
  BY <1>4 DEF KeyFits, deskey, cooked, kn, k48

(* The words of either direction.                                          *)
LEMMA FitsAnotherSchedule ==
  ASSUME NEW k1, NEW k2, NEW a \in Nat, NEW b \in Nat, NEW k48,
         k1[a] = k2[b], k1[a + 1] = k2[b + 1], KeyFits(k2, b, k48)
  PROVE  KeyFits(k1, a, k48)
<1>1. k1[a + 0] = k2[b + 0]
  OBVIOUS
<1> QED
  BY <1>1 DEF KeyFits

StandardKeys(k, offset, edf) ==
  [n \in 1 .. 16 |-> KeySchedule(KeyAt(k, offset))[IF edf = EN0 THEN n ELSE 17 - n]]

LEMMA ScheduleFits ==
  ASSUME NEW k, NEW offset \in Nat, NEW edf \in {EN0, DE1}, NEW n \in 0 .. 15
  PROVE  KeyFits(deskey(k, offset, edf), 2 * n, StandardKeys(k, offset, edf)[n + 1])
<1>1. CASE edf = EN0
  BY <1>1, CookedFits DEF StandardKeys
<1>2. CASE edf = DE1
  <2> DEFINE m == 15 - n
             d == deskey(k, offset, DE1)
             e == deskey(k, offset, EN0)
             k48 == KeySchedule(KeyAt(k, offset))[m + 1]
             a == 2 * n
             b == 2 * m
  <2>1. m \in 0 .. 15 /\ a \in Nat /\ b \in Nat
    OBVIOUS
  <2>2. KeyFits(e, b, k48)
    <3> HIDE DEF m
    <3> QED
      BY <2>1, CookedFits
  <2>3. d[a] = e[b] /\ d[a + 1] = e[b + 1]
    <3> DEFINE zero == 0
               one == 1
    <3>1. zero \in 0 .. 1 /\ one \in 0 .. 1
          /\ 2 * n + zero = a /\ 2 * (15 - n) + zero = b
          /\ 2 * n + one = a + 1 /\ 2 * (15 - n) + one = b + 1
      OBVIOUS
    <3> HIDE DEF zero, one, a, b, m
    <3>2. d[2 * n + zero] = e[2 * (15 - n) + zero]
      BY <3>1, ScheduleReversed
    <3>3. d[2 * n + one] = e[2 * (15 - n) + one]
      BY <3>1, ScheduleReversed
    <3> QED
      BY <3>1, <3>2, <3>3
  <2>4. StandardKeys(k, offset, DE1)[n + 1] = k48
    <3>1. n + 1 \in 1 .. 16 /\ 17 - (n + 1) = m + 1 /\ DE1 # EN0
      BY DEF DE1, EN0
    <3> HIDE DEF m
    <3> QED
      BY <3>1 DEF StandardKeys
  <2> HIDE DEF d, e, a, b, k48
  <2>5. KeyFits(d, a, k48)
    BY <2>1, <2>2, <2>3, FitsAnotherSchedule
  <2> QED
    BY <1>2, <2>4, <2>5 DEF d, a
<1> QED
  BY <1>1, <1>2

-----------------------------------------------------------------------------
(* A call of desfunc is the cipher.                                        *)

HalfPairs == (SUBSET (1 .. 32)) \X (SUBSET (1 .. 32))

LEMMA RoundType ==
  ASSUME NEW h \in HalfPairs, NEW k48
  PROVE  DesRound(h, k48) \in HalfPairs
<1>1. f(h[2], k48) \in SUBSET (1 .. 32)
  <2>1. DOMAIN P = 1 .. 32
    BY DEF P
  <2> QED
    BY <2>1 DEF f, Selected
<1>2. h[1] \in SUBSET (1 .. 32) /\ h[2] \in SUBSET (1 .. 32)
  BY DEF HalfPairs
<1>3. Xor(h[1], f(h[2], k48)) \in SUBSET (1 .. 32)
  BY <1>1, <1>2 DEF Xor
<1> QED
  BY <1>2, <1>3 DEF DesRound, HalfPairs

(* What the recursion of the rounds makes.                                 *)
LEMMA DesRoundsAre ==
  ASSUME NEW ks, NEW x
  PROVE  /\ DesRounds(ks, x)[0] = Halves(Selected(IP, x))
         /\ \A n \in 1 .. 16 :
              DesRounds(ks, x)[n] = DesRound(DesRounds(ks, x)[n - 1], ks[n])
<1> DEFINE h0 == Halves(Selected(IP, x))
           step == [n \in Nat |-> [h \in HalfPairs |-> DesRound(h, ks[n + 1])]]
           Is(g) == g = [n \in 0 .. 16 |->
                           IF n = 0 THEN Halves(Selected(IP, x))
                           ELSE LET p == g[n - 1]
                                IN  <<p[2], Xor(p[1], f(p[2], ks[n]))>>]
           h == CHOOSE g : Is(g)
<1>1. h0 \in HalfPairs
  <2>1. Selected(IP, x) \subseteq 1 .. 64
    BY TableIP DEF Selected
  <2> HIDE DEF h0
  <2>2. {n - 32 : n \in Selected(IP, x) \cap 33 .. 64} \subseteq 1 .. 32
    BY <2>1
  <2> QED
    BY <2>2 DEF h0, Halves, HalfPairs
<1>2. step \in [Nat -> [HalfPairs -> HalfPairs]]
  BY RoundType
<1>3. PICK g0 : IsRecursive(g0, HalfPairs, h0, step)
  <2> HIDE DEF step, h0
  <2> QED
    BY <1>1, <1>2, Recursion
<1> DEFINE g == [n \in 0 .. 16 |-> g0[n]]
<1>4. g0[0] = h0 /\ \A n \in Nat : g0[n] \in HalfPairs /\ g0[n + 1] = DesRound(g0[n], ks[n + 1])
  <2>1. g0 \in [Nat -> HalfPairs] /\ g0[0] = h0 /\ \A n \in Nat : g0[n + 1] = step[n][g0[n]]
    <3> HIDE DEF step, h0
    <3> QED
      BY <1>3 DEF IsRecursive
  <2>2. \A n \in Nat : g0[n] \in HalfPairs
    BY <2>1
  <2>3. \A n \in Nat, q \in HalfPairs : step[n][q] = DesRound(q, ks[n + 1])
    OBVIOUS
  <2> HIDE DEF step, h0
  <2> QED
    BY <2>1, <2>2, <2>3
<1> HIDE DEF step, h0
<1>5. Is(g)
  <2>1. ASSUME NEW n \in 1 .. 16
        PROVE  g0[n] = DesRound(g[n - 1], ks[n])
    <3>1. n - 1 \in Nat /\ n - 1 \in 0 .. 16 /\ (n - 1) + 1 = n
      OBVIOUS
    <3>2. g[n - 1] = g0[n - 1]
      BY <3>1
    <3> HIDE DEF g
    <3> QED
      BY <1>4, <3>1, <3>2
  <2>2. ASSUME NEW n \in 0 .. 16
        PROVE  g0[n] = IF n = 0 THEN Halves(Selected(IP, x))
                       ELSE LET p == g[n - 1]
                            IN  <<p[2], Xor(p[1], f(p[2], ks[n]))>>
    <3>1. CASE n = 0
      <4> HIDE DEF g
      <4> QED
        BY <1>4, <3>1 DEF h0
    <3>2. CASE n # 0
      <4>1. n \in 1 .. 16
        BY <3>2
      <4>2. g0[n] = DesRound(g[n - 1], ks[n])
        BY <2>1, <4>1
      <4> HIDE DEF g
      <4> QED
        BY <3>2, <4>2, Zenon DEF DesRound
    <3> QED
      BY <3>1, <3>2
  <2>3. g = [n \in 0 .. 16 |-> IF n = 0 THEN Halves(Selected(IP, x))
                               ELSE LET p == g[n - 1]
                                    IN  <<p[2], Xor(p[1], f(p[2], ks[n]))>>]
    BY <2>2, Zenon
  <2> QED
    BY <2>3
<1>6. Is(h)
  <2> HIDE DEF Is, g
  <2> QED
    BY <1>5
<1>7. DesRounds(ks, x) = h
  BY DEF DesRounds
<1> HIDE DEF h
<1>8. h[0] = Halves(Selected(IP, x))
      /\ \A n \in 1 .. 16 : h[n] = <<h[n - 1][2], Xor(h[n - 1][1], f(h[n - 1][2], ks[n]))>>
  BY <1>6
<1> QED
  BY <1>7, <1>8 DEF DesRound

(* A schedule holds sixteen keys of the standard; leftt and right at every *)
(* test of the loop of one call of desfunc.                                *)
ScheduleHolds(keys, ks) == \A n \in 0 .. 15 : KeyFits(keys, 2 * n, ks[n + 1])
IsDesfunc(w, keys, x) ==
  /\ \A c \in 0 .. 8 : w[c] \in DesWord \X DesWord
  /\ w[0] = Enter(x)
  /\ \A c \in 0 .. 7 : w[c + 1] = Iteration(keys, c, w[c][1], w[c][2])

(* A call of desfunc: eight iterations are the sixteen rounds, and the     *)
(* whole is the cipher of the standard.                                    *)
LEMMA DesfuncIsCipher ==
  ASSUME NEW x \in SUBSET Bits64, NEW keys, NEW ks, ScheduleHolds(keys, ks),
         NEW w, IsDesfunc(w, keys, x)
  PROVE  Standard(Leave(w[8][1], w[8][2])) = Cipher(ks, Standard(x))
<1> DEFINE h == DesRounds(ks, Standard(x))
           Now(c) == <<HalfOf(w[c][1]), HalfOf(w[c][2])>>
           S == {c \in Nat : c <= 8 => h[2 * c] = Now(c)}
<1> USE DEF ScheduleHolds, IsDesfunc
<1>1. \A c \in 0 .. 8 : w[c][1] \in DesWord /\ w[c][2] \in DesWord
  OBVIOUS
<1>2. /\ h[0] = Halves(Selected(IP, Standard(x)))
      /\ \A n \in 1 .. 16 : h[n] = DesRound(h[n - 1], ks[n])
  BY DesRoundsAre
<1> HIDE DEF h
<1>3. 0 \in S
  <2>1. h[0] = Now(0)
    BY <1>2, EnterIsIP
  <2> QED
    BY <2>1
<1>4. ASSUME NEW c \in S PROVE c + 1 \in S
  <2> SUFFICES ASSUME c + 1 <= 8 PROVE h[2 * (c + 1)] = Now(c + 1)
    OBVIOUS
  <2> DEFINE a == 2 * c + 1
             b == 2 * c + 2
  <2>1. /\ c \in 0 .. 7 /\ c \in 0 .. 8 /\ c \in Nat
        /\ h[2 * c] = Now(c)
        /\ a \in 1 .. 16 /\ a - 1 = 2 * c /\ b \in 1 .. 16 /\ b - 1 = a
        /\ 2 * (c + 1) = b
    OBVIOUS
  <2>2. KeyFits(keys, 4 * c, ks[a]) /\ KeyFits(keys, 4 * c + 2, ks[b])
    <3> DEFINE m == 2 * c
               n == 2 * c + 1
    <3>1. m \in 0 .. 15 /\ 2 * m = 4 * c /\ m + 1 = a
          /\ n \in 0 .. 15 /\ 2 * n = 4 * c + 2 /\ n + 1 = b
      BY <2>1
    <3> HIDE DEF m, n, a, b
    <3>2. KeyFits(keys, 2 * m, ks[m + 1]) /\ KeyFits(keys, 2 * n, ks[n + 1])
      BY <3>1
    <3> QED
      BY <3>1, <3>2
  <2> DEFINE l == w[c][1]
             r == w[c][2]
             next == Iteration(keys, c, l, r)
             ka == ks[a]
             kb == ks[b]
  <2>3. l \in DesWord /\ r \in DesWord /\ w[c + 1] = next
    BY <1>1, <2>1
  <2>4. <<HalfOf(next[1]), HalfOf(next[2])>>
          = DesRound(DesRound(<<HalfOf(l), HalfOf(r)>>, ka), kb)
    <3> HIDE DEF l, r, ka, kb, a, b
    <3>1. KeyFits(keys, 4 * c, ka) /\ KeyFits(keys, 4 * c + 2, kb)
      BY <2>2 DEF ka, kb
    <3> QED
      BY <2>1, <2>3, <3>1, IterationIsTwoRounds
  <2>5. h[b] = DesRound(DesRound(h[2 * c], ka), kb)
    <3> HIDE DEF a, b
    <3>1. h[a] = DesRound(h[a - 1], ks[a]) /\ h[b] = DesRound(h[b - 1], ks[b])
      BY <1>2, <2>1
    <3> QED
      BY <2>1, <3>1
  <2>6. Now(c + 1) = <<HalfOf(next[1]), HalfOf(next[2])>>
    <3> HIDE DEF next
    <3> QED
      BY <2>3
  <2> HIDE DEF next, a, b, ka, kb
  <2> QED
    BY <2>1, <2>4, <2>5, <2>6
<1>5. S = Nat
  <2>1. S \in SUBSET Nat
    OBVIOUS
  <2> HIDE DEF S
  <2> QED
    BY <1>3, <1>4, <2>1, Induction
<1>6. h[16] = Now(8)
  <2>1. 8 \in S
    BY <1>5
  <2> QED
    BY <2>1
<1>7. Cipher(ks, Standard(x)) = {IP[o] : o \in FromHalves(<<h[16][2], h[16][1]>>)}
  BY DEF Cipher, h
<1>8. h[16][1] = HalfOf(w[8][1]) /\ h[16][2] = HalfOf(w[8][2])
  BY <1>6
<1>9. w[8][1] \in DesWord /\ w[8][2] \in DesWord
  BY <1>1
<1> QED
  BY <1>7, <1>8, <1>9, LeaveIsInverse

-----------------------------------------------------------------------------
(* What des3_encrypt stores.                                               *)

(* An encryption that has ended has stored the block that its history ends *)
(* with, and it was given the block that the history begins with.          *)
EncryptionStored ==
  ~decrypts /\ desTrace # <<>> =>
    desInput = desPlain /\ (desPc = "ready" => desOutput = Sealed)

LEMMA StoredStep ==
  ASSUME DesInv, EncryptionStored, [DesNext]_desVars
  PROVE  EncryptionStored'
<1> USE DEF EncryptionStored
<1>1. ASSUME UNCHANGED <<decrypts, desTrace, desInput, desPlain, desOutput, desPc>>
      PROVE  EncryptionStored'
  BY <1>1 DEF Sealed
<1>2. ASSUME NEW k \in DesKeys, DesRefuse(k)
      PROVE  EncryptionStored'
  BY <1>1, <1>2 DEF DesRefuse, desfuncVars
<1>3. ASSUME NEW k \in DesKeys, DesSetup(k)
      PROVE  EncryptionStored'
  BY <1>3 DEF DesSetup
<1>4. CASE SetupEk
  BY <1>1, <1>4 DEF SetupEk, desfuncVars
<1>5. CASE SetupDk
  <2>1. desTrace = <<>> /\ desTrace' = desTrace
    BY <1>5 DEF SetupDk, desfuncVars, DesInv, HistoryIsCurrent
  <2> QED
    BY <2>1
<1>6. ASSUME NEW x, NEW d \in BOOLEAN, Crypt(x, d)
      PROVE  EncryptionStored'
  <2>1. desInput' = x /\ (~d => desPlain' = x) /\ decrypts' = d /\ desPc' = "loop"
    BY <1>6 DEF Crypt
  <2> QED
    BY <2>1
<1>7. ASSUME desPc = "loop", desPc' = "loop", UNCHANGED <<decrypts, desInput, desPlain>>
      PROVE  EncryptionStored'
  <2>1. ~decrypts => desTrace # <<>>
    BY <1>7 DEF DesInv, HistoryIsCurrent, DesTypeOK, Tests
  <2> QED
    BY <1>7, <2>1
<1>8. CASE Iterate
  BY <1>7, <1>8 DEF Iterate
<1>9. CASE NextDesfunc
  BY <1>7, <1>9 DEF NextDesfunc
<1>10. CASE Store
  <2>1. /\ desPc = "loop" /\ Tests = 26 /\ desOutput' = Leave(leftt, right)
        /\ UNCHANGED <<decrypts, desTrace, desInput, desPlain>>
    BY <1>10 DEF Store, Tests
  <2>2. ~decrypts => desTrace # <<>> /\ desTrace[27] = <<leftt, right>>
    BY <2>1 DEF DesInv, HistoryIsCurrent
  <2>3. ~decrypts => Sealed' = Leave(leftt, right)
    BY <2>1, <2>2 DEF Sealed
  <2> QED
    BY <2>1, <2>2, <2>3
<1>11. CASE UNCHANGED desVars
  BY <1>1, <1>11 DEF desVars, desfuncVars
<1> QED
  BY <1>2, <1>3, <1>4, <1>5, <1>6, <1>8, <1>9, <1>10, <1>11 DEF DesNext

(* A call of desfunc in the history of an encryption.                      *)
LEMMA CallIsCipher ==
  ASSUME DesInv, desPc = "ready", ~decrypts, desTrace # <<>>,
         NEW s \in 0 .. 2, NEW x \in SUBSET Bits64,
         desTrace[9 * s + 1] = Enter(x),
         NEW offset \in Nat, NEW edf \in {EN0, DE1},
         EncryptionKey(s) = deskey(key, offset, edf)
  PROVE  /\ Leave(desTrace[9 * s + 9][1], desTrace[9 * s + 9][2]) \in SUBSET Bits64
         /\ Standard(Leave(desTrace[9 * s + 9][1], desTrace[9 * s + 9][2]))
              = Cipher(StandardKeys(key, offset, edf), Standard(x))
<1> USE DEF DesInv
<1>1. Len(desTrace) = 27 /\ desTrace \in Seq(DesWord \X DesWord)
  BY DEF HistoryIsCurrent, DesTypeOK
<1>2. ek[s] = EncryptionKey(s)
  BY DEF SchedulesAreMade
<1> DEFINE w == [c \in 0 .. 8 |-> desTrace[9 * s + c + 1]]
           keys == ek[s]
           ks == StandardKeys(key, offset, edf)
<1>3. \A c \in 0 .. 8 : 9 * s + c + 1 \in 1 .. 27 /\ w[c] = desTrace[9 * s + c + 1]
  OBVIOUS
<1>4. \A c \in 0 .. 8 : w[c] \in DesWord \X DesWord
  <2>1. ASSUME NEW m \in 1 .. 27
        PROVE  desTrace[m] \in DesWord \X DesWord
    <3>1. m \in 1 .. Len(desTrace)
      BY <1>1
    <3> HIDE DEF DesInv
    <3> QED
      BY <1>1, <3>1, HistoryWords
  <2> HIDE DEF w
  <2> QED
    BY <1>3, <2>1
<1>5. w[0] = Enter(x) /\ w[8] = desTrace[9 * s + 9]
  OBVIOUS
<1>6. ASSUME NEW c \in 0 .. 7
      PROVE  w[c + 1] = Iteration(keys, c, w[c][1], w[c][2])
  <2>1. /\ c \in 0 .. 8 /\ c + 1 \in 0 .. 8 /\ c # 8
        /\ 9 * s + c + 1 \in 1 .. 26 /\ 9 * s + (c + 1) + 1 = 9 * s + c + 2
    OBVIOUS
  <2>4. 9 * s + c + 1 \in 1 .. Len(desTrace) - 1
    BY <1>1, <2>1
  <2>5. HistorySteps
    OBVIOUS
  <2>2. desTrace[9 * s + c + 2]
          = Iteration(ek[s], c, desTrace[9 * s + c + 1][1], desTrace[9 * s + c + 1][2])
    BY <2>1, <2>4, <2>5, HistoryAt
  <2>3. w[c] = desTrace[9 * s + c + 1] /\ w[c + 1] = desTrace[9 * s + c + 2]
    BY <1>3, <2>1
  <2> HIDE DEF w
  <2> QED
    BY <2>2, <2>3
<1>7. ScheduleHolds(keys, ks) /\ IsDesfunc(w, keys, x)
  <2>1. ScheduleHolds(keys, ks)
    BY <1>2, ScheduleFits DEF ScheduleHolds
  <2> HIDE DEF w, keys, ks
  <2> QED
    BY <1>4, <1>5, <1>6, <2>1 DEF IsDesfunc
<1>8. Standard(Leave(w[8][1], w[8][2])) = Cipher(ks, Standard(x))
  <2> HIDE DEF w, keys, ks
  <2> QED
    BY <1>7, DesfuncIsCipher
<1>9. Leave(w[8][1], w[8][2]) \in SUBSET Bits64
  <2>1. 8 \in 0 .. 8
    OBVIOUS
  <2>2. w[8][1] \in DesWord /\ w[8][2] \in DesWord
    <3> HIDE DEF w
    <3> QED
      BY <1>4, <2>1
  <2> HIDE DEF w
  <2> QED
    BY <2>2, LeaveType
<1> HIDE DEF w, ks
<1> QED
  BY <1>5, <1>8, <1>9, Zenon DEF ks

LEMMA KeysOfStandard ==
  ASSUME NEW k, NEW offset
  PROVE  /\ StandardKeys(k, offset, EN0) = KeySchedule(KeyAt(k, offset))
         /\ StandardKeys(k, offset, DE1)
              = [n \in 1 .. 16 |-> KeySchedule(KeyAt(k, offset))[17 - n]]
<1> DEFINE v == KeySchedule(KeyAt(k, offset))
<1>1. v = [n \in 1 .. 16 |-> v[n]]
  BY DEF KeySchedule
<1>2. StandardKeys(k, offset, EN0) = [n \in 1 .. 16 |-> v[n]]
  BY DEF StandardKeys
<1>3. StandardKeys(k, offset, DE1) = [n \in 1 .. 16 |-> v[17 - n]]
  BY DEF StandardKeys, EN0, DE1
<1> HIDE DEF v
<1> QED
  BY <1>1, <1>2, <1>3 DEF v

LEMMA StoredIsTriple == DesInv /\ EncryptionStored => EncryptsAsFips46
<1> SUFFICES ASSUME DesInv, EncryptionStored,
                    desPc = "ready", ~decrypts, desTrace # <<>>
             PROVE  Standard(desOutput) =
                      TripleEncrypt(StandardKey(0), StandardKey(8),
                                    StandardKey(IF key.len = 16 THEN 0 ELSE 16),
                                    Standard(desInput))
  BY DEF EncryptsAsFips46
<1> DEFINE Call(s) == Leave(desTrace[9 * s + 9][1], desTrace[9 * s + 9][2])
<1>1. /\ Len(desTrace) = 27 /\ desTrace[1] = Enter(desPlain)
      /\ desPlain \in SUBSET Bits64 /\ key.len \in {16, 24}
      /\ desInput = desPlain /\ desOutput = Call(2)
  BY DEF DesInv, HistoryIsCurrent, HistorySteps, DesTypeOK, SchedulesAreMade,
         EncryptionStored, Sealed
<1>2. ASSUME NEW s \in 0 .. 1
      PROVE  desTrace[9 * (s + 1) + 1] = Enter(Call(s))
  <2>1. /\ s \in 0 .. 2 /\ 8 \in 0 .. 8 /\ 9 * s + 8 + 1 \in 1 .. 26
        /\ 9 * s + 8 + 2 = 9 * (s + 1) + 1 /\ 9 * s + 8 + 1 = 9 * s + 9
    OBVIOUS
  <2> DEFINE e == 8
  <2>2. e \in 0 .. 8 /\ e = 8 /\ 9 * s + e + 1 \in 1 .. Len(desTrace) - 1
    BY <1>1, <2>1
  <2> HIDE DEF e
  <2>3. desTrace[9 * s + e + 2]
          = Enter(Leave(desTrace[9 * s + e + 1][1], desTrace[9 * s + e + 1][2]))
    BY <2>1, <2>2, HistoryAt DEF DesInv
  <2> QED
    BY <2>1, <2>2, <2>3
<1>3. \A offset : KeyAt(key, offset) = StandardKey(offset)
  BY DEF KeyAt, StandardKey
<1>4. ThirdKey = (IF key.len = 16 THEN 0 ELSE 16) /\ ThirdKey \in Nat
  BY <1>1 DEF ThirdKey
<1>5. /\ EncryptionKey(0) = deskey(key, 0, EN0)
      /\ EncryptionKey(1) = deskey(key, 8, DE1)
      /\ EncryptionKey(2) = deskey(key, ThirdKey, EN0)
  BY DEF EncryptionKey
<1> DEFINE k1 == StandardKey(0)
           k2 == StandardKey(8)
           k3 == StandardKey(ThirdKey)
<1>6. Call(0) \in SUBSET Bits64 /\ Standard(Call(0)) = DesEncrypt(k1, Standard(desPlain))
  <2> DEFINE s0 == 0
  <2>1. s0 \in 0 .. 2 /\ 9 * s0 + 1 = 1 /\ 0 \in Nat
    OBVIOUS
  <2>2. EncryptionKey(s0) = deskey(key, 0, EN0) /\ desTrace[9 * s0 + 1] = Enter(desPlain)
    BY <1>1, <1>5
  <2> HIDE DEF s0
  <2>3. /\ Call(s0) \in SUBSET Bits64
        /\ Standard(Call(s0)) = Cipher(StandardKeys(key, 0, EN0), Standard(desPlain))
    BY <1>1, <2>1, <2>2, CallIsCipher
  <2>4. s0 = 0
    BY DEF s0
  <2> QED
    BY <1>3, <2>3, <2>4, KeysOfStandard DEF DesEncrypt
<1>7. /\ Call(1) \in SUBSET Bits64
      /\ Standard(Call(1)) = DesDecrypt(k2, Standard(Call(0)))
  <2> DEFINE s1 == 1
             x1 == Call(0)
  <2>1. s1 \in 0 .. 2 /\ s1 = 0 + 1 /\ 8 \in Nat /\ 0 \in 0 .. 1
    OBVIOUS
  <2>2. EncryptionKey(s1) = deskey(key, 8, DE1)
    BY <1>5
  <2>3. desTrace[9 * s1 + 1] = Enter(x1)
    BY <1>2, <2>1
  <2>4. x1 \in SUBSET Bits64
    BY <1>6
  <2> HIDE DEF s1, x1
  <2>5. /\ Call(s1) \in SUBSET Bits64
        /\ Standard(Call(s1)) = Cipher(StandardKeys(key, 8, DE1), Standard(x1))
    BY <1>1, <2>1, <2>2, <2>3, <2>4, CallIsCipher
  <2>6. s1 = 1 /\ x1 = Call(0)
    BY DEF s1, x1
  <2>7. Cipher(StandardKeys(key, 8, DE1), Standard(x1)) = DesDecrypt(k2, Standard(x1))
    <3>1. StandardKeys(key, 8, DE1)
            = [n \in 1 .. 16 |-> KeySchedule(KeyAt(key, 8))[17 - n]]
      BY KeysOfStandard
    <3>2. KeyAt(key, 8) = k2
      BY <1>3
    <3> HIDE DEF k2
    <3> QED
      BY <3>1, <3>2 DEF DesDecrypt
  <2> QED
    BY <2>5, <2>6, <2>7
<1>8. Standard(Call(2)) = DesEncrypt(k3, Standard(Call(1)))
  <2> DEFINE s2 == 2
             x2 == Call(1)
  <2>1. s2 \in 0 .. 2 /\ s2 = 1 + 1 /\ 1 \in 0 .. 1
    OBVIOUS
  <2>2. EncryptionKey(s2) = deskey(key, ThirdKey, EN0)
    BY <1>5
  <2>3. desTrace[9 * s2 + 1] = Enter(x2)
    BY <1>2, <2>1
  <2>4. x2 \in SUBSET Bits64
    BY <1>7
  <2> HIDE DEF s2, x2
  <2>5. Standard(Call(s2)) = Cipher(StandardKeys(key, ThirdKey, EN0), Standard(x2))
    BY <1>1, <1>4, <2>1, <2>2, <2>3, <2>4, CallIsCipher
  <2>6. s2 = 2 /\ x2 = Call(1)
    BY DEF s2, x2
  <2>7. Cipher(StandardKeys(key, ThirdKey, EN0), Standard(x2)) = DesEncrypt(k3, Standard(x2))
    BY <1>3, KeysOfStandard DEF DesEncrypt
  <2> QED
    BY <2>5, <2>6, <2>7
<1> HIDE DEF Call
<1> QED
  BY <1>1, <1>4, <1>6, <1>7, <1>8 DEF TripleEncrypt

(* What des3_encrypt stores is the triple algorithm of the standard, for   *)
(* every key of two or three parts, every block and every eight S-boxes.   *)
THEOREM EncryptionIsFips46 == DesSpec => []EncryptsAsFips46
<1>1. DesInit => EncryptionStored
  BY DEF DesInit, EncryptionStored
<1>2. DesInv /\ EncryptionStored /\ [DesNext]_desVars => EncryptionStored'
  BY StoredStep
<1>3. DesInv /\ EncryptionStored => EncryptsAsFips46
  BY StoredIsTriple
<1> QED
  BY <1>1, <1>2, <1>3, TripleDesInvariance, PTL DEF DesSpec
=============================================================================
