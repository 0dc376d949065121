------------------------- MODULE CompressionProofs --------------------------
(***************************************************************************)
(* Proofs about Compression: for every block, every chaining value and     *)
(* every table of constants, the unrolled rounds of MD5, SHA-1, SHA-256    *)
(* and SHA-512 are the rounds of their standards (StandardRounds).  Words  *)
(* are sets of bits and their sum carries from bit to bit, so the module   *)
(* begins with the laws of that sum.                                       *)
(*                                                                         *)
(* At its end, the types of the three primitives in one run.               *)
(***************************************************************************)
EXTENDS MCPrimitives, AesProofs, TripleDesProofs, Arithmetic,
        SequenceTheorems, FiniteSetTheorems, TLAPS

-----------------------------------------------------------------------------
(* The sum of words.                                                       *)

(* No carry comes to the lowest bit, and to the next bit one comes from    *)
(* two of the two bits and the carry below.                                *)
LEMMA CarryStep ==
  ASSUME NEW w \in Nat, NEW x \in SUBSET Bit(w), NEW y \in SUBSET Bit(w)
  PROVE  /\ ~ (0 \in Carries(x, y, w))
         /\ \A b \in Nat : b + 1 \in Bit(w) =>
              (b + 1 \in Carries(x, y, w)
                 <=> \/ b \in x /\ b \in y
                     \/ (b \in x \/ b \in y) /\ b \in Carries(x, y, w))
<1> USE DEF Bit
<1>1. ~ (0 \in Carries(x, y, w))
  BY DEF Carries
<1>2. ASSUME NEW b \in Nat, b + 1 \in Bit(w),
             b + 1 \in Carries(x, y, w), ~ (b \in x /\ b \in y)
      PROVE  (b \in x \/ b \in y) /\ b \in Carries(x, y, w)
  <2>1. PICK j \in x \cap y : /\ j < b + 1
                             /\ \A k \in j + 1 .. b : k \in x \cup y
    BY <1>2 DEF Carries
  <2>2. j \in Nat /\ j # b /\ j < b
    BY <1>2, <2>1
  <2>3. b \in j + 1 .. b /\ \A k \in j + 1 .. b - 1 : k \in j + 1 .. b
    BY <2>2
  <2> QED
    BY <1>2, <2>1, <2>2, <2>3 DEF Carries
<1>3. ASSUME NEW b \in Nat, b + 1 \in Bit(w), b \in x, b \in y
      PROVE  b + 1 \in Carries(x, y, w)
  <2>1. b < b + 1 /\ b + 1 .. (b + 1) - 1 = {}
    OBVIOUS
  <2> QED
    BY <1>3, <2>1 DEF Carries
<1>4. ASSUME NEW b \in Nat, b + 1 \in Bit(w), b \in x \/ b \in y,
             b \in Carries(x, y, w)
      PROVE  b + 1 \in Carries(x, y, w)
  <2>1. PICK j \in x \cap y : /\ j < b
                             /\ \A k \in j + 1 .. b - 1 : k \in x \cup y
    BY <1>4 DEF Carries
  <2>2. \A k \in j + 1 .. (b + 1) - 1 : k \in j + 1 .. b - 1 \/ k = b
    BY <2>1
  <2> QED
    BY <1>4, <2>1, <2>2 DEF Carries
<1> QED
  BY <1>1, <1>2, <1>3, <1>4

(* A bit of the sum.                                                       *)
LEMMA SumBit ==
  ASSUME NEW w \in Nat, NEW x \in SUBSET Bit(w), NEW y \in SUBSET Bit(w)
  PROVE  /\ Sum(x, y, w) \in SUBSET Bit(w)
         /\ Carries(x, y, w) \in SUBSET Bit(w)
         /\ \A b \in Bit(w) :
              b \in Sum(x, y, w)
                <=> ((b \in x) # (b \in y)) # (b \in Carries(x, y, w))
<1>1. Carries(x, y, w) \in SUBSET Bit(w)
  BY DEF Carries
<1>2. Sum(x, y, w) \in SUBSET Bit(w)
  BY <1>1 DEF Sum, Xor
<1>3. ASSUME NEW b \in Bit(w)
      PROVE  b \in Sum(x, y, w)
                <=> ((b \in x) # (b \in y)) # (b \in Carries(x, y, w))
  BY DEF Sum, Xor
<1> QED
  BY <1>1, <1>2, <1>3

LEMMA SumCommutes ==
  ASSUME NEW x, NEW y, NEW w
  PROVE  Sum(x, y, w) = Sum(y, x, w)
<1>1. Xor(x, y) = Xor(y, x) /\ x \cap y = y \cap x /\ x \cup y = y \cup x
  BY DEF Xor
<1>2. Carries(x, y, w) = Carries(y, x, w)
  BY <1>1 DEF Carries
<1> QED
  BY <1>1, <1>2 DEF Sum

LEMMA SumAssociates ==
  ASSUME NEW w \in Nat, NEW x \in SUBSET Bit(w), NEW y \in SUBSET Bit(w),
         NEW z \in SUBSET Bit(w)
  PROVE  Sum(Sum(x, y, w), z, w) = Sum(x, Sum(y, z, w), w)
<1> DEFINE xy == Sum(x, y, w)
           yz == Sum(y, z, w)
           c  == Carries(x, y, w)
           cc == Carries(xy, z, w)
           d  == Carries(y, z, w)
           dd == Carries(x, yz, w)
           Alike(b) == /\ ((b \in c) # (b \in cc)) <=> ((b \in d) # (b \in dd))
                       /\ (b \in c /\ b \in cc) <=> (b \in d /\ b \in dd)
           T == {b \in Nat : b \in Bit(w) => Alike(b)}
<1>1. xy \in SUBSET Bit(w) /\ yz \in SUBSET Bit(w)
  BY SumBit
<1>2. \A b \in Bit(w) : /\ b \in xy <=> ((b \in x) # (b \in y)) # (b \in c)
                        /\ b \in yz <=> ((b \in y) # (b \in z)) # (b \in d)
  BY SumBit
<1>3. \A b \in Bit(w) :
        /\ b \in Sum(xy, z, w) <=> ((b \in xy) # (b \in z)) # (b \in cc)
        /\ b \in Sum(x, yz, w) <=> ((b \in x) # (b \in yz)) # (b \in dd)
  BY <1>1, SumBit
<1>4. 0 \in T
  BY <1>1, CarryStep
<1>5. ASSUME NEW b \in T PROVE b + 1 \in T
  <2>1. b \in Nat /\ b + 1 \in Nat
    OBVIOUS
  <2>2. SUFFICES ASSUME b + 1 \in Bit(w) PROVE Alike(b + 1)
    BY <2>1
  <2>3. b \in Bit(w)
    BY <2>1, <2>2 DEF Bit
  <2>4. Alike(b)
    BY <2>3
  <2>5. /\ b + 1 \in c <=> \/ b \in x /\ b \in y
                           \/ (b \in x \/ b \in y) /\ b \in c
        /\ b + 1 \in d <=> \/ b \in y /\ b \in z
                           \/ (b \in y \/ b \in z) /\ b \in d
    BY <2>1, <2>2, CarryStep
  <2>6. /\ b + 1 \in cc <=> \/ b \in xy /\ b \in z
                            \/ (b \in xy \/ b \in z) /\ b \in cc
        /\ b + 1 \in dd <=> \/ b \in x /\ b \in yz
                            \/ (b \in x \/ b \in yz) /\ b \in dd
    BY <1>1, <2>1, <2>2, CarryStep
  <2>7. /\ b \in xy <=> ((b \in x) # (b \in y)) # (b \in c)
        /\ b \in yz <=> ((b \in y) # (b \in z)) # (b \in d)
    BY <1>2, <2>3
  <2> HIDE DEF xy, yz, c, cc, d, dd, T
  <2> QED
    BY <2>4, <2>5, <2>6, <2>7
<1>6. T = Nat
  <2> HIDE DEF Alike
  <2>1. T \in SUBSET Nat
    OBVIOUS
  <2> HIDE DEF T
  <2> QED BY <1>4, <1>5, <2>1, Induction
<1>7. \A b \in Bit(w) : Alike(b)
  <2> HIDE DEF Alike
  <2> QED BY <1>6 DEF Bit
<1>8. \A b \in Bit(w) : b \in Sum(xy, z, w) <=> b \in Sum(x, yz, w)
  <2> SUFFICES ASSUME NEW b \in Bit(w)
               PROVE  b \in Sum(xy, z, w) <=> b \in Sum(x, yz, w)
    OBVIOUS
  <2>1. /\ b \in xy <=> ((b \in x) # (b \in y)) # (b \in c)
        /\ b \in yz <=> ((b \in y) # (b \in z)) # (b \in d)
        /\ b \in Sum(xy, z, w) <=> ((b \in xy) # (b \in z)) # (b \in cc)
        /\ b \in Sum(x, yz, w) <=> ((b \in x) # (b \in yz)) # (b \in dd)
    BY <1>2, <1>3
  <2>2. Alike(b)
    BY <1>7
  <2> HIDE DEF xy, yz, c, cc, d, dd, T
  <2> QED
    BY <2>1, <2>2
<1>9. Sum(xy, z, w) \in SUBSET Bit(w) /\ Sum(x, yz, w) \in SUBSET Bit(w)
  BY <1>1, SumBit
<1> HIDE DEF xy, yz
<1>10. Sum(xy, z, w) = Sum(x, yz, w)
  BY <1>8, <1>9
<1> QED
  BY <1>10 DEF xy, yz

-----------------------------------------------------------------------------
(* Words.                                                                  *)

WordSet(w) == SUBSET Bit(w)

LEMMA RotationType ==
  ASSUME NEW w \in Nat, w \in {32, 64}, NEW x \in SUBSET Bit(w), NEW n \in Nat
  PROVE  /\ Rol(x, n, w) \in SUBSET Bit(w)
         /\ Ror(x, n, w) \in SUBSET Bit(w)
         /\ Shr(x, n) \in SUBSET Bit(w)
<1>1. \A b \in Int : b % w \in Bit(w)
  <2>1. CASE w = 32 BY <2>1 DEF Bit
  <2>2. CASE w = 64 BY <2>2 DEF Bit
  <2> QED BY <2>1, <2>2
<1>2. \A b \in x : b \in Nat /\ b \in Int /\ b + n \in Int /\ b - n \in Int
  BY DEF Bit
<1>3. Rol(x, n, w) \in SUBSET Bit(w)
  <2>1. \A b \in x : (b + n) % w \in Bit(w)
    BY <1>1, <1>2
  <2> QED BY <2>1 DEF Rol
<1>4. Ror(x, n, w) \in SUBSET Bit(w)
  <2>1. \A b \in x : (b - n) % w \in Bit(w)
    BY <1>1, <1>2
  <2> QED BY <2>1 DEF Ror
<1>5. Shr(x, n) \in SUBSET Bit(w)
  <2>1. \A b \in x : b >= n => b - n \in Bit(w)
    BY DEF Bit
  <2> QED BY <2>1 DEF Shr
<1> QED BY <1>3, <1>4, <1>5

LEMMA XorType ==
  ASSUME NEW w, NEW x \in SUBSET Bit(w), NEW y \in SUBSET Bit(w)
  PROVE  Xor(x, y) \in SUBSET Bit(w) /\ Not(x, w) \in SUBSET Bit(w)
BY DEF Xor, Not

(* Every word of a block is one, with the lowest byte first or the highest. *)
LEMMA LoadType ==
  ASSUME NEW w \in Nat, w \in {32, 64}, NEW idx \in 0 .. 15,
         NEW bytes \in [0 .. 127 -> SUBSET Bit(8)]
  PROVE  LoadL(bytes, idx, w) \in SUBSET Bit(w) /\ LoadH(bytes, idx, w) \in SUBSET Bit(w)
<1> DEFINE n == w \div 8
<1>1. n \in Nat /\ 8 * n = w /\ \A j \in 0 .. n - 1 : n * idx + j \in 0 .. 127
  <2>1. CASE w = 32 BY <2>1
  <2>2. CASE w = 64 BY <2>2
  <2> QED BY <2>1, <2>2
<1>2. \A j \in 0 .. n - 1 : \A b \in bytes[n * idx + j] :
        8 * j + b \in Bit(w) /\ 8 * (n - 1 - j) + b \in Bit(w)
  <2> SUFFICES ASSUME NEW j \in 0 .. n - 1, NEW b \in bytes[n * idx + j]
               PROVE  8 * j + b \in Bit(w) /\ 8 * (n - 1 - j) + b \in Bit(w)
    OBVIOUS
  <2>1. b \in Nat /\ b < 8
    BY <1>1 DEF Bit
  <2> HIDE DEF n
  <2> QED BY <1>1, <2>1 DEF Bit
<1>3. LoadL(bytes, idx, w) \in SUBSET Bit(w)
  <2> HIDE DEF n
  <2>1. UNION {{8 * j + b : b \in bytes[n * idx + j]} : j \in 0 .. n - 1} \in SUBSET Bit(w)
    BY <1>2
  <2> QED BY <2>1 DEF LoadL, n
<1>4. LoadH(bytes, idx, w) \in SUBSET Bit(w)
  <2> HIDE DEF n
  <2>1. UNION {{8 * (n - 1 - j) + b : b \in bytes[n * idx + j]} : j \in 0 .. n - 1} \in SUBSET Bit(w)
    BY <1>2
  <2> QED BY <2>1 DEF LoadH, n
<1> QED BY <1>3, <1>4

-----------------------------------------------------------------------------
(* The invariant: the words of the schedule that are made are those that   *)
(* the recurrence gives, and there are as many as the rounds will read.    *)

Registers == 0 .. NumRegisters[hash] - 1

WordsAreScheduled ==
  hash # "MD5" => \A n \in 17 .. Len(W) : W[n] = ScheduleWord(n)

CInv ==
  /\ hash \in HashNames
  /\ hashPc \in {"idle", "expand", "rounds"}
  /\ state \in [Registers -> WordSet(WordBits)]
  /\ regs \in [Registers -> WordSet(WordBits)]
  /\ W \in Seq(WordSet(WordBits))
  /\ round \in 0 .. NumRounds
  /\ compressions \in Nat
  /\ hashPc = "expand" =>
       hash # "MD5" /\ round = 0 /\ Len(W) \in 16 .. NumRounds - 1
  /\ hashPc = "rounds" => Len(W) = IF hash = "MD5" THEN 16 ELSE NumRounds
  /\ WordsAreScheduled

LEMMA Sizes ==
  ASSUME hash \in HashNames
  PROVE  /\ WordBits \in {32, 64} /\ WordBits \in Nat
         /\ NumRounds \in {64, 80}
         /\ hash = "MD5" => NumRegisters[hash] = 4 /\ NumRounds = 64 /\ WordBits = 32
         /\ hash = "SHA1" => NumRegisters[hash] = 5 /\ NumRounds = 80 /\ WordBits = 32
         /\ hash = "SHA256" => NumRegisters[hash] = 8 /\ NumRounds = 64 /\ WordBits = 32
         /\ hash = "SHA512" => NumRegisters[hash] = 8 /\ NumRounds = 80 /\ WordBits = 64
         /\ NumRegisters[hash] \in {4, 5, 8}
BY DEF HashNames, WordBits, NumRounds, NumRegisters

(* The constants of the rounds and the chaining value at first are words.  *)
LEMMA TablesType ==
  ASSUME hash \in HashNames
  PROVE  /\ InitialValues[hash] \in [Registers -> WordSet(WordBits)]
         /\ \A n \in 0 .. NumRounds - 1 : Constants[hash][n] \in WordSet(WordBits)
<1>1. CASE hash \in {"SHA1", "SHA512"}
  <2>1. NumRounds - 1 = 79
    BY <1>1 DEF NumRounds
  <2> QED BY <1>1, <2>1, CompressionAssumption DEF WordBits, WordSet, Registers
<1>2. CASE ~ (hash \in {"SHA1", "SHA512"})
  <2>1. NumRounds - 1 = 63
    BY <1>2 DEF NumRounds
  <2> QED BY <1>2, <2>1, CompressionAssumption DEF WordBits, WordSet, Registers
<1> QED BY <1>1, <1>2

LEMMA SumType ==
  ASSUME hash \in HashNames, NEW x \in WordSet(WordBits), NEW y \in WordSet(WordBits)
  PROVE  Add(x, y) \in WordSet(WordBits)
BY Sizes, SumBit DEF Add, WordSet

LEMMA SmallRemainder ==
  ASSUME NEW n \in {4, 5, 8}, NEW j \in Int
  PROVE  j % n \in 0 .. n - 1
<1>1. CASE n = 4 BY <1>1
<1>2. CASE n = 5 BY <1>2
<1>3. CASE n = 8 BY <1>3
<1> QED BY <1>1, <1>2, <1>3

(* The names of the registers.                                             *)
LEMMA Names ==
  ASSUME CInv
  PROVE  /\ Cardinality(DOMAIN regs) = NumRegisters[hash]
         /\ \A k \in Int : Name(k) \in Registers
         /\ \A k \in Int : Name(k) = (k - round) % NumRegisters[hash]
         /\ \A k \in Int : Arg(k) = regs[Name(k)] /\ Arg(k) \in WordSet(WordBits)
<1>1. DOMAIN regs = 0 .. NumRegisters[hash] - 1 /\ round \in Int
  BY Sizes DEF Registers, CInv
<1>2. NumRegisters[hash] \in {4, 5, 8}
  BY Sizes DEF CInv
<1>3. Cardinality(DOMAIN regs) = NumRegisters[hash]
  <2>1. NumRegisters[hash] - 1 \in Int /\ 0 \in Int /\ 0 <= NumRegisters[hash] - 1
    BY <1>2
  <2>2. Cardinality(0 .. NumRegisters[hash] - 1) = NumRegisters[hash] - 1 - 0 + 1
    BY <2>1, FS_Interval
  <2> QED BY <1>1, <1>2, <2>2
<1>4. \A k \in Int : Name(k) = (k - round) % NumRegisters[hash]
  BY <1>3 DEF Name
<1>5. \A k \in Int : Name(k) \in Registers
  <2> SUFFICES ASSUME NEW k \in Int PROVE Name(k) \in Registers
    OBVIOUS
  <2>1. k - round \in Int
    BY <1>1
  <2>2. (k - round) % NumRegisters[hash] \in 0 .. NumRegisters[hash] - 1
    BY <1>2, <2>1, SmallRemainder
  <2> QED BY <1>4, <2>2 DEF Registers
<1>6. \A k \in Int : Arg(k) = regs[Name(k)]
  BY DEF Arg
<1>7. \A n \in Registers : regs[n] \in WordSet(WordBits)
  BY DEF CInv
<1> QED BY <1>3, <1>4, <1>5, <1>6, <1>7

LEMMA LogicType ==
  ASSUME hash \in HashNames, NEW x \in WordSet(WordBits), NEW y \in WordSet(WordBits),
         NEW z \in WordSet(WordBits)
  PROVE  /\ Ch(x, y, z) \in WordSet(WordBits) /\ G(x, y, z) \in WordSet(WordBits)
         /\ F1(x, y, z) \in WordSet(WordBits) /\ Maj(x, y, z) \in WordSet(WordBits)
         /\ WordBits = 32 => I(x, y, z) \in WordSet(WordBits)
BY DEF Ch, G, F1, Maj, I, Xor, Not, WordSet

LEMMA SigmaType ==
  ASSUME hash \in HashNames, NEW x \in WordSet(WordBits)
  PROVE  /\ Sigma0(x) \in WordSet(WordBits) /\ Sigma1(x) \in WordSet(WordBits)
         /\ Gamma0(x) \in WordSet(WordBits) /\ Gamma1(x) \in WordSet(WordBits)
<1>1. ASSUME NEW n \in Nat
      PROVE  /\ Ror(x, n, WordBits) \in SUBSET Bit(WordBits)
             /\ Shr(x, n) \in SUBSET Bit(WordBits)
  <2>1. WordBits \in Nat /\ WordBits \in {32, 64} /\ x \in SUBSET Bit(WordBits)
    BY Sizes DEF WordSet
  <2>2. Ror(x, n, WordBits) \in SUBSET Bit(WordBits)
    BY <2>1, RotationType
  <2>3. Shr(x, n) \in SUBSET Bit(WordBits)
    BY <2>1, RotationType
  <2> QED BY <2>2, <2>3
<1>2. \A l, m, n \in Nat : S3(x, l, m, n) \in WordSet(WordBits)
  <2> SUFFICES ASSUME NEW l \in Nat, NEW m \in Nat, NEW n \in Nat
               PROVE  S3(x, l, m, n) \in WordSet(WordBits)
    OBVIOUS
  <2>1. Xor(Ror(x, l, WordBits), Ror(x, m, WordBits)) \in SUBSET Bit(WordBits)
    BY <1>1, XorType
  <2> QED BY <1>1, <2>1, XorType DEF S3, WordSet
<1>3. \A l, m, n \in Nat : SR(x, l, m, n) \in WordSet(WordBits)
  <2> SUFFICES ASSUME NEW l \in Nat, NEW m \in Nat, NEW n \in Nat
               PROVE  SR(x, l, m, n) \in WordSet(WordBits)
    OBVIOUS
  <2>1. Xor(Ror(x, l, WordBits), Ror(x, m, WordBits)) \in SUBSET Bit(WordBits)
    BY <1>1, XorType
  <2> QED BY <1>1, <2>1, XorType DEF SR, WordSet
<1> QED BY <1>2, <1>3 DEF Sigma0, Sigma1, Gamma0, Gamma1

(* A word of the schedule is one.                                          *)
LEMMA WordScheduleType ==
  ASSUME hash \in HashNames, W \in Seq(WordSet(WordBits)), hash # "MD5",
         NEW n \in 17 .. Len(W) + 1
  PROVE  ScheduleWord(n) \in WordSet(WordBits)
<1>1. \A k \in 1 .. 16 : n - k \in 1 .. Len(W) /\ W[n - k] \in WordSet(WordBits)
  OBVIOUS
<1>2. CASE hash = "SHA1"
  <2> DEFINE x == Xor(Xor(Xor(W[n - 3], W[n - 8]), W[n - 14]), W[n - 16])
  <2>1. /\ W[n - 3] \in WordSet(WordBits) /\ W[n - 8] \in WordSet(WordBits)
        /\ W[n - 14] \in WordSet(WordBits) /\ W[n - 16] \in WordSet(WordBits)
    BY <1>1
  <2>2. x \in WordSet(WordBits)
    BY <2>1 DEF WordSet, Xor
  <2>3. Rol(x, 1, 32) \in WordSet(WordBits)
    <3> HIDE DEF x
    <3> QED BY <1>2, <2>2, Sizes, RotationType DEF WordSet
  <2> QED BY <1>2, <2>3 DEF ScheduleWord
<1>3. CASE hash # "SHA1"
  <2>1. /\ W[n - 2] \in WordSet(WordBits) /\ W[n - 7] \in WordSet(WordBits)
        /\ W[n - 15] \in WordSet(WordBits) /\ W[n - 16] \in WordSet(WordBits)
    BY <1>1
  <2>2. Gamma1(W[n - 2]) \in WordSet(WordBits) /\ Gamma0(W[n - 15]) \in WordSet(WordBits)
    BY <2>1, SigmaType
  <2>3. Add(Gamma1(W[n - 2]), W[n - 7]) \in WordSet(WordBits)
    BY <2>1, <2>2, SumType
  <2>4. Add(Add(Gamma1(W[n - 2]), W[n - 7]), Gamma0(W[n - 15])) \in WordSet(WordBits)
    BY <2>2, <2>3, SumType
  <2>5. Add(Add(Add(Gamma1(W[n - 2]), W[n - 7]), Gamma0(W[n - 15])), W[n - 16])
          \in WordSet(WordBits)
    BY <2>1, <2>4, SumType
  <2> QED BY <1>3, <2>5 DEF ScheduleWord
<1> QED BY <1>2, <1>3

LEMMA CInitial == CompressionInit => CInv
<1> SUFFICES ASSUME CompressionInit PROVE CInv
  OBVIOUS
<1>1. hash \in HashNames /\ hashPc = "idle" /\ W = <<>> /\ round = 0
      /\ compressions = 0 /\ state = InitialValues[hash] /\ regs = state
  BY DEF CompressionInit
<1>2. /\ state \in [Registers -> WordSet(WordBits)]
      /\ regs \in [Registers -> WordSet(WordBits)]
  BY <1>1, TablesType
<1>3. round \in 0 .. NumRounds
  BY <1>1, Sizes
<1>4. W \in Seq(WordSet(WordBits)) /\ Len(W) = 0
  BY <1>1
<1>5. WordsAreScheduled
  <2>1. 17 .. Len(W) = {}
    BY <1>4
  <2> QED BY <2>1 DEF WordsAreScheduled
<1> QED BY <1>1, <1>2, <1>3, <1>4, <1>5 DEF CInv

(* What depends on nothing but the name of the hash does not change.       *)
LEMMA SameHash ==
  ASSUME hash' = hash
  PROVE  /\ WordBits' = WordBits /\ NumRounds' = NumRounds
         /\ Registers' = Registers
BY DEF WordBits, NumRounds, Registers

LEMMA SameScheduleWord ==
  ASSUME hash' = hash, NEW n,
         \A k \in {2, 3, 7, 8, 14, 15, 16} : W'[n - k] = W[n - k]
  PROVE  ScheduleWord(n)' = ScheduleWord(n)
BY DEF ScheduleWord, Add, WordBits, Gamma1, Gamma0, SR

LEMMA LoadBlockKeepsCInv ==
  ASSUME CInv, NEW block \in HashBlocks, LoadBlock(block)
  PROVE  CInv'
<1>1. /\ hash' = hash /\ state' = state /\ regs' = state /\ round' = 0
      /\ hashPc' = IF hash = "MD5" THEN "rounds" ELSE "expand"
      /\ compressions' = compressions + 1
      /\ W' = [n \in 1 .. 16 |-> IF hash = "MD5" THEN LoadL(block, n - 1, 32)
                                 ELSE LoadH(block, n - 1, WordBits)]
  BY DEF LoadBlock
<1>2. WordBits' = WordBits /\ NumRounds' = NumRounds /\ Registers' = Registers
  BY <1>1, SameHash
<1>3. hash \in HashNames
  BY DEF CInv
<1>4. \A n \in 1 .. 16 : W'[n] \in WordSet(WordBits)
  <2> SUFFICES ASSUME NEW n \in 1 .. 16 PROVE W'[n] \in WordSet(WordBits)
    OBVIOUS
  <2>1. n - 1 \in 0 .. 15
    OBVIOUS
  <2>0. block \in [0 .. 127 -> SUBSET Bit(8)]
    BY CompressionAssumption
  <2>2. CASE hash = "MD5"
    <3>1. LoadL(block, n - 1, 32) \in SUBSET Bit(32)
      BY <2>0, <2>1, LoadType
    <3> QED BY <1>1, <1>3, <2>2, <3>1, Sizes DEF WordSet
  <2>3. CASE hash # "MD5"
    <3>1. WordBits \in Nat /\ WordBits \in {32, 64}
      BY <1>3, Sizes
    <3>2. LoadH(block, n - 1, WordBits) \in SUBSET Bit(WordBits)
      BY <2>0, <2>1, <3>1, LoadType
    <3> QED BY <1>1, <2>3, <3>2 DEF WordSet
  <2> QED BY <2>2, <2>3
<1>5. W' \in Seq(WordSet(WordBits)) /\ Len(W') = 16
  BY <1>1, <1>4
<1>6. WordsAreScheduled'
  <2>1. 17 .. Len(W') = {}
    BY <1>5
  <2> QED BY <2>1 DEF WordsAreScheduled
<1>7. compressions' \in Nat /\ round' \in 0 .. NumRounds'
  BY <1>1, <1>2, <1>3, Sizes DEF CInv
<1>8. /\ hash' \in HashNames /\ hashPc' \in {"idle", "expand", "rounds"}
      /\ state' \in [Registers' -> WordSet(WordBits')]
      /\ regs' \in [Registers' -> WordSet(WordBits')]
  BY <1>1, <1>2 DEF CInv
<1>9. /\ hashPc' = "expand" => hash' # "MD5" /\ round' = 0
                               /\ Len(W') \in 16 .. NumRounds' - 1
      /\ hashPc' = "rounds" =>
           Len(W') = IF hash' = "MD5" THEN 16 ELSE NumRounds'
  BY <1>1, <1>2, <1>3, <1>5, Sizes
<1> QED BY <1>1, <1>2, <1>5, <1>6, <1>7, <1>8, <1>9 DEF CInv

LEMMA ExpandWordKeepsCInv ==
  ASSUME CInv, ExpandWord
  PROVE  CInv'
<1> DEFINE n == Len(W) + 1
<1>1. /\ hashPc = "expand" /\ W' = Append(W, ScheduleWord(n))
      /\ hashPc' = IF n = NumRounds THEN "rounds" ELSE "expand"
      /\ UNCHANGED <<hash, state, regs, round, compressions>>
  BY DEF ExpandWord
<1>2. WordBits' = WordBits /\ NumRounds' = NumRounds /\ Registers' = Registers
  BY <1>1, SameHash
<1>3. hash \in HashNames /\ hash # "MD5" /\ round = 0
      /\ Len(W) \in 16 .. NumRounds - 1 /\ W \in Seq(WordSet(WordBits))
  BY <1>1 DEF CInv
<1>4. ScheduleWord(n) \in WordSet(WordBits)
  <2>1. n \in 17 .. Len(W) + 1
    BY <1>3, Sizes
  <2> QED BY <1>3, <2>1, WordScheduleType
<1>5. W' \in Seq(WordSet(WordBits)) /\ Len(W') = n
      /\ W'[n] = ScheduleWord(n) /\ \A k \in 1 .. Len(W) : W'[k] = W[k]
  BY <1>1, <1>3, <1>4
<1>6. WordsAreScheduled'
  <2>1. ASSUME NEW k \in 17 .. n
        PROVE  W'[k] = ScheduleWord(k)'
    <3>1. \A j \in {2, 3, 7, 8, 14, 15, 16} : k - j \in 1 .. Len(W)
      BY <1>3, Sizes
    <3>2. ScheduleWord(k)' = ScheduleWord(k)
      BY <1>1, <1>5, <3>1, SameScheduleWord
    <3>3. CASE k = n
      BY <1>5, <3>2, <3>3
    <3>4. CASE k # n
      <4>1. k \in 17 .. Len(W) /\ k \in 1 .. Len(W)
        BY <1>3, <3>4
      <4> QED BY <1>3, <1>5, <3>2, <4>1 DEF CInv, WordsAreScheduled
    <3> QED BY <3>3, <3>4
  <2> QED BY <1>5, <2>1 DEF WordsAreScheduled
<1>7. /\ hash' \in HashNames /\ hashPc' \in {"idle", "expand", "rounds"}
      /\ state' \in [Registers' -> WordSet(WordBits')]
      /\ regs' \in [Registers' -> WordSet(WordBits')]
      /\ round' \in 0 .. NumRounds' /\ compressions' \in Nat
  BY <1>1, <1>2 DEF CInv
<1>8. /\ hashPc' = "expand" => hash' # "MD5" /\ round' = 0
                               /\ Len(W') \in 16 .. NumRounds' - 1
      /\ hashPc' = "rounds" =>
           Len(W') = IF hash' = "MD5" THEN 16 ELSE NumRounds'
  BY <1>1, <1>2, <1>3, <1>5, Sizes
<1> QED BY <1>2, <1>5, <1>6, <1>7, <1>8 DEF CInv

-----------------------------------------------------------------------------
(* What the standards write and what the code writes are the same.         *)

LEMMA SameWords ==
  ASSUME NEW x, NEW y, NEW n, NEW w
  PROVE  /\ Rfc!Xor(x, y) = Xor(x, y)
         /\ Rfc!Not(x, w) = Not(x, w)
         /\ Rfc!Bit(w) = Bit(w)
         /\ Rfc!Rol(x, n, w) = Rol(x, n, w)
         /\ Rfc!Ror(x, n, w) = Ror(x, n, w)
         /\ Rfc!Shr(x, n) = Shr(x, n)
         /\ Rfc!Carries(x, y, w) = Carries(x, y, w)
         /\ Rfc!Sum(x, y, w) = Sum(x, y, w)
BY DEF Rfc!Xor, Xor, Rfc!Not, Not, Rfc!Bit, Bit, Rfc!Rol, Rol, Rfc!Ror, Ror,
       Rfc!Shr, Shr, Rfc!Carries, Carries, Rfc!Sum, Sum

LEMMA SameSizes ==
  ASSUME hash \in HashNames
  PROVE  Rfc!Rounds[hash] = NumRounds /\ Rfc!Width[hash] = WordBits
BY DEF HashNames, Rfc!Rounds, NumRounds, Rfc!Width, WordBits

LEMMA SamePlus ==
  ASSUME hash \in HashNames, NEW x, NEW y
  PROVE  Rfc!Plus(x, y) = Add(x, y) /\ Rfc!Right(x, y) = Ror(x, y, WordBits)
BY SameWords, SameSizes DEF Rfc!Plus, Add, Rfc!Right

(* The logical functions with fewer operations.                            *)
LEMMA SameLogic ==
  ASSUME hash \in HashNames, NEW x \in WordSet(WordBits),
         NEW y \in WordSet(WordBits), NEW z \in WordSet(WordBits)
  PROVE  /\ Rfc!Choice(x, y, z) = Ch(x, y, z)
         /\ Rfc!Choice(z, x, y) = G(x, y, z)
         /\ Rfc!Parity(x, y, z) = F1(x, y, z)
         /\ Rfc!Majority(x, y, z) = Maj(x, y, z)
         /\ Rfc!Xor(y, x \cup Rfc!Not(z, 32)) = I(x, y, z)
<1>1. Rfc!Choice(x, y, z) = Ch(x, y, z)
  <2>1. (x \cap y) \cup ((Bit(WordBits) \ x) \cap z)
          = Xor(z, x \cap Xor(y, z))
    BY DEF WordSet, Xor
  <2> QED BY <2>1, SameWords, SameSizes DEF Rfc!Choice, Not, Ch
<1>2. Rfc!Choice(z, x, y) = G(x, y, z)
  <2>1. (z \cap x) \cup ((Bit(WordBits) \ z) \cap y)
          = Xor(y, z \cap Xor(y, x))
    BY DEF WordSet, Xor
  <2> QED BY <2>1, SameWords, SameSizes DEF Rfc!Choice, Not, G
<1>3. Rfc!Parity(x, y, z) = F1(x, y, z)
  <2>1. Xor(x, Xor(y, z)) = Xor(Xor(x, y), z)
    BY DEF Xor
  <2> QED BY <2>1, SameWords DEF Rfc!Parity, F1
<1>4. Rfc!Majority(x, y, z) = Maj(x, y, z)
  <2>1. Xor(x \cap y, Xor(x \cap z, y \cap z))
          = ((x \cup y) \cap z) \cup (x \cap y)
    BY DEF Xor
  <2> QED BY <2>1, SameWords DEF Rfc!Majority, Maj
<1>5. Rfc!Xor(y, x \cup Rfc!Not(z, 32)) = I(x, y, z)
  BY SameWords DEF I
<1> QED BY <1>1, <1>2, <1>3, <1>4, <1>5

(* The order of the words of MD5 that the code lists.                      *)
LEMMA Md5Words ==
  ASSUME NEW n \in 0 .. 63
  PROVE  /\ n \div 16 = 0 => Md5Word[n + 1] = n
         /\ n \div 16 = 1 => Md5Word[n + 1] = (5 * n + 1) % 16
         /\ n \div 16 = 2 => Md5Word[n + 1] = (3 * n + 5) % 16
         /\ n \div 16 = 3 => Md5Word[n + 1] = (7 * n) % 16
         /\ Md5Word[n + 1] \in 0 .. 15
BY DEF Md5Word

(* Between two blocks the standards have no registers; else theirs are the *)
(* code's, by the names that the round gives them.                         *)
LEMMA RegistersNow ==
  ASSUME CInv, hashPc # "idle"
  PROVE  /\ StandardRegisters = [k \in Registers |-> Arg(k)]
         /\ DOMAIN StandardRegisters = Registers
         /\ \A k \in Registers : /\ StandardRegisters[k] = Arg(k)
                                 /\ Arg(k) \in WordSet(WordBits)
         /\ StandardRegisters # <<>>
         /\ StandardRound = round
<1>1. DOMAIN regs = Registers
  BY DEF CInv
<1>2. StandardRegisters = [k \in Registers |-> Arg(k)]
  BY <1>1 DEF StandardRegisters
<1>3. \A k \in Registers : Arg(k) \in WordSet(WordBits)
  <2>1. Registers \subseteq Int
    BY DEF Registers
  <2> QED BY <2>1, Names
<1>4. StandardRegisters # <<>>
  <2>1. 0 \in Registers
    BY Sizes DEF CInv, Registers
  <2>2. 0 \in DOMAIN StandardRegisters
    BY <1>2, <2>1
  <2>3. ~ (0 \in DOMAIN <<>>)
    OBVIOUS
  <2> QED BY <2>2, <2>3
<1> QED BY <1>2, <1>3, <1>4 DEF StandardRound

(* From one round to the next every register takes the next name, and no   *)
(* two have the same.                                                      *)
LEMMA NextNames ==
  ASSUME CInv, hash' = hash, round' = round + 1, DOMAIN regs' = DOMAIN regs
  PROVE  /\ \A k \in Registers : k # 0 => Name(k)' = Name(k - 1)
         /\ Name(0)' = Name(NumRegisters[hash] - 1)
         /\ \A a, b \in Registers : Name(a) = Name(b) => a = b
<1>1. NumRegisters[hash] \in {4, 5, 8} /\ round \in Int
  BY Sizes DEF CInv
<1>2. Cardinality(DOMAIN regs) = NumRegisters[hash]
  BY Names
<1>3. \A k \in Int : /\ Name(k) = (k - round) % NumRegisters[hash]
                     /\ Name(k)' = (k - (round + 1)) % NumRegisters[hash]
  BY <1>2 DEF Name
<1>4. CASE NumRegisters[hash] = 4
  BY <1>1, <1>3, <1>4 DEF Registers
<1>5. CASE NumRegisters[hash] = 5
  BY <1>1, <1>3, <1>5 DEF Registers
<1>6. CASE NumRegisters[hash] = 8
  BY <1>1, <1>3, <1>6 DEF Registers
<1> QED BY <1>1, <1>4, <1>5, <1>6

-----------------------------------------------------------------------------
(* MD5.                                                                    *)

(* The function, the word and the rotation of a round.                     *)
LEMMA Md5Parts ==
  ASSUME CInv, hashPc = "rounds", round < NumRounds, hash = "MD5"
  PROVE  /\ Rfc!Auxiliary(Arg(1), Arg(2), Arg(3)) =
              CASE round \div 16 = 0 -> Ch(Arg(1), Arg(2), Arg(3))
                [] round \div 16 = 1 -> G(Arg(1), Arg(2), Arg(3))
                [] round \div 16 = 2 -> F1(Arg(1), Arg(2), Arg(3))
                [] OTHER -> I(Arg(1), Arg(2), Arg(3))
         /\ Rfc!Auxiliary(Arg(1), Arg(2), Arg(3)) \in WordSet(WordBits)
         /\ Rfc!WordOf = Md5Word[round + 1]
         /\ StandardWords[Rfc!WordOf + 1] = W[Md5Word[round + 1] + 1]
         /\ W[Md5Word[round + 1] + 1] \in WordSet(WordBits)
         /\ Rfc!Turn = Md5Shift[(round \div 16) + 1][(round % 4) + 1]
         /\ Rfc!Turn \in Nat
<1>1. StandardRound = round /\ StandardWords = W /\ hash \in HashNames
  BY DEF StandardRound, StandardWords, CInv
<1>2. round \in 0 .. 63 /\ WordBits = 32
  BY <1>1, Sizes DEF CInv
<1>3. \/ round \div 16 = 0 \/ round \div 16 = 1
      \/ round \div 16 = 2 \/ round \div 16 = 3
  BY <1>2
<1>4. Arg(1) \in WordSet(WordBits) /\ Arg(2) \in WordSet(WordBits) /\ Arg(3) \in WordSet(WordBits)
  BY Names
<1> DEFINE A1 == Arg(1)
           A2 == Arg(2)
           A3 == Arg(3)
<1>5. /\ Rfc!Auxiliary(A1, A2, A3) =
           CASE round \div 16 = 0 -> Ch(A1, A2, A3)
             [] round \div 16 = 1 -> G(A1, A2, A3)
             [] round \div 16 = 2 -> F1(A1, A2, A3)
             [] OTHER -> I(A1, A2, A3)
      /\ Rfc!Auxiliary(A1, A2, A3) \in WordSet(WordBits)
  <2>1. A1 \in WordSet(WordBits) /\ A2 \in WordSet(WordBits) /\ A3 \in WordSet(WordBits)
    BY <1>4
  <2> HIDE DEF A1, A2, A3
  <2>2. /\ Rfc!Choice(A1, A2, A3) = Ch(A1, A2, A3)
        /\ Rfc!Choice(A3, A1, A2) = G(A1, A2, A3)
        /\ Rfc!Parity(A1, A2, A3) = F1(A1, A2, A3)
        /\ Rfc!Xor(A2, A1 \cup Rfc!Not(A3, 32)) = I(A1, A2, A3)
    BY <1>1, <2>1, SameLogic
  <2>3. /\ Ch(A1, A2, A3) \in WordSet(WordBits) /\ G(A1, A2, A3) \in WordSet(WordBits)
        /\ F1(A1, A2, A3) \in WordSet(WordBits) /\ I(A1, A2, A3) \in WordSet(WordBits)
    BY <1>1, <1>2, <2>1, LogicType
  <2>4. CASE round \div 16 = 0
    BY <1>1, <2>2, <2>3, <2>4 DEF Rfc!Auxiliary
  <2>5. CASE round \div 16 = 1
    BY <1>1, <2>2, <2>3, <2>5 DEF Rfc!Auxiliary
  <2>6. CASE round \div 16 = 2
    BY <1>1, <2>2, <2>3, <2>6 DEF Rfc!Auxiliary
  <2>7. CASE round \div 16 = 3
    BY <1>1, <2>2, <2>3, <2>7 DEF Rfc!Auxiliary
  <2> QED BY <1>3, <2>4, <2>5, <2>6, <2>7
<1>6. Rfc!WordOf = Md5Word[round + 1]
  <2>1. /\ round \div 16 = 0 => Md5Word[round + 1] = round
        /\ round \div 16 = 1 => Md5Word[round + 1] = (5 * round + 1) % 16
        /\ round \div 16 = 2 => Md5Word[round + 1] = (3 * round + 5) % 16
        /\ round \div 16 = 3 => Md5Word[round + 1] = (7 * round) % 16
    BY <1>2, Md5Words
  <2> QED BY <1>1, <1>3, <2>1 DEF Rfc!WordOf
<1>7. W[Md5Word[round + 1] + 1] \in WordSet(WordBits)
  <2>1. Md5Word[round + 1] + 1 \in 1 .. 16
    BY <1>2, Md5Words
  <2>2. \A n \in 1 .. Len(W) : W[n] \in WordSet(WordBits)
    <3>1. W \in Seq(WordSet(WordBits))
      BY DEF CInv
    <3> QED BY <3>1
  <2>3. Len(W) = 16
    BY DEF CInv
  <2> QED BY <2>1, <2>2, <2>3
<1>8. Rfc!Turn = Md5Shift[(round \div 16) + 1][(round % 4) + 1]
  BY <1>1 DEF Rfc!Turn, Md5Shift
<1>9. Md5Shift[(round \div 16) + 1][(round % 4) + 1] \in Nat
  <2>1. \A k, j \in 1 .. 4 : Md5Shift[k][j] \in Nat
    BY DEF Md5Shift
  <2>2. (round \div 16) + 1 \in 1 .. 4 /\ (round % 4) + 1 \in 1 .. 4
    BY <1>2
  <2> QED BY <2>1, <2>2
<1> QED BY <1>1, <1>5, <1>6, <1>7, <1>8, <1>9

(* A sum of four, in the two orders.                                       *)
LEMMA SumOfFour ==
  ASSUME hash \in HashNames,
         NEW a \in WordSet(WordBits), NEW b \in WordSet(WordBits),
         NEW c \in WordSet(WordBits), NEW d \in WordSet(WordBits)
  PROVE  /\ Add(Add(Add(a, b), c), d) = Add(Add(a, b), Add(c, d))
         /\ Add(Add(Add(a, b), c), d) \in WordSet(WordBits)
<1>1. WordBits \in Nat /\ Add(a, b) \in WordSet(WordBits)
  BY Sizes, SumType
<1>2. Add(Add(Add(a, b), c), d) = Add(Add(a, b), Add(c, d))
  BY <1>1, SumAssociates DEF Add, WordSet
<1>3. Add(Add(a, b), c) \in WordSet(WordBits)
  BY <1>1, SumType
<1> QED BY <1>2, <1>3, SumType

(* A round of MD5.                                                         *)
LEMMA Md5Agrees ==
  ASSUME CInv, hashPc = "rounds", round < NumRounds, hash = "MD5",
         hash' = hash, round' = round + 1, Md5Step
  PROVE  /\ regs' \in [Registers -> WordSet(WordBits)]
         /\ \A k \in Registers : Arg(k)' = Rfc!Md5Round[k + 1]
<1> DEFINE logic == Rfc!Auxiliary(Arg(1), Arg(2), Arg(3))
           word  == W[Md5Word[round + 1] + 1]
           const == Constants[hash][round]
           sum   == Add(Add(Add(Arg(0), logic), word), const)
           X     == Add(Rol(sum, Rfc!Turn, 32), Arg(1))
<1>1. hash \in HashNames /\ WordBits = 32 /\ NumRegisters[hash] = 4 /\ Registers = 0 .. 3
  <2>1. hash \in HashNames
    BY DEF CInv
  <2>2. WordBits = 32 /\ NumRegisters[hash] = 4
    BY <2>1, Sizes
  <2> QED BY <2>1, <2>2 DEF Registers
<1>2. /\ logic \in WordSet(WordBits) /\ word \in WordSet(WordBits)
      /\ Rfc!Turn \in Nat /\ StandardWords[Rfc!WordOf + 1] = word
  BY Md5Parts
<1>3. const \in WordSet(WordBits)
  <2>1. round \in 0 .. NumRounds - 1
    BY <1>1, Sizes DEF CInv
  <2> QED BY <1>1, <2>1, TablesType
<1>4. /\ Arg(0) \in WordSet(WordBits) /\ Arg(1) \in WordSet(WordBits)
      /\ Arg(2) \in WordSet(WordBits) /\ Arg(3) \in WordSet(WordBits)
  BY Names
<1>5. regs' = [regs EXCEPT ![Name(0)] = X]
  <2>1. /\ logic = CASE round \div 16 = 0 -> Ch(Arg(1), Arg(2), Arg(3))
                     [] round \div 16 = 1 -> G(Arg(1), Arg(2), Arg(3))
                     [] round \div 16 = 2 -> F1(Arg(1), Arg(2), Arg(3))
                     [] OTHER -> I(Arg(1), Arg(2), Arg(3))
        /\ Rfc!Turn = Md5Shift[(round \div 16) + 1][(round % 4) + 1]
    BY Md5Parts
  <2> HIDE DEF logic
  <2> QED BY <2>1 DEF Md5Step
<1>6. sum \in WordSet(WordBits)
      /\ sum = Rfc!Plus(Rfc!Plus(Arg(0), logic), Rfc!Plus(word, const))
  <2> HIDE DEF logic, word, const
  <2>1. /\ sum = Add(Add(Arg(0), logic), Add(word, const))
        /\ sum \in WordSet(WordBits)
    BY <1>1, <1>2, <1>3, <1>4, SumOfFour
  <2> QED BY <1>1, <2>1, SamePlus
<1>7. X \in WordSet(WordBits) /\ X = Rfc!Plus(Arg(1), Rfc!Rol(sum, Rfc!Turn, 32))
  <2> HIDE DEF sum
  <2>1. Rol(sum, Rfc!Turn, 32) \in WordSet(WordBits)
    BY <1>1, <1>2, <1>6, RotationType DEF WordSet
  <2>2. X = Add(Arg(1), Rol(sum, Rfc!Turn, 32))
    BY SumCommutes DEF Add
  <2> QED BY <1>1, <1>4, <2>1, <2>2, SumType, SamePlus, SameWords
<1> HIDE DEF X, sum, logic, word, const
<1>8. Rfc!Md5Round = <<Arg(3), X, Arg(1), Arg(2)>>
  <2>1. /\ StandardRegisters[0] = Arg(0) /\ StandardRegisters[1] = Arg(1)
        /\ StandardRegisters[2] = Arg(2) /\ StandardRegisters[3] = Arg(3)
        /\ StandardRound = round
    BY <1>1, RegistersNow
  <2> QED BY <1>2, <1>6, <1>7, <2>1 DEF Rfc!Md5Round, logic, const
<1>9. regs' \in [Registers -> WordSet(WordBits)] /\ DOMAIN regs' = DOMAIN regs
  BY <1>5, <1>7 DEF CInv
<1>10. /\ Name(0)' = Name(3) /\ Name(1)' = Name(0)
       /\ Name(2)' = Name(1) /\ Name(3)' = Name(2)
       /\ Name(1) # Name(0) /\ Name(2) # Name(0) /\ Name(3) # Name(0)
  BY <1>1, <1>9, NextNames
<1>11. \A k \in Registers : Name(k) \in DOMAIN regs
  BY Names DEF CInv, Registers
<1>12. /\ Arg(0)' = Arg(3) /\ Arg(1)' = X /\ Arg(2)' = Arg(1) /\ Arg(3)' = Arg(2)
  BY <1>1, <1>5, <1>10, <1>11 DEF Arg
<1>13. \A k \in 0 .. 3 : Arg(k)' = <<Arg(3), X, Arg(1), Arg(2)>>[k + 1]
  BY <1>12
<1> QED BY <1>1, <1>8, <1>9, <1>13

-----------------------------------------------------------------------------
(* The hashes with a schedule.                                             *)

(* A part of the schedule: the words that the rounds from r read.          *)
LEMMA WordsFrom ==
  ASSUME CInv, hashPc = "rounds", hash # "MD5", NEW rd \in 0 .. NumRounds
  PROVE  /\ SubSeq(W, rd + 1, NumWordsFor(rd)) \in Seq(WordSet(WordBits))
         /\ Len(SubSeq(W, rd + 1, NumWordsFor(rd))) = NumWordsFor(rd) - rd
         /\ \A k \in 1 .. NumWordsFor(rd) - rd :
              /\ SubSeq(W, rd + 1, NumWordsFor(rd))[k] = W[rd + k]
              /\ W[rd + k] \in WordSet(WordBits)
         /\ NumWordsFor(rd) - rd \in 0 .. 16
         /\ rd < NumRounds => NumWordsFor(rd) - rd \in 1 .. 16
         /\ rd + 16 < NumRounds => NumWordsFor(rd) = rd + 16
         /\ rd + 16 >= NumRounds => NumWordsFor(rd) = NumRounds
<1>2. W \in Seq(WordSet(WordBits))
  BY DEF CInv
<1>3. Len(W) = NumRounds /\ NumRounds \in {64, 80}
  BY Sizes DEF CInv
<1> DEFINE m == NumWordsFor(rd)
<1>4. /\ m \in Nat /\ m <= Len(W) /\ rd + 1 <= m + 1
      /\ rd + 1 \in 1 .. Len(W) + 1 /\ m \in rd + 1 - 1 .. Len(W)
      /\ m - rd \in 0 .. 16
      /\ rd < NumRounds => m - rd \in 1 .. 16
      /\ rd + 16 < NumRounds => m = rd + 16
      /\ rd + 16 >= NumRounds => m = NumRounds
  BY <1>3 DEF NumWordsFor
<1> HIDE DEF m
<1>5. /\ SubSeq(W, rd + 1, m) \in Seq(WordSet(WordBits))
      /\ Len(SubSeq(W, rd + 1, m)) = m - rd
      /\ \A k \in 1 .. m - rd : SubSeq(W, rd + 1, m)[k] = W[rd + k]
  <2>1. Len(SubSeq(W, rd + 1, m))
          = IF rd + 1 <= m THEN m - (rd + 1) + 1 ELSE 0
    BY <1>2, <1>3, <1>4, SubSeqProperties
  <2>2. \A k \in 1 .. m - (rd + 1) + 1 :
          SubSeq(W, rd + 1, m)[k] = W[rd + 1 + k - 1]
    BY <1>2, <1>3, <1>4, SubSeqProperties
  <2>3. SubSeq(W, rd + 1, m) \in Seq(WordSet(WordBits))
    BY <1>2, <1>3, <1>4, SubSeqProperties
  <2>4. m - (rd + 1) + 1 = m - rd /\ \A k \in Int : rd + 1 + k - 1 = rd + k
    BY <1>3, <1>4
  <2> QED BY <1>3, <1>4, <2>1, <2>2, <2>3, <2>4
<1>6. \A k \in 1 .. m - rd : W[rd + k] \in WordSet(WordBits)
  <2>1. \A k \in 1 .. m - rd : rd + k \in 1 .. Len(W)
    BY <1>3, <1>4
  <2> QED BY <1>2, <2>1
<1> QED BY <1>4, <1>5, <1>6 DEF m

(* The standards have the words that the next rounds read.                 *)
LEMMA WordsNow ==
  ASSUME CInv, hashPc = "rounds", hash # "MD5"
  PROVE  /\ StandardWords \in Seq(WordSet(WordBits))
         /\ Len(StandardWords) = NumWordsFor(round) - round
         /\ \A k \in 1 .. NumWordsFor(round) - round :
              StandardWords[k] = W[round + k] /\ W[round + k] \in WordSet(WordBits)
         /\ round < NumRounds => NumWordsFor(round) - round \in 1 .. 16
         /\ round + 16 < NumRounds => NumWordsFor(round) = round + 16
<1>1. StandardWords = SubSeq(W, round + 1, NumWordsFor(round))
  BY DEF StandardWords
<1>2. round \in 0 .. NumRounds
  BY DEF CInv
<1> QED BY <1>1, <1>2, WordsFrom

(* The constant and the word of a round.                                   *)
LEMMA RoundParts ==
  ASSUME CInv, hashPc = "rounds", round < NumRounds, hash # "MD5"
  PROVE  /\ Constants[hash][round] \in WordSet(WordBits)
         /\ W[round + 1] \in WordSet(WordBits)
         /\ StandardWords[1] = W[round + 1]
<1>1. round \in 0 .. NumRounds - 1 /\ hash \in HashNames
  BY Sizes DEF CInv
<1>2. 1 \in 1 .. NumWordsFor(round) - round
  BY WordsNow
<1> QED BY <1>1, <1>2, TablesType, WordsNow

(* The function of a round of SHA-1.                                       *)
LEMMA Sha1Function ==
  ASSUME CInv, hashPc = "rounds", hash = "SHA1", NEW x \in WordSet(WordBits),
         NEW y \in WordSet(WordBits), NEW z \in WordSet(WordBits)
  PROVE  /\ Rfc!Sha1Function(x, y, z) =
              CASE round \div 20 = 0 -> Ch(x, y, z)
                [] round \div 20 = 2 -> Maj(x, y, z)
                [] OTHER             -> F1(x, y, z)
         /\ Rfc!Sha1Function(x, y, z) \in WordSet(WordBits)
<1>1. StandardRound = round /\ hash \in HashNames
  BY DEF StandardRound, CInv
<1>2. /\ Rfc!Choice(x, y, z) = Ch(x, y, z)
      /\ Rfc!Majority(x, y, z) = Maj(x, y, z)
      /\ Rfc!Parity(x, y, z) = F1(x, y, z)
  BY <1>1, SameLogic
<1>3. Ch(x, y, z) \in WordSet(WordBits) /\ F1(x, y, z) \in WordSet(WordBits)
      /\ Maj(x, y, z) \in WordSet(WordBits)
  BY <1>1, LogicType
<1> QED BY <1>1, <1>2, <1>3 DEF Rfc!Sha1Function

(* A round of SHA-1.                                                       *)
LEMMA Sha1Agrees ==
  ASSUME CInv, hashPc = "rounds", round < NumRounds, hash = "SHA1",
         hash' = hash, round' = round + 1, Sha1Step
  PROVE  /\ regs' \in [Registers -> WordSet(WordBits)]
         /\ \A k \in Registers : Arg(k)' = Rfc!Sha1Round[k + 1]
<1> DEFINE logic == Rfc!Sha1Function(Arg(1), Arg(2), Arg(3))
           word  == W[round + 1]
           const == Constants[hash][round]
           five  == Rol(Arg(0), 5, 32)
           X     == Add(Add(Add(Add(five, logic), Arg(4)), word), const)
           Y     == Rol(Arg(1), 30, 32)
<1>1. hash \in HashNames /\ WordBits \in Nat /\ WordBits = 32
      /\ NumRegisters[hash] = 5 /\ Registers = 0 .. 4
  <2>1. hash \in HashNames
    BY DEF CInv
  <2>2. WordBits = 32 /\ NumRegisters[hash] = 5
    BY <2>1, Sizes
  <2> QED BY <2>1, <2>2 DEF Registers
<1>2. /\ Arg(0) \in WordSet(WordBits) /\ Arg(1) \in WordSet(WordBits)
      /\ Arg(2) \in WordSet(WordBits) /\ Arg(3) \in WordSet(WordBits)
      /\ Arg(4) \in WordSet(WordBits)
  BY Names
<1>3. /\ const \in WordSet(WordBits) /\ word \in WordSet(WordBits)
      /\ StandardWords[1] = word
  BY RoundParts
<1>4. logic \in WordSet(WordBits)
      /\ logic = CASE round \div 20 = 0 -> Ch(Arg(1), Arg(2), Arg(3))
                   [] round \div 20 = 2 -> Maj(Arg(1), Arg(2), Arg(3))
                   [] OTHER             -> F1(Arg(1), Arg(2), Arg(3))
  BY <1>2, Sha1Function
<1>5. five \in WordSet(WordBits) /\ Y \in WordSet(WordBits)
      /\ five = Rfc!Rol(Arg(0), 5, 32) /\ Y = Rfc!Rol(Arg(1), 30, 32)
  <2>2. Rol(Arg(0), 5, 32) \in WordSet(WordBits) /\ Rol(Arg(1), 30, 32) \in WordSet(WordBits)
    <3> DEFINE a0 == Arg(0)
               a1 == Arg(1)
    <3>1. a0 \in WordSet(WordBits) /\ a1 \in WordSet(WordBits)
      BY <1>2
    <3> HIDE DEF a0, a1
    <3>2. Rol(a0, 5, 32) \in WordSet(WordBits)
      BY <1>1, <3>1, RotationType DEF WordSet
    <3>3. Rol(a1, 30, 32) \in WordSet(WordBits)
      BY <1>1, <3>1, RotationType DEF WordSet
    <3> QED BY <3>2, <3>3 DEF a0, a1
  <2>3. /\ Rfc!Rol(Arg(0), 5, 32) = Rol(Arg(0), 5, 32)
        /\ Rfc!Rol(Arg(1), 30, 32) = Rol(Arg(1), 30, 32)
    BY SameWords
  <2> QED BY <2>2, <2>3
<1>6. X \in WordSet(WordBits)
      /\ X = Rfc!Plus(Rfc!Plus(Rfc!Plus(five, logic), Rfc!Plus(Arg(4), const)), word)
  <2> DEFINE p == Add(five, logic)
             e == Arg(4)
  <2>1. p \in WordSet(WordBits) /\ e \in WordSet(WordBits)
    BY <1>1, <1>2, <1>4, <1>5, SumType
  <2>2. X = Add(Add(Add(p, e), word), const)
    OBVIOUS
  <2> HIDE DEF p, e, X, logic, five, word, const
  <2>3. Add(p, e) \in WordSet(WordBits) /\ Add(word, const) = Add(const, word)
    BY <1>1, <2>1, SumType, SumCommutes DEF Add
  <2>4. /\ Add(Add(Add(p, e), word), const) = Add(Add(p, e), Add(word, const))
        /\ Add(Add(Add(p, e), const), word) = Add(Add(p, e), Add(const, word))
        /\ Add(Add(p, e), const) = Add(p, Add(e, const))
        /\ X \in WordSet(WordBits)
    BY <1>1, <1>3, <2>1, <2>2, <2>3, SumOfFour, SumAssociates DEF Add, WordSet
  <2>5. X = Add(Add(p, Add(e, const)), word)
    BY <2>2, <2>3, <2>4
  <2> QED BY <1>1, <2>4, <2>5, SamePlus DEF p, e
<1>7. regs' = [regs EXCEPT ![Name(4)] = X, ![Name(1)] = Y]
  <2>1. Name(1) # Name(4) /\ Arg(4) = regs[Name(4)] /\ Arg(1) = regs[Name(1)]
    <3>1. Name(1) = (1 - round) % 5 /\ Name(4) = (4 - round) % 5 /\ round \in Int
      BY <1>1, Names, Sizes DEF CInv
    <3> QED BY <3>1 DEF Arg
  <2> HIDE DEF logic
  <2> QED BY <1>4, <2>1 DEF Sha1Step
<1> HIDE DEF X, Y, logic, word, const, five
<1>8. Rfc!Sha1Round = <<X, Arg(0), Y, Arg(2), Arg(3)>>
  <2>1. /\ StandardRegisters[0] = Arg(0) /\ StandardRegisters[1] = Arg(1)
        /\ StandardRegisters[2] = Arg(2) /\ StandardRegisters[3] = Arg(3)
        /\ StandardRegisters[4] = Arg(4) /\ StandardRound = round
    BY <1>1, RegistersNow
  <2> QED BY <1>3, <1>5, <1>6, <2>1 DEF Rfc!Sha1Round, logic, const
<1>9. regs' \in [Registers -> WordSet(WordBits)] /\ DOMAIN regs' = DOMAIN regs
  BY <1>5, <1>6, <1>7 DEF CInv
<1>10. /\ Name(0)' = Name(4) /\ Name(1)' = Name(0) /\ Name(2)' = Name(1)
       /\ Name(3)' = Name(2) /\ Name(4)' = Name(3)
       /\ Name(0) # Name(1) /\ Name(2) # Name(1) /\ Name(3) # Name(1)
       /\ Name(4) # Name(1) /\ Name(0) # Name(4) /\ Name(2) # Name(4)
       /\ Name(3) # Name(4)
  BY <1>1, <1>9, NextNames
<1>11. \A k \in Registers : Name(k) \in DOMAIN regs
  BY Names DEF CInv, Registers
<1>12. /\ Arg(0)' = X /\ Arg(1)' = Arg(0) /\ Arg(2)' = Y
       /\ Arg(3)' = Arg(2) /\ Arg(4)' = Arg(3)
  BY <1>1, <1>7, <1>10, <1>11 DEF Arg
<1>13. \A k \in 0 .. 4 : Arg(k)' = <<X, Arg(0), Y, Arg(2), Arg(3)>>[k + 1]
  BY <1>12
<1> QED BY <1>1, <1>8, <1>9, <1>13

(* The functions of SHA-256 and of SHA-512.                                *)
LEMMA SameSigma ==
  ASSUME hash \in {"SHA256", "SHA512"}, NEW x
  PROVE  /\ Rfc!Big(x, Rfc!Rotations[hash].S0) = Sigma0(x)
         /\ Rfc!Big(x, Rfc!Rotations[hash].S1) = Sigma1(x)
         /\ Rfc!Small(x, Rfc!Rotations[hash].s0) = Gamma0(x)
         /\ Rfc!Small(x, Rfc!Rotations[hash].s1) = Gamma1(x)
<1>1. \A a, b, c : Xor(a, Xor(b, c)) = Xor(Xor(a, b), c)
  BY DEF Xor
<1>2. \A a, b, c : Rfc!Parity(a, b, c) = Xor(Xor(a, b), c)
  <2>1. \A a, b : Rfc!Xor(a, b) = Xor(a, b)
    BY DEF Rfc!Xor, Xor
  <2> QED BY <1>1, <2>1 DEF Rfc!Parity
<1>3. \A n : Rfc!Right(x, n) = Ror(x, n, WordBits) /\ Rfc!Shr(x, n) = Shr(x, n)
  BY SamePlus, SameWords DEF HashNames
<1>4. \A n : /\ Rfc!Big(x, n) = S3(x, n[1], n[2], n[3])
             /\ Rfc!Small(x, n) = SR(x, n[1], n[2], n[3])
  BY <1>2, <1>3 DEF Rfc!Big, Rfc!Small, S3, SR
<1>5. CASE hash = "SHA256"
  <2>1. WordBits = 32
    BY <1>5 DEF WordBits
  <2> QED BY <1>4, <1>5, <2>1 DEF Rfc!Rotations, Sigma0, Sigma1, Gamma0, Gamma1
<1>6. CASE hash = "SHA512"
  <2>1. WordBits = 64
    BY <1>6 DEF WordBits
  <2> QED BY <1>4, <1>6, <2>1 DEF Rfc!Rotations, Sigma0, Sigma1, Gamma0, Gamma1
<1> QED BY <1>5, <1>6

(* A round of SHA-256 or SHA-512.                                          *)
LEMMA Sha2Agrees ==
  ASSUME CInv, hashPc = "rounds", round < NumRounds,
         hash \in {"SHA256", "SHA512"}, hash' = hash, round' = round + 1, RND
  PROVE  /\ regs' \in [Registers -> WordSet(WordBits)]
         /\ \A k \in Registers : Arg(k)' = Rfc!Sha2Round[k + 1]
<1> DEFINE word  == W[round + 1]
           const == Constants[hash][round]
           big0  == Sigma0(Arg(0))
           big1  == Sigma1(Arg(4))
           ch    == Ch(Arg(4), Arg(5), Arg(6))
           maj   == Maj(Arg(0), Arg(1), Arg(2))
           t0    == Add(Add(Add(Add(Arg(7), big1), ch), const), word)
           t1    == Add(big0, maj)
           X     == Add(t0, t1)
           Y     == Add(Arg(3), t0)
<1>1. hash \in HashNames /\ hash # "MD5" /\ WordBits \in Nat
      /\ NumRegisters[hash] = 8 /\ Registers = 0 .. 7
  <2>1. hash \in HashNames
    BY DEF CInv
  <2>2. WordBits \in Nat /\ NumRegisters[hash] = 8
    BY <2>1, Sizes
  <2> QED BY <2>1, <2>2 DEF Registers
<1>2. /\ Arg(0) \in WordSet(WordBits) /\ Arg(1) \in WordSet(WordBits)
      /\ Arg(2) \in WordSet(WordBits) /\ Arg(3) \in WordSet(WordBits)
      /\ Arg(4) \in WordSet(WordBits) /\ Arg(5) \in WordSet(WordBits)
      /\ Arg(6) \in WordSet(WordBits) /\ Arg(7) \in WordSet(WordBits)
  BY Names
<1>3. /\ const \in WordSet(WordBits) /\ word \in WordSet(WordBits)
      /\ StandardWords[1] = word
  BY <1>1, RoundParts
<1>4. /\ big0 \in WordSet(WordBits) /\ big1 \in WordSet(WordBits)
      /\ ch \in WordSet(WordBits) /\ maj \in WordSet(WordBits)
  BY <1>1, <1>2, SigmaType, LogicType
<1>5. /\ big0 = Rfc!Big(Arg(0), Rfc!Rotations[hash].S0)
      /\ big1 = Rfc!Big(Arg(4), Rfc!Rotations[hash].S1)
      /\ ch = Rfc!Choice(Arg(4), Arg(5), Arg(6))
      /\ maj = Rfc!Majority(Arg(0), Arg(1), Arg(2))
  <2>1. /\ big0 = Rfc!Big(Arg(0), Rfc!Rotations[hash].S0)
        /\ big1 = Rfc!Big(Arg(4), Rfc!Rotations[hash].S1)
    BY SameSigma
  <2>2. /\ ch = Rfc!Choice(Arg(4), Arg(5), Arg(6))
        /\ maj = Rfc!Majority(Arg(0), Arg(1), Arg(2))
    <3> DEFINE A(k) == Arg(k)
    <3>1. /\ A(0) \in WordSet(WordBits) /\ A(1) \in WordSet(WordBits)
          /\ A(2) \in WordSet(WordBits) /\ A(4) \in WordSet(WordBits)
          /\ A(5) \in WordSet(WordBits) /\ A(6) \in WordSet(WordBits)
      BY <1>2
    <3> HIDE DEF A
    <3>2. Rfc!Choice(A(4), A(5), A(6)) = Ch(A(4), A(5), A(6))
      BY <1>1, <3>1, SameLogic
    <3>3. Rfc!Majority(A(0), A(1), A(2)) = Maj(A(0), A(1), A(2))
      BY <1>1, <3>1, SameLogic
    <3> QED BY <3>2, <3>3 DEF A
  <2> QED BY <2>1, <2>2
<1>6. t0 \in WordSet(WordBits)
      /\ t0 = Rfc!Plus(Rfc!Plus(Arg(7), big1), Rfc!Plus(ch, Rfc!Plus(const, word)))
  <2> DEFINE p == Add(Arg(7), big1)
  <2>1. p \in WordSet(WordBits)
    BY <1>1, <1>2, <1>4, SumType
  <2>2. t0 = Add(Add(Add(p, ch), const), word)
    OBVIOUS
  <2> HIDE DEF p, t0, big1, ch, word, const
  <2>3. /\ Add(Add(Add(p, ch), const), word) = Add(Add(p, ch), Add(const, word))
        /\ t0 \in WordSet(WordBits) /\ Add(const, word) \in WordSet(WordBits)
    BY <1>1, <1>3, <1>4, <2>1, <2>2, SumOfFour, SumType
  <2>4. Add(Add(p, ch), Add(const, word)) = Add(p, Add(ch, Add(const, word)))
    BY <1>1, <1>4, <2>1, <2>3, SumAssociates DEF Add, WordSet
  <2>5. t0 = Add(p, Add(ch, Add(const, word)))
    BY <2>2, <2>3, <2>4
  <2> QED BY <1>1, <2>3, <2>5, SamePlus DEF p
<1>7. t1 \in WordSet(WordBits) /\ X \in WordSet(WordBits) /\ Y \in WordSet(WordBits)
  <2> HIDE DEF t0, big0, maj
  <2>1. t1 \in WordSet(WordBits) /\ Y \in WordSet(WordBits)
    BY <1>1, <1>2, <1>4, <1>6, SumType
  <2> HIDE DEF t1
  <2> QED BY <1>1, <1>6, <2>1, SumType
<1>8. regs' = [regs EXCEPT ![Name(3)] = Y, ![Name(7)] = X]
  BY DEF RND, Arg
<1> HIDE DEF t0
<1>9. /\ t1 = Rfc!Plus(big0, maj) /\ X = Rfc!Plus(t0, t1)
      /\ Y = Rfc!Plus(Arg(3), t0)
  <2>1. \A x, y : Rfc!Plus(x, y) = Add(x, y)
    BY <1>1, SamePlus
  <2> QED BY <2>1
<1> HIDE DEF X, Y, t1, big0, big1, ch, maj, word, const
<1>10. Rfc!Sha2Round = <<X, Arg(0), Arg(1), Arg(2), Y, Arg(4), Arg(5), Arg(6)>>
  <2>1. /\ StandardRegisters[0] = Arg(0) /\ StandardRegisters[1] = Arg(1)
        /\ StandardRegisters[2] = Arg(2) /\ StandardRegisters[3] = Arg(3)
        /\ StandardRegisters[4] = Arg(4) /\ StandardRegisters[5] = Arg(5)
        /\ StandardRegisters[6] = Arg(6) /\ StandardRegisters[7] = Arg(7)
        /\ StandardRound = round
    BY <1>1, RegistersNow
  <2> QED BY <1>3, <1>5, <1>6, <1>9, <2>1 DEF Rfc!Sha2Round, const
<1>11. regs' \in [Registers -> WordSet(WordBits)] /\ DOMAIN regs' = DOMAIN regs
  BY <1>7, <1>8 DEF CInv
<1>12. /\ Name(0)' = Name(7) /\ Name(1)' = Name(0) /\ Name(2)' = Name(1)
       /\ Name(3)' = Name(2) /\ Name(4)' = Name(3) /\ Name(5)' = Name(4)
       /\ Name(6)' = Name(5) /\ Name(7)' = Name(6)
       /\ \A a, b \in Registers : Name(a) = Name(b) => a = b
  BY <1>1, <1>11, NextNames
<1>13. /\ Name(0) # Name(3) /\ Name(1) # Name(3) /\ Name(2) # Name(3)
       /\ Name(4) # Name(3) /\ Name(5) # Name(3) /\ Name(6) # Name(3)
       /\ Name(0) # Name(7) /\ Name(1) # Name(7) /\ Name(2) # Name(7)
       /\ Name(3) # Name(7) /\ Name(4) # Name(7) /\ Name(5) # Name(7)
       /\ Name(6) # Name(7)
  BY <1>1, <1>12
<1>14. \A k \in Registers : Name(k) \in DOMAIN regs
  <2>1. DOMAIN regs = Registers
    BY DEF CInv
  <2> QED BY <1>1, <2>1, Names
<1>15. /\ Arg(0)' = X /\ Arg(1)' = Arg(0) /\ Arg(2)' = Arg(1) /\ Arg(3)' = Arg(2)
       /\ Arg(4)' = Y /\ Arg(5)' = Arg(4) /\ Arg(6)' = Arg(5) /\ Arg(7)' = Arg(6)
  <2>1. \A k : Arg(k)' = regs'[Name(k)'] /\ Arg(k) = regs[Name(k)]
    BY DEF Arg
  <2>2. /\ regs'[Name(7)] = X /\ regs'[Name(3)] = Y
        /\ regs'[Name(0)] = regs[Name(0)] /\ regs'[Name(1)] = regs[Name(1)]
        /\ regs'[Name(2)] = regs[Name(2)] /\ regs'[Name(4)] = regs[Name(4)]
        /\ regs'[Name(5)] = regs[Name(5)] /\ regs'[Name(6)] = regs[Name(6)]
    BY <1>1, <1>8, <1>13, <1>14
  <2> QED BY <1>12, <2>1, <2>2
<1>16. \A k \in 0 .. 7 : Arg(k)' =
         <<X, Arg(0), Arg(1), Arg(2), Y, Arg(4), Arg(5), Arg(6)>>[k + 1]
  BY <1>15
<1> QED BY <1>1, <1>10, <1>11, <1>16

-----------------------------------------------------------------------------
(* Every step of the code is one of the standards, or none.                *)

(* The word that the standards make in a round is the one that the code    *)
(* made sixteen rounds ahead.                                              *)
LEMMA LaterAgrees ==
  ASSUME CInv, hashPc = "rounds", hash # "MD5", round + 16 < NumRounds
  PROVE  Rfc!Later = W[round + 17]
<1>1. round \in Nat /\ hash \in HashNames /\ Len(W) = NumRounds /\ NumRounds \in Nat
  BY Sizes DEF CInv
<1>2. W[round + 17] = ScheduleWord(round + 17)
  <2>1. round + 17 \in 17 .. Len(W)
    BY <1>1
  <2> QED BY <2>1 DEF CInv, WordsAreScheduled
<1>3. \A k \in 1 .. 16 : StandardWords[k] = W[round + k]
  <2>1. NumWordsFor(round) - round = 16
    BY <1>1, WordsNow
  <2> QED BY <2>1, WordsNow
<1>4. /\ (round + 17) - 2 = round + 15 /\ (round + 17) - 3 = round + 14
      /\ (round + 17) - 7 = round + 10 /\ (round + 17) - 8 = round + 9
      /\ (round + 17) - 14 = round + 3 /\ (round + 17) - 15 = round + 2
      /\ (round + 17) - 16 = round + 1
  BY <1>1
<1>7. /\ W[(round + 17) - 2] = W[round + 15] /\ W[(round + 17) - 3] = W[round + 14]
      /\ W[(round + 17) - 7] = W[round + 10] /\ W[(round + 17) - 8] = W[round + 9]
      /\ W[(round + 17) - 14] = W[round + 3] /\ W[(round + 17) - 15] = W[round + 2]
      /\ W[(round + 17) - 16] = W[round + 1]
  BY <1>4, Zenon
<1>5. CASE hash = "SHA1"
  <2>1. \A a, b, c : Xor(a, Xor(b, c)) = Xor(Xor(a, b), c)
    BY DEF Xor
  <2>2. \A a, b : Rfc!Xor(a, b) = Xor(a, b)
    BY DEF Rfc!Xor, Xor
  <2>3. \A a : Rfc!Rol(a, 1, 32) = Rol(a, 1, 32)
    BY DEF Rfc!Rol, Rol
  <2>4. Rfc!Later = Rol(Xor(Xor(StandardWords[14], Xor(StandardWords[9],
                          StandardWords[3])), StandardWords[1]), 1, 32)
    BY <1>5, <2>2, <2>3 DEF Rfc!Later, Rfc!Parity
  <2>5. Rfc!Later = Rol(Xor(Xor(Xor(W[round + 14], W[round + 9]),
                          W[round + 3]), W[round + 1]), 1, 32)
    BY <1>3, <2>1, <2>4
  <2> DEFINE n == round + 17
  <2>6. /\ W[n - 3] = W[round + 14] /\ W[n - 8] = W[round + 9]
        /\ W[n - 14] = W[round + 3] /\ W[n - 16] = W[round + 1]
    BY <1>7, Zenon
  <2> HIDE DEF n
  <2>7. ScheduleWord(n) = Rol(Xor(Xor(Xor(W[round + 14], W[round + 9]),
                          W[round + 3]), W[round + 1]), 1, 32)
    BY <1>5, <2>6 DEF ScheduleWord
  <2> QED BY <1>2, <2>5, <2>7 DEF n
<1>6. CASE hash # "SHA1"
  <2>1. hash \in {"SHA256", "SHA512"} /\ WordBits \in Nat
    BY <1>1, <1>6, Sizes DEF HashNames
  <2> DEFINE g1 == Gamma1(W[round + 15])
             g0 == Gamma0(W[round + 2])
             x  == W[round + 10]
             y  == W[round + 1]
  <2>2. \A z : /\ Rfc!Small(z, Rfc!Rotations[hash].s0) = Gamma0(z)
               /\ Rfc!Small(z, Rfc!Rotations[hash].s1) = Gamma1(z)
    BY <2>1, SameSigma
  <2>3. \A a, b : Rfc!Plus(a, b) = Add(a, b)
    BY <1>1, SamePlus
  <2>4. Rfc!Later = Add(Add(g1, x), Add(g0, y))
    <3>1. Rfc!Later = Rfc!Plus(Rfc!Plus(g1, x), Rfc!Plus(g0, y))
      BY <1>3, <1>6, <2>2 DEF Rfc!Later
    <3> QED BY <2>3, <3>1
  <2>5. ScheduleWord(round + 17) = Add(Add(Add(g1, x), g0), y)
    <3> DEFINE n == round + 17
    <3>1. /\ W[n - 2] = W[round + 15] /\ W[n - 7] = x
          /\ W[n - 15] = W[round + 2] /\ W[n - 16] = y
      BY <1>7, Zenon
    <3> HIDE DEF n, x, y
    <3>2. ScheduleWord(n) = Add(Add(Add(g1, x), g0), y)
      BY <1>6, <3>1 DEF ScheduleWord
    <3> QED BY <3>2 DEF n
  <2>6. /\ g1 \in WordSet(WordBits) /\ g0 \in WordSet(WordBits)
        /\ x \in WordSet(WordBits) /\ y \in WordSet(WordBits)
    <3>1. \A k \in 1 .. 16 : W[round + k] \in WordSet(WordBits)
      <4>1. NumWordsFor(round) - round = 16
        BY <1>1, WordsNow
      <4> QED BY <4>1, WordsNow
    <3>2. W[round + 15] \in WordSet(WordBits) /\ W[round + 2] \in WordSet(WordBits)
      BY <3>1
    <3> QED BY <1>1, <3>1, <3>2, SigmaType
  <2> HIDE DEF g1, g0, x, y
  <2>7. Add(g1, x) \in WordSet(WordBits)
    BY <1>1, <2>6, SumType
  <2>8. Add(Add(Add(g1, x), g0), y) = Add(Add(g1, x), Add(g0, y))
    BY <2>1, <2>6, <2>7, SumAssociates DEF Add, WordSet
  <2> QED BY <1>2, <2>4, <2>5, <2>8
<1> QED BY <1>5, <1>6

(* A round keeps the invariant, and is the round of the standards.         *)
LEMMA RunRoundAgrees ==
  ASSUME CInv, RunRound
  PROVE  CInv' /\ Rfc!Round
<1>1. /\ hashPc = "rounds" /\ round < NumRounds /\ round' = round + 1
      /\ UNCHANGED <<hash, hashPc, state, W, compressions>>
  BY DEF RunRound
<1>2. hash \in HashNames /\ round \in Nat /\ NumRounds \in Nat
  BY Sizes DEF CInv
<1> DEFINE w == CASE hash = "MD5"  -> Rfc!Md5Round
                  [] hash = "SHA1" -> Rfc!Sha1Round
                  [] OTHER         -> Rfc!Sha2Round
<1>3. /\ regs' \in [Registers -> WordSet(WordBits)]
      /\ \A k \in Registers : Arg(k)' = w[k + 1]
  <2>1. CASE hash = "MD5"
    <3>1. Md5Step
      BY <2>1 DEF RunRound
    <3>2. w = Rfc!Md5Round
      BY <2>1
    <3> QED BY <1>1, <2>1, <3>1, <3>2, Md5Agrees
  <2>2. CASE hash = "SHA1"
    <3>1. Sha1Step
      BY <2>2 DEF RunRound
    <3>2. w = Rfc!Sha1Round
      BY <2>2
    <3> QED BY <1>1, <2>2, <3>1, <3>2, Sha1Agrees
  <2>3. CASE hash \in {"SHA256", "SHA512"}
    <3>1. RND
      BY <2>3 DEF RunRound
    <3>2. w = Rfc!Sha2Round
      BY <2>3
    <3> QED BY <1>1, <2>3, <3>1, <3>2, Sha2Agrees
  <2> QED BY <1>2, <2>1, <2>2, <2>3 DEF HashNames
<1>4. WordBits' = WordBits /\ NumRounds' = NumRounds /\ Registers' = Registers
  BY <1>1, SameHash
<1>5. CInv'
  <2>1. WordsAreScheduled'
    <3>1. ASSUME NEW n PROVE ScheduleWord(n)' = ScheduleWord(n)
      BY <1>1, SameScheduleWord
    <3> QED BY <1>1, <3>1 DEF CInv, WordsAreScheduled
  <2>2. round' \in 0 .. NumRounds'
    BY <1>1, <1>2, <1>4
  <2> QED BY <1>1, <1>3, <1>4, <2>1, <2>2 DEF CInv
<1>6. Rfc!Rounds[hash] = NumRounds /\ StandardRound = round /\ StandardRound' = round'
  BY <1>1, <1>2, SameSizes DEF StandardRound
<1>7. /\ DOMAIN StandardRegisters = Registers /\ StandardRegisters # <<>>
  BY <1>1, RegistersNow
<1>8. StandardRegisters' = [k \in DOMAIN StandardRegisters |-> w[k + 1]]
  <2> HIDE DEF w
  <2>1. DOMAIN regs' = Registers
    BY <1>3
  <2>2. StandardRegisters' = [k \in Registers |-> Arg(k)']
    BY <1>1, <2>1 DEF StandardRegisters
  <2> QED BY <1>3, <1>7, <2>2
<1>9. StandardWords' = IF hash = "MD5" THEN StandardWords
                       ELSE IF StandardRound + 16 < Rfc!Rounds[hash]
                       THEN Append(Tail(StandardWords), Rfc!Later)
                       ELSE Tail(StandardWords)
  <2>1. CASE hash = "MD5"
    BY <1>1, <2>1 DEF StandardWords
  <2>2. CASE hash # "MD5"
    <3> DEFINE M == StandardWords
               N == SubSeq(W, round + 1 + 1, NumWordsFor(round + 1))
    <3>1. StandardWords' = N
      <4>1. NumWordsFor(round)' = NumWordsFor(round + 1)
        BY <1>1, <1>4 DEF NumWordsFor
      <4> QED BY <1>1, <2>2, <4>1 DEF StandardWords
    <3>2. /\ M \in Seq(WordSet(WordBits)) /\ Len(M) = NumWordsFor(round) - round
          /\ \A k \in 1 .. Len(M) : M[k] = W[round + k]
          /\ Len(M) \in 1 .. 16
      BY <1>1, <2>2, WordsNow
    <3>3. /\ N \in Seq(WordSet(WordBits))
          /\ Len(N) = NumWordsFor(round + 1) - (round + 1)
          /\ \A k \in 1 .. Len(N) : N[k] = W[round + 1 + k]
      <4>1. round + 1 \in 0 .. NumRounds
        BY <1>1, <1>2
      <4> QED BY <1>1, <2>2, <4>1, WordsFrom
    <3>4. NumRounds >= 64
      BY <1>2, Sizes
    <3> HIDE DEF M, N
    <3>5. /\ Tail(M) \in Seq(WordSet(WordBits)) /\ Len(Tail(M)) = Len(M) - 1
          /\ \A k \in 1 .. Len(M) - 1 : Tail(M)[k] = W[round + 1 + k]
      <4>1. /\ Tail(M) \in Seq(WordSet(WordBits)) /\ Len(Tail(M)) = Len(M) - 1
            /\ \A k \in 1 .. Len(M) - 1 : Tail(M)[k] = M[k + 1]
        BY <3>2
      <4>2. \A k \in 1 .. Len(M) - 1 :
              k + 1 \in 1 .. Len(M) /\ round + (k + 1) = round + 1 + k
        BY <1>2, <3>2
      <4> QED BY <3>2, <4>1, <4>2
    <3>6. CASE round + 16 < NumRounds
      <4> DEFINE T == Tail(M)
      <4>1. Len(M) = 16 /\ Len(N) = 16 /\ Len(M) - 1 = 15
        BY <1>2, <3>2, <3>3, <3>4, <3>6 DEF NumWordsFor
      <4>2. Rfc!Later = W[round + 17]
        BY <1>1, <2>2, <3>6, LaterAgrees
      <4>3. /\ T \in Seq(WordSet(WordBits)) /\ Len(T) = 15
            /\ \A k \in 1 .. 15 : T[k] = W[round + 1 + k]
        <5>1. \A k \in 1 .. 15 : T[k] = W[round + 1 + k]
          BY <3>5, <4>1
        <5>2. T \in Seq(WordSet(WordBits)) /\ Len(T) = 15
          BY <3>5, <4>1
        <5> QED BY <5>1, <5>2
      <4> HIDE DEF T
      <4>4. W[round + 17] \in WordSet(WordBits)
        <5>1. W \in Seq(WordSet(WordBits)) /\ Len(W) = NumRounds
          BY <1>1, <2>2 DEF CInv
        <5>2. round + 17 \in 1 .. Len(W)
          BY <1>2, <3>6, <5>1
        <5> QED BY <5>1, <5>2
      <4> DEFINE L == W[round + 17]
                 A == Append(T, L)
      <4>5. /\ A \in Seq(WordSet(WordBits)) /\ Len(A) = 16
            /\ A[16] = L /\ \A k \in 1 .. 15 : A[k] = T[k]
        <5>1. L \in WordSet(WordBits)
          BY <4>4
        <5> HIDE DEF L
        <5>2. /\ A \in Seq(WordSet(WordBits)) /\ Len(A) = Len(T) + 1
              /\ A[Len(T) + 1] = L /\ \A k \in 1 .. Len(T) : A[k] = T[k]
          <6> DEFINE V == WordSet(WordBits)
          <6>1. T \in Seq(V) /\ L \in V
            BY <4>3, <5>1
          <6> HIDE DEF V
          <6>2. /\ Append(T, L) \in Seq(V) /\ Len(Append(T, L)) = Len(T) + 1
                /\ \A k \in 1 .. Len(T) : Append(T, L)[k] = T[k]
                /\ Append(T, L)[Len(T) + 1] = L
            BY <6>1, AppendProperties
          <6> QED BY <6>2 DEF V
        <5> HIDE DEF A
        <5> QED BY <4>3, <5>2
      <4>6. \A k \in 1 .. 16 : A[k] = N[k]
        <5>1. N[16] = W[round + 17]
          <6>1. round + 1 + 16 = round + 17 /\ 16 \in 1 .. Len(N)
            BY <1>2, <4>1
          <6> QED BY <3>3, <6>1
        <5>2. \A k \in 1 .. 15 : N[k] = W[round + 1 + k]
          <6>1. \A k \in 1 .. 15 : k \in 1 .. Len(N)
            BY <4>1
          <6> QED BY <3>3, <6>1
        <5> HIDE DEF A
        <5>3. \A k \in 1 .. 15 : A[k] = N[k]
          BY <4>3, <4>5, <5>2
        <5>4. A[16] = N[16]
          BY <4>5, <5>1
        <5>5. \A k \in 1 .. 16 : k = 16 \/ k \in 1 .. 15
          OBVIOUS
        <5> QED BY <5>3, <5>4, <5>5
      <4> HIDE DEF A
      <4>7. A = N
        <5>1. N \in Seq(WordSet(WordBits)) /\ A \in Seq(WordSet(WordBits))
          BY <3>3, <4>5
        <5>2. Len(A) = Len(N) /\ \A k \in 1 .. Len(A) : A[k] = N[k]
          BY <4>1, <4>5, <4>6
        <5> QED BY <5>1, <5>2, SeqEqual
      <4> QED BY <1>6, <2>2, <3>1, <3>6, <4>2, <4>7 DEF A, T, M
    <3>7. CASE round + 16 >= NumRounds
      <4>1. Len(M) - 1 = Len(N)
        BY <1>1, <1>2, <3>2, <3>3, <3>4, <3>7 DEF NumWordsFor
      <4> DEFINE T == Tail(M)
      <4>2. /\ T \in Seq(WordSet(WordBits)) /\ Len(T) = Len(N)
            /\ \A k \in 1 .. Len(N) : T[k] = N[k]
        BY <3>3, <3>5, <4>1
      <4> HIDE DEF T
      <4>3. T = N
        BY <3>3, <4>2, SeqEqual
      <4>4. ~ (round + 16 < NumRounds)
        BY <1>2, <3>7
      <4> QED BY <1>6, <2>2, <3>1, <4>3, <4>4 DEF T, M
    <3> QED BY <1>2, <3>6, <3>7
  <2> QED BY <2>1, <2>2
<1>10. /\ StandardRound < Rfc!Rounds[hash] /\ StandardRound' = StandardRound + 1
       /\ UNCHANGED <<hash, state>>
  BY <1>1, <1>6
<1>11. Rfc!Round
  BY <1>7, <1>8, <1>9, <1>10 DEF Rfc!Round
<1> QED BY <1>5, <1>11

(* The first words of a sequence that has more of them.                    *)
LEMMA FirstSixteen ==
  ASSUME NEW V, NEW v \in Seq(V), NEW u \in Seq(V), Len(v) >= 16
  PROVE  /\ Len(v) = 16 => SubSeq(v, 1, 16) = v
         /\ Len(u) >= 16 /\ (\A k \in 1 .. 16 : v[k] = u[k]) =>
              SubSeq(v, 1, 16) = SubSeq(u, 1, 16)
<1> DEFINE F(x) == SubSeq(x, 1, 16)
<1>1. ASSUME NEW x \in Seq(V), Len(x) >= 16
      PROVE  /\ F(x) \in Seq(V) /\ Len(F(x)) = 16
             /\ \A k \in 1 .. 16 : F(x)[k] = x[k]
  <2>1. Len(x) \in Nat
    OBVIOUS
  <2>2. \A m \in 1 .. 16 : x[m] \in V
    <3>1. \A m \in 1 .. Len(x) : x[m] \in V
      OBVIOUS
    <3> QED BY <1>1, <2>1, <3>1
  <2>3. Len(F(x)) = 16 /\ F(x) \in Seq(V)
    <3>1. Len(F(x)) = IF 1 <= 16 THEN 16 - 1 + 1 ELSE 0
      BY <2>2, SubSeqProperties
    <3>2. F(x) \in Seq(V)
      BY <2>2, SubSeqProperties
    <3> QED BY <3>1, <3>2
  <2>4. \A k \in 1 .. 16 : F(x)[k] = x[k]
    BY <1>1, <2>1
  <2> QED BY <2>3, <2>4
<1> HIDE DEF F
<1>2. ASSUME Len(v) = 16 PROVE F(v) = v
  <2>1. F(v) \in Seq(V) /\ Len(F(v)) = Len(v)
    BY <1>1, <1>2
  <2>2. \A k \in 1 .. Len(F(v)) : F(v)[k] = v[k]
    BY <1>1, <1>2
  <2> QED BY <2>1, <2>2, SeqEqual
<1>3. ASSUME Len(u) >= 16, \A k \in 1 .. 16 : v[k] = u[k] PROVE F(v) = F(u)
  <2>1. F(v) \in Seq(V) /\ F(u) \in Seq(V) /\ Len(F(v)) = 16 /\ Len(F(u)) = 16
    BY <1>1, <1>3
  <2>2. \A k \in 1 .. 16 : F(v)[k] = F(u)[k]
    BY <1>1, <1>3
  <2> QED BY <2>1, <2>2, SeqEqual
<1> QED BY <1>2, <1>3 DEF F

(* The loop that fills the schedule is not a step of the standards.        *)
LEMMA ExpandWordStutters ==
  ASSUME CInv, ExpandWord
  PROVE  UNCHANGED <<hash, state, StandardRegisters, StandardWords, StandardRound>>
<1> DEFINE n == Len(W) + 1
<1>1. /\ hashPc = "expand" /\ W' = Append(W, ScheduleWord(n))
      /\ hashPc' \in {"rounds", "expand"}
      /\ UNCHANGED <<hash, state, regs, round, compressions>>
  BY DEF ExpandWord
<1>2. hash \in HashNames /\ hash # "MD5" /\ round = 0
      /\ Len(W) \in 16 .. NumRounds - 1 /\ W \in Seq(WordSet(WordBits))
  BY <1>1 DEF CInv
<1>3. NumRounds \in {64, 80} /\ NumRounds' = NumRounds
  BY <1>1, <1>2, Sizes, SameHash
<1>4. StandardRegisters' = StandardRegisters
  BY <1>1 DEF StandardRegisters, Arg, Name
<1>5. StandardWords' = StandardWords
  <2>1. /\ round + 1 = 1 /\ NumWordsFor(round) = 16
        /\ round' + 1 = 1 /\ NumWordsFor(round)' = 16
    BY <1>1, <1>2, <1>3 DEF NumWordsFor
  <2>2. StandardWords = SubSeq(W, 1, 16) /\ StandardWords' = SubSeq(W', 1, 16)
    BY <1>1, <1>2, <2>1 DEF StandardWords
  <2>3. ScheduleWord(n) \in WordSet(WordBits)
    <3>1. n \in 17 .. Len(W) + 1
      BY <1>2, <1>3
    <3> QED BY <1>2, <3>1, WordScheduleType
  <2>4. /\ W' \in Seq(WordSet(WordBits)) /\ Len(W') = Len(W) + 1
        /\ \A k \in 1 .. Len(W) : W'[k] = W[k]
    BY <1>1, <1>2, <2>3, AppendProperties
  <2> DEFINE V == WordSet(WordBits)
             X == W'
  <2>5. /\ W \in Seq(V) /\ X \in Seq(V) /\ Len(W) >= 16 /\ Len(X) >= 16
        /\ \A k \in 1 .. 16 : X[k] = W[k]
    <3>1. /\ Len(W) \in Nat /\ Len(W) >= 16 /\ W \in Seq(V)
          /\ X \in Seq(V) /\ Len(X) = Len(W) + 1
      BY <1>2, <1>3, <2>4
    <3>2. \A k \in 1 .. 16 : k \in 1 .. Len(W)
      BY <3>1
    <3>3. \A k \in 1 .. 16 : X[k] = W[k]
      BY <2>4, <3>2
    <3> HIDE DEF V, X
    <3> QED BY <3>1, <3>3
  <2> HIDE DEF V, X
  <2>6. SubSeq(X, 1, 16) = SubSeq(W, 1, 16)
    BY <2>5, FirstSixteen
  <2> QED BY <2>2, <2>6 DEF X
<1>6. StandardRound' = StandardRound
  BY <1>1 DEF StandardRound
<1> QED BY <1>1, <1>4, <1>5, <1>6

(* The standards begin with a block.                                       *)
LEMMA LoadBlockAgrees ==
  ASSUME CInv, NEW block \in HashBlocks, LoadBlock(block)
  PROVE  Rfc!Begin
<1>1. /\ hashPc = "idle" /\ hash' = hash /\ state' = state /\ regs' = state
      /\ round' = 0 /\ hashPc' = IF hash = "MD5" THEN "rounds" ELSE "expand"
      /\ W' = [n \in 1 .. 16 |-> IF hash = "MD5" THEN LoadL(block, n - 1, 32)
                                 ELSE LoadH(block, n - 1, WordBits)]
  BY DEF LoadBlock
<1>2. CInv'
  BY LoadBlockKeepsCInv
<1>3. /\ StandardRegisters = <<>> /\ StandardRound = 0 /\ StandardRound' = 0
  BY <1>1 DEF StandardRegisters, StandardRound
<1>4. StandardRegisters' = state
  <2>1. hash' \in HashNames /\ NumRegisters[hash]' = NumRegisters[hash]
        /\ NumRegisters[hash] \in {4, 5, 8}
    BY <1>1, Sizes DEF CInv
  <2>2. state \in [Registers -> WordSet(WordBits)] /\ DOMAIN state = Registers
    BY DEF CInv
  <2>3. StandardRegisters' = [k \in Registers |-> Arg(k)']
    BY <1>1, <2>2 DEF StandardRegisters
  <2>4. Cardinality(Registers) = NumRegisters[hash]
    <3>1. Cardinality(DOMAIN regs) = NumRegisters[hash]
      BY Names
    <3> QED BY <3>1 DEF CInv
  <2>5. ASSUME NEW k \in Registers PROVE Arg(k)' = state[k]
    <3>1. Name(k)' = (k - 0) % NumRegisters[hash]
      BY <1>1, <2>2, <2>4 DEF Name
    <3>2. (k - 0) % NumRegisters[hash] = k
      <4>1. CASE NumRegisters[hash] = 4
        BY <4>1 DEF Registers
      <4>2. CASE NumRegisters[hash] = 5
        BY <4>2 DEF Registers
      <4>3. CASE NumRegisters[hash] = 8
        BY <4>3 DEF Registers
      <4> QED BY <2>1, <4>1, <4>2, <4>3
    <3> QED BY <1>1, <3>1, <3>2 DEF Arg
  <2> QED BY <2>2, <2>3, <2>5
<1>5. StandardWords' = W' /\ W' \in Seq(WordSet(WordBits)) /\ Len(W') = 16
  <2>1. hash \in HashNames /\ WordBits' = WordBits /\ NumRounds' = NumRounds
        /\ NumRounds \in {64, 80}
    BY <1>1, SameHash, Sizes DEF CInv
  <2>2. W' \in Seq(WordSet(WordBits))
    BY <1>2, <2>1 DEF CInv
  <2>3. Len(W') = 16 /\ DOMAIN W' = 1 .. 16
    BY <1>1, <2>2
  <2>4. CASE hash = "MD5"
    BY <1>1, <2>2, <2>3, <2>4 DEF StandardWords
  <2>5. CASE hash # "MD5"
    <3>1. StandardWords' = SubSeq(W', 1, 16)
      BY <1>1, <2>1, <2>5 DEF StandardWords, NumWordsFor
    <3> DEFINE X == W'
               V == WordSet(WordBits)
    <3>2. X \in Seq(V) /\ Len(X) = 16
      BY <2>2, <2>3
    <3> HIDE DEF X, V
    <3>3. SubSeq(X, 1, 16) = X
      BY <3>2, FirstSixteen
    <3> QED BY <2>2, <2>3, <3>1, <3>3 DEF X
  <2> QED BY <2>4, <2>5
<1>6. Rfc!Bit(Rfc!Width[hash]) = Bit(WordBits)
  BY SameSizes, SameWords DEF CInv
<1> QED BY <1>1, <1>3, <1>4, <1>5, <1>6 DEF Rfc!Begin, WordSet

(* The end of a block: after the last round every register has its first   *)
(* name again, and the sums are those of the standards.                    *)
LEMMA FeedbackAgrees ==
  ASSUME CInv, Feedback
  PROVE  CInv' /\ Rfc!End
<1>1. /\ hashPc = "rounds" /\ round = NumRounds /\ hashPc' = "idle"
      /\ state' = [k \in DOMAIN state |-> Add(state[k], regs[k])]
      /\ UNCHANGED <<hash, regs, W, round, compressions>>
  BY DEF Feedback
<1>2. /\ hash \in HashNames
      /\ state \in [Registers -> WordSet(WordBits)]
      /\ regs \in [Registers -> WordSet(WordBits)]
      /\ DOMAIN state = Registers
  BY DEF CInv
<1>3. \A k \in Registers : Add(state[k], regs[k]) \in WordSet(WordBits)
  <2> SUFFICES ASSUME NEW k \in Registers
               PROVE  Add(state[k], regs[k]) \in WordSet(WordBits)
    OBVIOUS
  <2>1. state[k] \in WordSet(WordBits) /\ regs[k] \in WordSet(WordBits)
    BY <1>2
  <2> QED BY <1>2, <2>1, SumType
<1>4. WordBits' = WordBits /\ NumRounds' = NumRounds /\ Registers' = Registers
  BY <1>1, SameHash
<1>5. CInv'
  <2>1. WordsAreScheduled'
    <3>1. ASSUME NEW n PROVE ScheduleWord(n)' = ScheduleWord(n)
      BY <1>1, SameScheduleWord
    <3> QED BY <1>1, <3>1 DEF CInv, WordsAreScheduled
  <2>2. state' \in [Registers -> WordSet(WordBits)]
    BY <1>1, <1>2, <1>3
  <2> QED BY <1>1, <1>4, <2>1, <2>2 DEF CInv
<1>6. \A k \in Registers : StandardRegisters[k] = regs[k]
  <2> SUFFICES ASSUME NEW k \in Registers PROVE StandardRegisters[k] = regs[k]
    OBVIOUS
  <2>1. StandardRegisters[k] = regs[Name(k)] /\ k \in Int
    BY <1>1, RegistersNow DEF Arg, Registers
  <2>2. Name(k) = (k - NumRounds) % NumRegisters[hash]
    BY <1>1, <2>1, Names
  <2>3. Name(k) = k
    <3>1. \/ NumRegisters[hash] = 4 /\ NumRounds = 64
          \/ NumRegisters[hash] = 5 /\ NumRounds = 80
          \/ NumRegisters[hash] = 8 /\ NumRounds = 64
          \/ NumRegisters[hash] = 8 /\ NumRounds = 80
      <4>1. hash = "MD5" \/ hash = "SHA1" \/ hash = "SHA256" \/ hash = "SHA512"
        BY <1>2 DEF HashNames
      <4> QED BY <1>2, <4>1, Sizes
    <3>2. CASE NumRegisters[hash] = 4 /\ NumRounds = 64
      BY <2>2, <3>2 DEF Registers
    <3>3. CASE NumRegisters[hash] = 5 /\ NumRounds = 80
      BY <2>2, <3>3 DEF Registers
    <3>4. CASE NumRegisters[hash] = 8 /\ NumRounds = 64
      BY <2>2, <3>4 DEF Registers
    <3>5. CASE NumRegisters[hash] = 8 /\ NumRounds = 80
      BY <2>2, <3>5 DEF Registers
    <3> QED BY <3>1, <3>2, <3>3, <3>4, <3>5
  <2> QED BY <2>1, <2>3
<1>7. StandardRegisters # <<>> /\ StandardRound = round
  BY <1>1, RegistersNow
<1>8. state' = [k \in DOMAIN state |-> Rfc!Plus(state[k], StandardRegisters[k])]
  <2>1. \A k \in Registers :
          Rfc!Plus(state[k], StandardRegisters[k]) = Add(state[k], regs[k])
    BY <1>2, <1>6, SamePlus
  <2> QED BY <1>1, <1>2, <2>1
<1>9. StandardRegisters' = <<>> /\ StandardWords' = <<>> /\ StandardRound' = 0
  BY <1>1 DEF StandardRegisters, StandardWords, StandardRound
<1>10. Rfc!Rounds[hash] = NumRounds
  BY <1>2, SameSizes
<1> QED BY <1>1, <1>5, <1>7, <1>8, <1>9, <1>10 DEF Rfc!End

LEMMA CStep ==
  ASSUME CInv, [CompressionNext]_compressionVars
  PROVE  CInv' /\ [Rfc!Next]_(Rfc!vars)
<1>1. ASSUME NEW block \in HashBlocks, LoadBlock(block)
      PROVE  CInv' /\ [Rfc!Next]_(Rfc!vars)
  BY <1>1, LoadBlockKeepsCInv, LoadBlockAgrees DEF Rfc!Next
<1>2. CASE ExpandWord
  BY <1>2, ExpandWordKeepsCInv, ExpandWordStutters DEF Rfc!vars
<1>3. CASE RunRound
  BY <1>3, RunRoundAgrees DEF Rfc!Next
<1>4. CASE Feedback
  BY <1>4, FeedbackAgrees DEF Rfc!Next
<1>5. CASE UNCHANGED compressionVars
  <2> USE <1>5 DEF compressionVars
  <2>1. WordBits' = WordBits /\ NumRounds' = NumRounds /\ Registers' = Registers
    BY SameHash
  <2>2. WordsAreScheduled'
    <3>1. ASSUME NEW n PROVE ScheduleWord(n)' = ScheduleWord(n)
      BY SameScheduleWord
    <3> QED BY <3>1 DEF CInv, WordsAreScheduled
  <2>3. CInv'
    BY <2>1, <2>2 DEF CInv
  <2>4. UNCHANGED <<StandardRegisters, StandardWords, StandardRound>>
    BY <2>1 DEF StandardRegisters, Arg, Name, StandardWords, NumWordsFor, StandardRound
  <2> QED BY <2>3, <2>4 DEF Rfc!vars
<1> QED BY <1>1, <1>2, <1>3, <1>4, <1>5 DEF CompressionNext

LEMMA CInvImpliesTypeOK == CInv => CompressionTypeOK
<1> SUFFICES ASSUME CInv PROVE CompressionTypeOK
  OBVIOUS
<1>1. /\ hashPc \in {"idle", "expand", "rounds"}
      /\ state \in [Registers -> WordSet(WordBits)]
      /\ regs \in [Registers -> WordSet(WordBits)]
      /\ W \in Seq(WordSet(WordBits)) /\ round \in 0 .. NumRounds
      /\ hashPc = "rounds" => Len(W) = IF hash = "MD5" THEN 16 ELSE NumRounds
  BY DEF CInv
<1>2. \A n \in DOMAIN W : W[n] \in WordSet(WordBits)
  BY <1>1
<1> QED BY <1>1, <1>2 DEF CompressionTypeOK, WordSet

(* CompressionTypeOK: no round of MD5, SHA-1, SHA-256 or SHA-512 reads a   *)
(* word that was not made, whatever the constants and the blocks.          *)
THEOREM CompressionTypeCorrect == CompressionSpec => []CompressionTypeOK
<1>1. CompressionInit => CInv
  BY CInitial
<1>2. CInv /\ [CompressionNext]_compressionVars => CInv'
  BY CStep
<1> QED BY <1>1, <1>2, CInvImpliesTypeOK, PTL DEF CompressionSpec

(* ImplementsStandard: for every block and every chaining value, and for   *)
(* every table of constants, the unrolled rounds with renamed registers,   *)
(* words made ahead and logical functions of fewer operations are, round   *)
(* for round, the compressions of RFC 1321 and FIPS 180.                   *)
THEOREM CompressionImplementsStandard == CompressionSpec => ImplementsStandard
<1>1. CompressionInit => CInv /\ Rfc!Init
  <2>1. ASSUME CompressionInit PROVE Rfc!Init
    <3>1. hash \in HashNames /\ state = InitialValues[hash] /\ hashPc = "idle"
      BY <2>1 DEF CompressionInit
    <3>2. hash \in DOMAIN Rfc!Rounds
      BY <3>1 DEF HashNames, Rfc!Rounds
    <3> QED BY <3>1, <3>2 DEF Rfc!Init, StandardRegisters, StandardWords, StandardRound
  <2> QED BY <2>1, CInitial
<1>2. CInv /\ [CompressionNext]_compressionVars => CInv' /\ [Rfc!Next]_(Rfc!vars)
  BY CStep
<1> QED BY <1>1, <1>2, PTL DEF CompressionSpec, ImplementsStandard, Rfc!Spec

-----------------------------------------------------------------------------
(* The three primitives in one run.                                        *)

(* A behaviour of the run is a behaviour of each of its parts.             *)
LEMMA PrimitivesAreParts ==
  PrimitivesSpec => Spec /\ DesSpec /\ CompressionSpec
<1>1. PrimitivesInit => Init /\ DesInit /\ CompressionInit
  BY DEF PrimitivesInit
<1>2. [PrimitivesNext]_primitivesVars =>
        [Next]_vars /\ [DesNext]_desVars /\ [CompressionNext]_compressionVars
  BY DEF PrimitivesNext, AesOnly, DesOnly, CompressionOnly, primitivesVars
<1> QED
  BY <1>1, <1>2, PTL DEF PrimitivesSpec, Spec, DesSpec, CompressionSpec

(* PrimitivesTypeOK: the unrolled loops of the block ciphers stay inside   *)
(* their schedules, and no round reads a word that was not made.           *)
THEOREM PrimitivesTypeCorrect == PrimitivesSpec => []PrimitivesTypeOK
BY PrimitivesAreParts, AesTypeCorrect, DesTypeCorrect, CompressionTypeCorrect,
   PTL DEF PrimitivesTypeOK
=============================================================================
