------------------------------ MODULE TripleDes ------------------------------
(***************************************************************************)
(* libnpmcrypto/des.c: des3_setup, des3_encrypt and des3_decrypt.          *)
(*                                                                         *)
(* The code does not do what FIPS 46 writes: the schedule holds a round    *)
(* key as two words laid out for the tables, the schedule of decryption is *)
(* the other one backwards, the words of a block stay rotated by one bit   *)
(* from the initial permutation to the final one, and an iteration is two  *)
(* rounds that exchange the words by name.  Decryption runs through the    *)
(* three keys with the middle one the other way around.                    *)
(***************************************************************************)
EXTENDS Fips46

CONSTANTS
  DesKeys,      (* the keys of the caller: a length, and the bits that are 1 *)
  DesGarbage,   (* what a word of des3_key may hold at first                 *)
  DesBlocks,    (* the blocks a caller begins with                           *)
  MaxDesSetups, (* bound on the calls of des3_setup                          *)
  MaxDesBlocks  (* bound on the calls of the other two                       *)

ASSUME DesKeysAssumption ==
  \A k \in DesKeys : k.len \in Nat /\ k.bits \subseteq 0 .. 8 * k.len - 1
ASSUME DesBlocksAssumption == DesBlocks \subseteq SUBSET Bits64
ASSUME DesGarbageAssumption == DesGarbage \subseteq DesWord
ASSUME DesBoundsAssumption == MaxDesSetups \in Nat /\ MaxDesBlocks \in Nat

EN0 == FALSE
DE1 == TRUE

VARIABLES
  ek, dk,    (* des3_key: three schedules of 32 words for either way         *)
  desPc,     (* "new", "setup", "ready", "loop"                              *)
  key,       (* the argument of des3_setup                                   *)
  deskeys,   (* its calls of deskey that are done                            *)
  desRet,    (* what the last function returned                              *)
  decrypts,  (* decryption?                                                  *)
  stage,     (* the call of desfunc that runs: 0, 1, 2                       *)
  cur_round, (* its loop counter                                             *)
  leftt, right,
  desInput,  (* history: the block of the last call                          *)
  desOutput, (* the block it has stored                                      *)
  desPlain,  (* history: the last block encrypted with this key              *)
  desTrace,  (* history: leftt and right at every test of its loops          *)
  desSetups, (* history: calls                                               *)
  desBlocks

des3KeyVars == <<ek, dk, key, deskeys, desSetups>>
desfuncVars == <<decrypts, stage, cur_round, leftt, right,
                 desInput, desOutput, desPlain, desTrace, desBlocks>>
desVars == <<des3KeyVars, desPc, desRet, desfuncVars>>

DesSchedule == [0 .. 31 -> DesWord]

-----------------------------------------------------------------------------
(* cookey: six bits of a word of kn, moved.                                *)
Field(w, from, to) == {(b + to) - from : b \in w \cap from .. from + 5}

cookey(kn) ==
  [n \in 0 .. 31 |->
     LET raw0 == kn[2 * (n \div 2)]
         raw1 == kn[2 * (n \div 2) + 1]
     IN  IF n % 2 = 0
         THEN Field(raw0, 18, 24) \cup Field(raw0, 6, 16)
              \cup Field(raw1, 18, 8) \cup Field(raw1, 6, 0)
         ELSE Field(raw0, 12, 24) \cup Field(raw0, 0, 16)
              \cup Field(raw1, 12, 8) \cup Field(raw1, 0, 0)]

(* pc1m: the bits of the key that PC1 chooses; a byte is read from its     *)
(* highest bit.  pcr: both halves rotated by the total for the round.      *)
KeyBit(k, offset, l) ==
  (8 * (offset + (l \div 8)) + 7) - bytebit(l % 8) \in k.bits
Pc1m(k, offset) == {j \in 0 .. 55 : KeyBit(k, offset, pc1[j])}
Rotated(pc1m, n) ==
  {j \in 0 .. 55 : (28 * (j \div 28)) + (((j % 28) + n) % 28) \in pc1m}

Kn(pc1m, edf) ==
  [m \in 0 .. 31 |->
     LET i == IF edf = DE1 THEN 15 - (m \div 2) ELSE m \div 2
         pcr == Rotated(pc1m, totrot[i])
     IN  {bigbyte(j) : j \in {j \in 0 .. 23 : pc2[j + 24 * (m % 2)] \in pcr}}]

deskey(k, offset, edf) == cookey(Kn(Pc1m(k, offset), edf))

-----------------------------------------------------------------------------
(* The words that a round adds to one half of the block from the other.    *)
SixAt(w, n) == {b - n : b \in w \cap n .. n + 5}

RoundWord(x, keys, at) ==
  LET w0 == Xor(RORc(x, 4), keys[at])
      w1 == Xor(x, keys[at + 1])
  IN  UNION {SP(7, SixAt(w0, 0)), SP(5, SixAt(w0, 8)),
             SP(3, SixAt(w0, 16)), SP(1, SixAt(w0, 24)),
             SP(8, SixAt(w1, 0)), SP(6, SixAt(w1, 8)),
             SP(4, SixAt(w1, 16)), SP(2, SixAt(w1, 24))}

(* A mutant: both rounds of an iteration read the same two words.          *)
IterationRepeatsKey(keys, n, l, r) ==
  LET l1 == Xor(l, RoundWord(r, keys, 4 * n))
  IN  <<l1, Xor(r, RoundWord(l1, keys, 4 * n))>>

(* One iteration of the loop of desfunc.                                   *)
Iteration(keys, n, l, r) ==
  LET l1 == Xor(l, RoundWord(r, keys, 4 * n))
  IN  <<l1, Xor(r, RoundWord(l1, keys, 4 * n + 2))>>

(* desfunc before its loop, and behind it: the words go out exchanged.     *)
Enter(x) == LET y == Permuted(des_ip, x) IN <<High(y), Low(y)>>
Leave(l, r) == LET y == Permuted(des_fp, Joined(l, r))
               IN  Joined(Low(y), High(y))

-----------------------------------------------------------------------------
DesInit ==
  /\ \E g \in DesGarbage : ek = [n \in 0 .. 2 |-> [m \in 0 .. 31 |-> g]]
  /\ dk = ek
  /\ desPc = "new"
  /\ key = [len |-> 0, bits |-> {}]
  /\ deskeys = 0
  /\ desRet = CRYPTO_OK
  /\ decrypts = FALSE
  /\ stage = 0 /\ cur_round = 0 /\ leftt = {} /\ right = {}
  /\ desInput = {} /\ desOutput = {} /\ desPlain = {}
  /\ desTrace = <<>>
  /\ desSetups = 0 /\ desBlocks = 0

(* des3_setup refuses a key, and touches nothing.                          *)
DesRefuse(k) ==
  /\ desPc \in {"new", "ready"}
  /\ desSetups < MaxDesSetups
  /\ k.len \notin {16, 24}
  /\ desRet' = CRYPTO_INVALID_KEYSIZE
  /\ desSetups' = desSetups + 1
  /\ UNCHANGED <<ek, dk, key, deskeys, desPc, desfuncVars>>

DesSetup(k) ==
  /\ desPc \in {"new", "ready"}
  /\ desSetups < MaxDesSetups
  /\ k.len \in {16, 24}
  /\ key' = k
  /\ deskeys' = 0
  /\ desPc' = "setup"
  /\ desTrace' = <<>>
  /\ desSetups' = desSetups + 1
  /\ UNCHANGED <<ek, dk, desRet, decrypts, stage, cur_round, leftt, right,
                 desInput, desOutput, desPlain, desBlocks>>

(* A mutant: with two keys the third one is the second.                    *)
ThirdKeyIsSecond == IF key.len = 24 THEN 16 ELSE 8

(* Where the third key begins: two keys are used as K1, K2, K1.            *)
ThirdKey == IF key.len = 24 THEN 16 ELSE 0

(* The schedule that deskey writes to ek[n], and to dk[n].                 *)
EncryptionKey(n) ==
  CASE n = 0 -> deskey(key, 0, EN0)
    [] n = 1 -> deskey(key, 8, DE1)
    [] n = 2 -> deskey(key, ThirdKey, EN0)

(* A mutant: the first and the third schedule are not exchanged.           *)
DecryptionKeySameOrder(n) ==
  CASE n = 0 -> deskey(key, 0, DE1)
    [] n = 1 -> deskey(key, 8, EN0)
    [] n = 2 -> deskey(key, ThirdKey, DE1)

DecryptionKey(n) ==
  CASE n = 2 -> deskey(key, 0, DE1)
    [] n = 1 -> deskey(key, 8, EN0)
    [] n = 0 -> deskey(key, ThirdKey, DE1)

(* The calls of deskey in turn: ek from 0 up, then dk from 2 down.         *)
SetupEk ==
  /\ desPc = "setup" /\ deskeys < 3
  /\ ek' = [ek EXCEPT ![deskeys] = EncryptionKey(deskeys)]
  /\ deskeys' = deskeys + 1
  /\ UNCHANGED <<dk, key, desSetups, desPc, desRet, desfuncVars>>

SetupDk ==
  /\ desPc = "setup" /\ deskeys >= 3
  /\ dk' = [dk EXCEPT ![5 - deskeys] = DecryptionKey(5 - deskeys)]
  /\ deskeys' = deskeys + 1
  /\ IF deskeys = 5 THEN desPc' = "ready" /\ desRet' = CRYPTO_OK
     ELSE UNCHANGED <<desPc, desRet>>
  /\ UNCHANGED <<ek, key, desSetups, desfuncVars>>

-----------------------------------------------------------------------------
(* desfunc begins with a block.                                            *)
Desfunc(x) ==
  /\ leftt' = Enter(x)[1]
  /\ right' = Enter(x)[2]
  /\ cur_round' = 0

(* des3_encrypt and des3_decrypt load a block and call desfunc.            *)
Crypt(x, decrypting) ==
  /\ desPc = "ready"
  /\ desBlocks < MaxDesBlocks
  /\ Desfunc(x)
  /\ desPc' = "loop"
  /\ decrypts' = decrypting
  /\ stage' = 0
  /\ desInput' = x
  /\ desPlain' = IF decrypting THEN desPlain ELSE x
  /\ desTrace' = IF decrypting THEN desTrace ELSE <<<<leftt', right'>>>>
  /\ desBlocks' = desBlocks + 1
  /\ UNCHANGED <<des3KeyVars, desRet, desOutput>>

DesTraced ==
  desTrace' = IF decrypts THEN desTrace
              ELSE Append(desTrace, <<leftt', right'>>)

RoundKeys == IF decrypts THEN dk[stage] ELSE ek[stage]

Iterate ==
  /\ desPc = "loop" /\ cur_round < 8
  /\ LET next == Iteration(RoundKeys, cur_round, leftt, right)
     IN  leftt' = next[1] /\ right' = next[2]
  /\ cur_round' = cur_round + 1
  /\ DesTraced
  /\ UNCHANGED <<des3KeyVars, desPc, desRet, decrypts, stage, desInput,
                 desOutput, desPlain, desBlocks>>

(* A mutant: four calls of desfunc.                                        *)
NextDesfuncOnceMore ==
  /\ desPc = "loop" /\ cur_round = 8 /\ stage < 3
  /\ Desfunc(Leave(leftt, right))
  /\ stage' = stage + 1
  /\ DesTraced
  /\ UNCHANGED <<des3KeyVars, desPc, desRet, decrypts, desInput,
                 desOutput, desPlain, desBlocks>>

(* One call of desfunc ends and the next one takes its block.              *)
NextDesfunc ==
  /\ desPc = "loop" /\ cur_round = 8 /\ stage < 2
  /\ Desfunc(Leave(leftt, right))
  /\ stage' = stage + 1
  /\ DesTraced
  /\ UNCHANGED <<des3KeyVars, desPc, desRet, decrypts, desInput,
                 desOutput, desPlain, desBlocks>>

(* The last one ends and the block is stored.                              *)
Store ==
  /\ desPc = "loop" /\ cur_round = 8 /\ stage = 2
  /\ desOutput' = Leave(leftt, right)
  /\ desPc' = "ready"
  /\ desRet' = CRYPTO_OK
  /\ UNCHANGED <<des3KeyVars, decrypts, stage, cur_round, leftt, right,
                 desInput, desPlain, desTrace, desBlocks>>

DesNext ==
  \/ \E k \in DesKeys : DesRefuse(k) \/ DesSetup(k)
  \/ SetupEk \/ SetupDk
  \/ \E x \in DesBlocks \cup {desOutput}, d \in BOOLEAN : Crypt(x, d)
  \/ Iterate \/ NextDesfunc \/ Store

DesSpec == DesInit /\ [][DesNext]_desVars

-----------------------------------------------------------------------------
(* Every variable has its type; a schedule has 32 words of 32 bits.        *)
DesTypeOK ==
  /\ ek \in [0 .. 2 -> DesSchedule] /\ dk \in [0 .. 2 -> DesSchedule]
  /\ desPc \in {"new", "setup", "ready", "loop"}
  /\ key.len \in Nat /\ key.bits \subseteq 0 .. 8 * key.len - 1
  /\ deskeys \in 0 .. 6
  /\ desRet \in {CRYPTO_OK, CRYPTO_INVALID_KEYSIZE}
  /\ decrypts \in BOOLEAN
  /\ stage \in 0 .. 2 /\ cur_round \in 0 .. 8
  /\ leftt \in DesWord /\ right \in DesWord
  /\ {desInput, desOutput, desPlain} \subseteq SUBSET Bits64
  /\ desTrace \in Seq(DesWord \X DesWord) /\ Len(desTrace) <= 27
  /\ desSetups \in 0 .. MaxDesSetups /\ desBlocks \in 0 .. MaxDesBlocks

(* The keys K1, K2, K3 of the standard, and a block, as it numbers bits.   *)
StandardKey(offset) == {n \in 1 .. 64 : 8 * offset + n - 1 \in key.bits}
Standard(x) == {Numbered(b) : b \in x}

(* What des3_encrypt stores for a block is what FIPS 46 makes of it: E of  *)
(* K1, D of K2, E of K3, with K3 = K1 where the key has 16 bytes.          *)
EncryptsAsFips46 ==
  desPc = "ready" /\ desBlocks > 0 /\ ~decrypts /\ desTrace # <<>> =>
    Standard(desOutput) =
      TripleEncrypt(StandardKey(0), StandardKey(8),
                    StandardKey(IF key.len = 16 THEN 0 ELSE 16),
                    Standard(desInput))

(* The block that des3_encrypt made of the last leftt and right.           *)
Sealed == Leave(desTrace[27][1], desTrace[27][2])

(* Decrypting the block that an encryption with the same key has given     *)
(* gives the block that was encrypted.                                     *)
TripleDecryptInverts ==
  desPc = "ready" /\ decrypts /\ desTrace # <<>> /\ desInput = Sealed
    => desOutput = desPlain

-----------------------------------------------------------------------------
(* The schedules that des3_setup has made so far.                          *)
SchedulesAreMade ==
  /\ desPc # "new" => key.len \in {16, 24}
  /\ desPc = "setup" => deskeys < 6
  /\ desPc \in {"ready", "loop"} => deskeys = 6
  /\ desPc # "new" =>
       \A n \in 0 .. 2 : /\ n < deskeys => ek[n] = EncryptionKey(n)
                         /\ 5 - n < deskeys => dk[n] = DecryptionKey(n)

(* Where a function is in its three loops.                                 *)
Tests == 9 * stage + cur_round

(* The history begins with a block and makes the steps of an encryption;   *)
(* it ends where the encryption is.                                        *)
HistorySteps ==
  desTrace # <<>> =>
    /\ desTrace[1] = Enter(desPlain)
    /\ \A j \in 1 .. Len(desTrace) - 1 :
         desTrace[j + 1] =
           IF (j - 1) % 9 = 8 THEN Enter(Leave(desTrace[j][1], desTrace[j][2]))
           ELSE Iteration(ek[(j - 1) \div 9], (j - 1) % 9,
                          desTrace[j][1], desTrace[j][2])

HistoryIsCurrent ==
  /\ desTrace # <<>> => desPc \in {"ready", "loop"}
  /\ desPc = "loop" /\ ~decrypts =>
       /\ Len(desTrace) = Tests + 1
       /\ desTrace[Tests + 1] = <<leftt, right>>
  /\ (desPc = "ready" \/ decrypts) /\ desTrace # <<>> => Len(desTrace) = 27

(* Decryption of what was encrypted last goes back through its states,     *)
(* with the words exchanged.                                               *)
DecryptionRetraces3 ==
  desPc = "loop" /\ decrypts /\ desTrace # <<>> /\ desInput = Sealed =>
    desTrace[27 - Tests] = <<right, leftt>>

(* The inductive invariant.                                                *)
DesInv == /\ DesTypeOK /\ SchedulesAreMade /\ HistorySteps
          /\ HistoryIsCurrent /\ DecryptionRetraces3 /\ TripleDecryptInverts
=============================================================================
