------------------------------- MODULE MCAes --------------------------------
(* Bytes of two bits, the elements of GF(4) with x^2 = x + 1; for          *)
(* MixColumns the circulant of AES, whose fourth power is the identity;    *)
(* an S-box that does not commute with it.                                 *)
EXTENDS AesBlock, TLC

TwoBits == {0, 1}

(* x * (b1 x + b0) = (b1 + b0) x + b1.                                     *)
Doubled(b) == IF 1 \in b THEN {0} \cup ({1} \ {k + 1 : k \in b \cap {0}})
              ELSE {k + 1 : k \in b}

(* 02 03 01 01 on the bytes from the first, 3, to the last, 0.             *)
MixedByte(w, n) ==
  Xor(Xor(Doubled(w[n]), Xor(Doubled(w[(n + 3) % 4]), w[(n + 3) % 4])),
      Xor(w[(n + 2) % 4], w[(n + 1) % 4]))
Mixed(w) == 0 :> MixedByte(w, 0) @@ 1 :> MixedByte(w, 1)
            @@ 2 :> MixedByte(w, 2) @@ 3 :> MixedByte(w, 3)

CirculantMix == [w \in Word |-> Mixed(w)]
CirculantInvMix == [w \in Word |-> Mixed(Mixed(Mixed(w)))]

Values == <<{}, {0}, {1}, {0, 1}>>
Images == <<{1}, {}, {0, 1}, {0}>>

Index(seq, b) == CHOOSE k \in 1 .. 4 : seq[k] = b
AesSBox == [b \in Byte |-> Images[Index(Values, b)]]
AesSBoxInverse == [b \in Byte |-> Values[Index(Images, b)]]

Powers == [k \in 0 .. 9 |-> Values[(k % 3) + 2]]

(* Words that differ in every byte.                                        *)
Sample(k) == [n \in Rows |-> Values[((k + 3 * n + k * n + ((k * k) \div 3)) % 4) + 1]]

SampleKeys == {[j \in 0 .. 7 |-> Sample(k + j * j)] : k \in {1, 4}}
SampleBlocks == {[c \in Columns |-> Sample(7 + 3 * c)]}
SampleGarbage == {Sample(2)}
=============================================================================
