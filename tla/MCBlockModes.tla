---------------------------- MODULE MCBlockModes ----------------------------
(* Blocks of two bytes of one bit; a cipher that is not linear in them.    *)
EXTENDS BlockModes

OneBit == {1}

Number(b) == (IF b[0] = {} THEN 0 ELSE 2) + (IF b[1] = {} THEN 0 ELSE 1)
Numbered(n) == CHOOSE b \in Block : Number(b) = n % 4

Rotating == [k \in Keys |-> [b \in Block |-> Numbered(Number(b) + 1)]]
RotatingBack == [k \in Keys |-> [b \in Block |-> Numbered(Number(b) + 3)]]

(* All blocks occur, and what is read a byte too early or too late is      *)
(* another block.                                                          *)
Scattered == {[a \in Addresses |-> IF a % 8 \in {3, 5, 6, 7} THEN {1} ELSE {}]}
=============================================================================
