---------------------------- MODULE MCCompression ----------------------------
(* Words of the size that the code has, and two blocks.  In place of the   *)
(* constants of the hashes, words whose bits are scattered over them.      *)
EXTENDS Compression

BitsOfWord == [h \in HashNames |-> IF h = "SHA512" THEN 64 ELSE 32]

Scattered(n, w) == {b \in 0 .. w - 1 : (b * b + 7 * n * b + 3 * n) % 11 < 5}

ScatteredConstants ==
  [h \in HashNames |-> [n \in 0 .. 79 |-> Scattered(n, BitsOfWord[h])]]
ScatteredValues ==
  [h \in HashNames |->
     [k \in 0 .. NumRegisters[h] - 1 |-> Scattered(k + 5, BitsOfWord[h])]]
ScatteredBlocks == {[n \in 0 .. 127 |-> Scattered(n + m, 8)] : m \in {1, 4}}
=============================================================================
