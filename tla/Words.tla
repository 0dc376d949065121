-------------------------------- MODULE Words --------------------------------
(* libnpmcrypto/crypto.h: arithmetic on words of w bits.  A word is the    *)
(* set of its bits that are 1.                                             *)
EXTENDS CryptoH, Integers

Bit(w) == 0 .. w - 1
Not(x, w) == Bit(w) \ x

Rol(x, n, w) == {(b + n) % w : b \in x}
Ror(x, n, w) == {(b - n) % w : b \in x}
Shr(x, n) == {b - n : b \in {c \in x : c >= n}}

(* The sum modulo 2^w.  A carry comes to a bit from where both words have  *)
(* a 1, through bits where one of them has.                                *)
Carries(x, y, w) ==
  {b \in Bit(w) : \E j \in x \cap y :
                    j < b /\ \A k \in j + 1 .. b - 1 : k \in x \cup y}
Sum(x, y, w) == Xor(Xor(x, y), Carries(x, y, w))

(* A byte is the set of its bits, and bytes a function from offsets.  Word *)
(* i of them, with its lowest byte first, or its highest.                  *)
LoadL(bytes, i, w) ==
  LET n == w \div 8
  IN  UNION {{8 * j + b : b \in bytes[n * i + j]} : j \in 0 .. n - 1}
LoadH(bytes, i, w) ==
  LET n == w \div 8
  IN  UNION {{8 * (n - 1 - j) + b : b \in bytes[n * i + j]} : j \in 0 .. n - 1}
=============================================================================
