---------------------------- MODULE StandardRounds ----------------------------
(***************************************************************************)
(* The compression of a block as RFC 1321 and FIPS 180 write it, the       *)
(* reference for md5_compress, sha1_compress, sha256_compress and          *)
(* sha512_compress.  Every round moves the registers by one place; the     *)
(* words of the schedule are made as they are needed, from the sixteen     *)
(* that come before.                                                       *)
(***************************************************************************)
EXTENDS Words, Sequences

CONSTANTS
  Constants, (* the constant of each round, by the name of the hash          *)
  InitialValues

VARIABLES
  hash, (* the name of the hash                                              *)
  H,    (* its chaining value                                                *)
  v,    (* the registers a, b, c, ... from 0, <<>> between two blocks        *)
  M,    (* the next sixteen words of the schedule; for MD5, the block        *)
  t     (* the round                                                         *)

vars == <<hash, H, v, M, t>>

Rounds == [MD5 |-> 64, SHA1 |-> 80, SHA256 |-> 64, SHA512 |-> 80]
Width == [MD5 |-> 32, SHA1 |-> 32, SHA256 |-> 32, SHA512 |-> 64]

Plus(x, y) == Sum(x, y, Width[hash])
Choice(x, y, z) == (x \cap y) \cup (Not(x, Width[hash]) \cap z)
Parity(x, y, z) == Xor(x, Xor(y, z))
Majority(x, y, z) == Xor(x \cap y, Xor(x \cap z, y \cap z))
Right(x, n) == Ror(x, n, Width[hash])

-----------------------------------------------------------------------------
(* RFC 1321: the functions F, G, H and I, the order of the words and the   *)
(* rotations, for rounds of sixteen operations.                            *)
Auxiliary(x, y, z) ==
  CASE t \div 16 = 0 -> Choice(x, y, z)
    [] t \div 16 = 1 -> Choice(z, x, y)
    [] t \div 16 = 2 -> Parity(x, y, z)
    [] OTHER          -> Xor(y, x \cup Not(z, 32))

WordOf == CASE t \div 16 = 0 -> t
            [] t \div 16 = 1 -> (5 * t + 1) % 16
            [] t \div 16 = 2 -> (3 * t + 5) % 16
            [] OTHER          -> (7 * t) % 16

Turn == <<<<7, 12, 17, 22>>, <<5, 9, 14, 20>>,
          <<4, 11, 16, 23>>, <<6, 10, 15, 21>>>>[(t \div 16) + 1][(t % 4) + 1]

Md5Round ==
  LET sum == Plus(Plus(v[0], Auxiliary(v[1], v[2], v[3])),
                  Plus(M[WordOf + 1], Constants[hash][t]))
  IN  <<v[3], Plus(v[1], Rol(sum, Turn, 32)), v[1], v[2]>>

(* FIPS 180, SHA-1.                                                        *)
Sha1Function(x, y, z) ==
  CASE t \div 20 = 0 -> Choice(x, y, z)
    [] t \div 20 = 2 -> Majority(x, y, z)
    [] OTHER         -> Parity(x, y, z)

Sha1Round ==
  LET T == Plus(Plus(Plus(Rol(v[0], 5, 32), Sha1Function(v[1], v[2], v[3])),
                     Plus(v[4], Constants[hash][t])), M[1])
  IN  <<T, v[0], Rol(v[1], 30, 32), v[2], v[3]>>

(* FIPS 180, SHA-256 and SHA-512.                                          *)
Rotations == [SHA256 |-> [S0 |-> <<2, 13, 22>>,  S1 |-> <<6, 11, 25>>,
                          s0 |-> <<7, 18, 3>>,   s1 |-> <<17, 19, 10>>],
              SHA512 |-> [S0 |-> <<28, 34, 39>>, S1 |-> <<14, 18, 41>>,
                          s0 |-> <<1, 8, 7>>,    s1 |-> <<19, 61, 6>>]]

Big(x, n) == Parity(Right(x, n[1]), Right(x, n[2]), Right(x, n[3]))
Small(x, n) == Parity(Right(x, n[1]), Right(x, n[2]), Shr(x, n[3]))

Sha2Round ==
  LET n  == Rotations[hash]
      T1 == Plus(Plus(v[7], Big(v[4], n.S1)),
                 Plus(Choice(v[4], v[5], v[6]), Plus(Constants[hash][t], M[1])))
      T2 == Plus(Big(v[0], n.S0), Majority(v[0], v[1], v[2]))
  IN  <<Plus(T1, T2), v[0], v[1], v[2], Plus(v[3], T1), v[4], v[5], v[6]>>

(* The word of the schedule sixteen rounds later.                          *)
Later ==
  IF hash = "SHA1" THEN Rol(Xor(Parity(M[14], M[9], M[3]), M[1]), 1, 32)
  ELSE Plus(Plus(Small(M[15], Rotations[hash].s1), M[10]),
            Plus(Small(M[2], Rotations[hash].s0), M[1]))

-----------------------------------------------------------------------------
Init == /\ hash \in DOMAIN Rounds
        /\ H = InitialValues[hash] /\ v = <<>> /\ M = <<>> /\ t = 0

Begin == /\ v = <<>>
         /\ v' = H
         /\ M' \in Seq(SUBSET Bit(Width[hash])) /\ Len(M') = 16
         /\ UNCHANGED <<hash, H, t>>

Round ==
  /\ v # <<>> /\ t < Rounds[hash]
  /\ LET w == CASE hash = "MD5"  -> Md5Round
                [] hash = "SHA1" -> Sha1Round
                [] OTHER         -> Sha2Round
     IN  v' = [k \in DOMAIN v |-> w[k + 1]]
  /\ M' = IF hash = "MD5" THEN M
          ELSE IF t + 16 < Rounds[hash] THEN Append(Tail(M), Later)
          ELSE Tail(M)
  /\ t' = t + 1
  /\ UNCHANGED <<hash, H>>

End == /\ v # <<>> /\ t = Rounds[hash]
       /\ H' = [k \in DOMAIN H |-> Plus(H[k], v[k])]
       /\ v' = <<>> /\ M' = <<>> /\ t' = 0
       /\ UNCHANGED hash

Next == Begin \/ Round \/ End

Spec == Init /\ [][Next]_vars
=============================================================================
