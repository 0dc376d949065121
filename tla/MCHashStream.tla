----------------------------- MODULE MCHashStream -----------------------------
EXTENDS HashStream

(* A small layout of the kind of SHA-512: the length does not begin where  *)
(* the room for it does.                                                   *)
Tiny == [block |-> 8, room |-> 5, length |-> 6]
=============================================================================
