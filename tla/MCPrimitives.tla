---------------------------- MODULE MCPrimitives ----------------------------
(* The block ciphers and the compression of the hashes in one run.  They   *)
(* share no state: which of them a behaviour is about is chosen at its     *)
(* beginning.                                                              *)
EXTENDS MCAes, MCTripleDes, MCCompression

VARIABLE subject

primitivesVars == <<subject, vars, desVars, compressionVars>>

PrimitivesInit ==
  /\ subject \in {"AES", "3DES", "hash"}
  /\ Init /\ DesInit /\ CompressionInit
  /\ subject # "AES" => user = CHOOSE k \in UserKeys : TRUE
  /\ subject # "hash" => hash = "MD5"

AesOnly ==
  subject = "AES" /\ Next /\ UNCHANGED <<subject, desVars, compressionVars>>
DesOnly ==
  subject = "3DES" /\ DesNext /\ UNCHANGED <<subject, vars, compressionVars>>
CompressionOnly ==
  subject = "hash" /\ CompressionNext /\ UNCHANGED <<subject, vars, desVars>>

PrimitivesNext == AesOnly \/ DesOnly \/ CompressionOnly

PrimitivesSpec == PrimitivesInit /\ [][PrimitivesNext]_primitivesVars
-----------------------------------------------------------------------------
(* Every variable has its type: the unrolled loops of the block ciphers    *)
(* stay inside their schedules, and no round reads a word that was not     *)
(* made.                                                                   *)
PrimitivesTypeOK == TypeOK /\ DesTypeOK /\ CompressionTypeOK
=============================================================================
