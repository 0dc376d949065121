------------------------------ MODULE MCStreams ------------------------------
(* What libnpmcrypto does in pieces, in one run: the hashes, the random    *)
(* number generator and the block modes.  They share no state: which of    *)
(* them a behaviour is about is chosen at its beginning.                   *)
EXTENDS MCHashStream, Fortuna, MCBlockModes

VARIABLE subject

streamsVars == <<subject, vars, fortunaVars, modesVars>>

StreamsInit == /\ subject \in {"hash", "fortuna", "modes"}
               /\ Init /\ FortunaInit /\ ModesInit

HashOnly ==
  subject = "hash" /\ Next /\ UNCHANGED <<subject, fortunaVars, modesVars>>
FortunaOnly ==
  subject = "fortuna" /\ FortunaNext /\ UNCHANGED <<subject, vars, modesVars>>
ModesOnly ==
  subject = "modes" /\ ModesNext /\ UNCHANGED <<subject, vars, fortunaVars>>

StreamsNext == HashOnly \/ FortunaOnly \/ ModesOnly

StreamsSpec == /\ StreamsInit /\ [][StreamsNext]_streamsVars
               /\ WF_vars(Loop)
-----------------------------------------------------------------------------
(* Every variable has its type: curlen, the index of the next pool and the *)
(* pointers of the block modes stay inside what they point into.           *)
StreamsTypeOK == TypeOK /\ FortunaTypeOK /\ ModesTypeOK
=============================================================================
