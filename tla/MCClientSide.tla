----------------------------- MODULE MCClientSide -----------------------------
(* The client of libnpmnetwork with its server, and libnpmtoolkit: files   *)
(* and strings, in one run.  They share no state: which of them a          *)
(* behaviour is about is chosen at its beginning.                          *)
EXTENDS Conversation, FileUtils, ToolkitStrings

VARIABLE subject

clientSideVars == <<subject, conversationVars, fileVars, stringVars>>

DigitValues == [c \in {"0", "b"} |-> IF c = "0" THEN 0 ELSE 11]

ClientSideInit == /\ subject \in {"conversation", "files", "strings"}
                  /\ ConversationInit /\ FileInit /\ StringsInit

ConversationOnly == /\ subject = "conversation" /\ ConversationNext
                    /\ UNCHANGED <<subject, fileVars, stringVars>>
FilesOnly        == /\ subject = "files" /\ FileNext
                    /\ UNCHANGED <<subject, conversationVars, stringVars>>
StringsOnly      == /\ subject = "strings" /\ StringsNext
                    /\ UNCHANGED <<subject, conversationVars, fileVars>>

ClientSideNext == ConversationOnly \/ FilesOnly \/ StringsOnly

ClientSideSpec == /\ ClientSideInit /\ [][ClientSideNext]_clientSideVars
                  /\ WF_conversationVars(ClientRuns)
                  /\ WF_conversationVars(NetworkRuns)
-----------------------------------------------------------------------------
(* Every variable has its type: no byte is read before it has arrived, and *)
(* no load and no function on strings writes behind its memory.            *)
ClientSideTypeOK == ClientTypeOK /\ FileTypeOK /\ WritesFit
=============================================================================
