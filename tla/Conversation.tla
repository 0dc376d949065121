---------------------------- MODULE Conversation ----------------------------
(***************************************************************************)
(* The client of libnpmnetwork and its server.  The server is given by     *)
(* what ConnectionService says of it, which ForkServer is shown to         *)
(* implement: a connection waits, is accepted, served by a request handler *)
(* and ended, or turned away.                                              *)
(***************************************************************************)
EXTENDS SocketClient

CONSTANT Backlog  (* the connections that may wait                         *)

ASSUME ConversationAssumption == Backlog \in Nat \ {0}

VARIABLES
  status, waiting, phase (* of the service                                   *)

serviceVars == <<status, waiting, phase>>
conversationVars == <<clientVars, serviceVars>>

Service == INSTANCE ConnectionService

ConversationInit == ClientInit /\ Service!Init

-----------------------------------------------------------------------------
(* connect() returns when the connection is in the backlog, not when it is *)
(* accepted.                                                               *)
ConnectArrives == Connected /\ Service!Arrive(socket)

ConnectRefused == NotConnected /\ Service!Refuse(socket)

(* The backlog is full until connect() gives up, or the address is not the *)
(* server's.                                                               *)
ConnectMissed == NotConnected /\ UNCHANGED serviceVars

ClientAlone ==
  /\ \/ Prepare
     \/ \E c \in Conns :
          \/ CreateSocket(c) \/ CloseSocket(c) \/ SendData(c)
          \/ \E flags \in {0, 1}, memory \in {<<>>, content} :
               Wait(c, flags, memory)
     \/ Recv
     \/ Arrival
  /\ UNCHANGED serviceVars

(* A request handler reads and writes.                                     *)
Handle ==
  /\ \E c \in Conns : status[c] = "serving" /\ (HostSends(c) \/ HostReads(c))
  /\ UNCHANGED serviceVars

(* The server moves; what it gives up ends.                                *)
ServerMoves ==
  /\ \/ Service!Open \/ Service!Accept \/ Service!Stop
     \/ \E c \in Conns, stop \in BOOLEAN :
          \/ Service!Serve(c, stop) \/ Service!Finish(c, stop)
          \/ Service!Drop(c, stop)
  /\ LET over(c) == status'[c] \in {"done", "dropped", "reset"}
         ended == {c \in Conns : over(c) /\ status'[c] # status[c]}
     IN  HostEnds(ended, {c \in Conns : status'[c] = "reset"})

ConversationNext ==
  \/ ConnectArrives \/ ConnectRefused \/ ConnectMissed \/ ClientAlone
  \/ Handle \/ ServerMoves

(* TCP delivers and the client's process runs while it has something to    *)
(* do; nothing is asked of the server and of the caller.                   *)
ClientRuns == Recv /\ UNCHANGED serviceVars
NetworkRuns == Arrival /\ UNCHANGED serviceVars

ConversationSpec ==
  /\ ConversationInit /\ [][ConversationNext]_conversationVars
  /\ WF_conversationVars(ClientRuns) /\ WF_conversationVars(NetworkRuns)

-----------------------------------------------------------------------------
(* Every variable has its type, and no byte is read before it has arrived. *)
ClientTypeOK ==
  /\ clientPc \in {"caller", "connect", "recv", "dead"}
  /\ socket \in Conns /\ hostinfo \in BOOLEAN
  /\ clientRet \in -4 .. MaxReply
  /\ sockets \subseteq Conns /\ failed \subseteq Conns
  /\ content \in Seq(Conns \X (1 .. MaxReply))
  /\ totalByteRead \in 0 .. MaxReply /\ block \in {0, 1}
  /\ link \in [Conns -> Links]
  /\ unread \in [Conns -> BOOLEAN]
  /\ \A c \in Conns : /\ 0 <= taken[c] /\ taken[c] <= arrived[c]
                      /\ arrived[c] <= sent[c] /\ sent[c] <= MaxReply
  /\ fins \subseteq Conns /\ rsts \subseteq Conns
  /\ began \in 0 .. MaxReply /\ clientCalls \in 0 .. MaxClientCalls
  /\ interrupts \in 0 .. MaxInterrupts

(* While data is waited for and when it has come, the memory begins with   *)
(* exactly the bytes of the stream that this call took, in order, whatever *)
(* the pieces were and whatever the memory held before.                    *)
ContentIsStream ==
  clientPc # "dead" =>
    \E c \in Conns :
      /\ Len(content) >= totalByteRead
      /\ SubSeq(content, 1, totalByteRead) = Bytes(c, began, totalByteRead)
      /\ clientPc = "recv" => c = socket /\ taken[c] = began + totalByteRead

(* waiting_data_from_host returns only when all that the host has sent was *)
(* taken; less than that only where a failed send() has used up the error  *)
(* of a reset, which recv() would have given.                              *)
ReturnsAtTheEnd ==
  [][clientPc = "recv" /\ clientPc' = "caller" =>
       /\ Ended(socket)
       /\ clientRet' = taken[socket] - began
       /\ taken[socket] = arrived[socket]
       /\ taken[socket] < sent[socket] => link[socket] = "gone"
   ]_conversationVars

(* The process dies in a call of the library only if a signal was caught,  *)
(* recv() was given flags, the server turned the connection away, or the   *)
(* host gave it up with bytes of the client unread or before they came.    *)
DiesOnlyOfResets ==
  clientPc = "dead" =>
    \/ interrupts > 0
    \/ block # 0
    \/ socket \in rsts /\ (unread[socket] \/ status[socket] = "reset")

(* What the descriptors of the client are: the sockets that the caller has *)
(* and has not closed, and those that a failed connect() has left.         *)
DescriptorsAreAccounted ==
  sockets = {c \in Conns : link[c] \notin {"unused", "closed"}} \cup failed
            \cup (IF clientPc = "connect" THEN {socket} ELSE {})

(* A wait ends once the host has ended the connection.                     *)
WaitEnds ==
  \A c \in Conns :
    (clientPc = "recv" /\ socket = c /\ Ended(c)) ~> clientPc # "recv"

(* client.h: "Wait and read any data sent from the SOCKET.  Memory will be *)
(* allocated and the data copied in CONTENT."  No word of ending the       *)
(* process, whatever the host does.                                        *)
WaitGivesTheData ==
  [][clientPc = "recv" /\ block = 0 => clientPc' # "dead"]_conversationVars
=============================================================================
