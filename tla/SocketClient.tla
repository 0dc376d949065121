---------------------------- MODULE SocketClient ----------------------------
(***************************************************************************)
(* libnpmnetwork/client.c: one process calls prepare_connection,           *)
(* connect_to_host, send_data_to_host and waiting_data_from_host.          *)
(*                                                                         *)
(* waiting_data_from_host keeps the result of recv() in a size_t: an error *)
(* is a length of 2^w - 1, larger than 0, and memcpy() of that length ends *)
(* the process.  send() ends it too where the host is known to be gone:    *)
(* the library leaves SIGPIPE as it is.                                    *)
(*                                                                         *)
(* TCP and the host are outside of src/: bytes arrive in order and in any  *)
(* pieces; the end of a connection arrives behind them, a reset overtakes  *)
(* the bytes that have not arrived.                                        *)
(***************************************************************************)
EXTENDS Integers, Sequences, FiniteSets

CONSTANTS
  Conns,            (* the connections that the client may attempt           *)
  READ_BUFFER_SIZE, (* the bytes of one recv()                               *)
  MaxDescriptors,   (* the descriptors of the client                         *)
  MaxReply,         (* bound on the bytes that the host sends, for each      *)
  MaxClientCalls,   (* bound on the calls that send or wait for data         *)
  MaxInterrupts     (* bound on the signals that the client catches          *)

ASSUME ClientAssumption ==
  /\ Conns # {} /\ READ_BUFFER_SIZE \in Nat \ {0} /\ MaxDescriptors \in Nat
  /\ {MaxReply, MaxClientCalls, MaxInterrupts} \subseteq Nat

VARIABLES
  clientPc,       (* "caller", "connect", "recv", "dead"                     *)
  socket,         (* the connection of the last call                         *)
  hostinfo,       (* has prepare_connection found an address?                *)
  clientRet,      (* what the last function returned                         *)
  sockets,        (* the open descriptors of the client, by connection       *)
  content,        (* the caller's memory: <<connection, position>> per byte  *)
  totalByteRead,
  block,          (* the argument of that name: the flags of recv()          *)
  began,          (* history: the bytes taken before the last wait           *)
  clientCalls,    (* history: the calls that send or wait for data           *)
  interrupts,     (* history: the signals that were caught                   *)
  failed,         (* history: the connections that connect() could not make  *)
  link,           (* what the client's kernel knows of each connection       *)
  unread,         (* has send() taken bytes that the host has not read?      *)
  sent,           (* the bytes that the host has sent                        *)
  arrived, taken, (* those that have arrived, and that recv() has taken      *)
  fins, rsts      (* the connections that the host has ended, and reset      *)

callVars == <<clientPc, socket, hostinfo, clientRet, sockets, content,
              totalByteRead, block, began, clientCalls, interrupts, failed>>
hostVars == <<sent, fins>>
clientVars == <<callVars, hostVars, link, unread, arrived, taken, rsts>>

ERR_CANNOT_GET_ADDR_INFO == -1
ERR_CANNOT_CREATE_SOCKET_TO_HOST == -2
ERR_CANNOT_CONNECT_TO_HOST == -3
ERR_CANNOT_SEND_TO_HOST == -4

(* "eof": the host's end has arrived; "reset": an error waits to be told;  *)
(* "gone": it was told; "broken": a reset has arrived behind the end.      *)
Links == {"unused", "open", "eof", "reset", "gone", "broken", "closed"}

Ended(c) == c \in fins \cup rsts

ClientInit ==
  /\ clientPc = "caller" /\ hostinfo = FALSE
  /\ socket = CHOOSE c \in Conns : TRUE
  /\ clientRet = 0 /\ sockets = {} /\ content = <<>>
  /\ totalByteRead = 0 /\ block = 0 /\ began = 0
  /\ clientCalls = 0 /\ interrupts = 0
  /\ failed = {} /\ fins = {} /\ rsts = {}
  /\ link = [c \in Conns |-> "unused"]
  /\ unread = [c \in Conns |-> FALSE]
  /\ sent = [c \in Conns |-> 0] /\ arrived = sent /\ taken = sent

-----------------------------------------------------------------------------
(* Connecting.                                                             *)

(* prepare_connection: getaddrinfo() finds addresses or it does not, and   *)
(* is called until it does.                                                *)
Prepare ==
  /\ clientPc = "caller" /\ ~hostinfo
  /\ \E found \in BOOLEAN :
       /\ hostinfo' = found
       /\ clientRet' = IF found THEN 0 ELSE ERR_CANNOT_GET_ADDR_INFO
  /\ UNCHANGED <<clientPc, socket, sockets, content, totalByteRead, block,
                 began, clientCalls, interrupts, failed, hostVars, link,
                 unread, arrived, taken, rsts>>

(* connect_to_host, up to connect().                                       *)
CreateSocket(c) ==
  /\ clientPc = "caller" /\ hostinfo /\ link[c] = "unused" /\ c \notin sockets
  /\ IF Cardinality(sockets) < MaxDescriptors
     THEN /\ sockets' = sockets \cup {c}
          /\ socket' = c
          /\ clientPc' = "connect"
          /\ UNCHANGED clientRet
     ELSE /\ clientRet' = ERR_CANNOT_CREATE_SOCKET_TO_HOST
          /\ UNCHANGED <<sockets, socket, clientPc>>
  /\ UNCHANGED <<hostinfo, content, totalByteRead, block, began, clientCalls,
                 interrupts, failed, hostVars, link, unread, arrived, taken,
                 rsts>>

(* A mutant: the socket is closed in any case.                             *)
ConnectedCloses ==
  /\ clientPc = "connect"
  /\ link' = [link EXCEPT ![socket] = "open"]
  /\ clientRet' = 0
  /\ clientPc' = "caller"
  /\ sockets' = sockets \ {socket}
  /\ UNCHANGED <<socket, hostinfo, content, totalByteRead, block, began,
                 clientCalls, interrupts, failed, hostVars, unread, arrived,
                 taken, rsts>>

(* connect() has made the connection; the socket is returned.              *)
Connected ==
  /\ clientPc = "connect"
  /\ link' = [link EXCEPT ![socket] = "open"]
  /\ clientRet' = 0
  /\ clientPc' = "caller"
  /\ UNCHANGED <<socket, hostinfo, sockets, content, totalByteRead, block,
                 began, clientCalls, interrupts, failed, hostVars, unread,
                 arrived, taken, rsts>>

(* Nobody listens, the backlog is full, or the first of the addresses that *)
(* were found is not the host's; no other one is tried.                    *)
NotConnected ==
  /\ clientPc = "connect"
  /\ clientRet' = ERR_CANNOT_CONNECT_TO_HOST
  /\ clientPc' = "caller"
  /\ failed' = failed \cup {socket}
  /\ UNCHANGED <<socket, hostinfo, sockets, content, totalByteRead, block,
                 began, clientCalls, interrupts, hostVars, link, unread,
                 arrived, taken, rsts>>

(* The caller closes a socket that connect_to_host has returned.           *)
CloseSocket(c) ==
  /\ clientPc = "caller" /\ c \in sockets \ failed
  /\ sockets' = sockets \ {c}
  /\ link' = [link EXCEPT ![c] = "closed"]
  /\ UNCHANGED <<clientPc, socket, hostinfo, clientRet, content, totalByteRead,
                 block, began, clientCalls, interrupts, failed, hostVars,
                 unread, arrived, taken, rsts>>

-----------------------------------------------------------------------------
(* Sending.                                                                *)

(* send() takes the bytes, or a part of them: 0 is returned.  To a host    *)
(* that has closed the connection they are a reason to reset it.           *)
SendTakes(c) ==
  /\ link[c] \in {"open", "eof"}
  /\ unread' = [unread EXCEPT ![c] = TRUE]
  /\ rsts' = IF c \in fins THEN rsts \cup {c} ELSE rsts
  /\ clientRet' = 0
  /\ UNCHANGED <<clientPc, link, interrupts>>

(* The error of a reset connection is told once.                           *)
SendFails(c) ==
  /\ link[c] = "reset"
  /\ link' = [link EXCEPT ![c] = "gone"]
  /\ clientRet' = ERR_CANNOT_SEND_TO_HOST
  /\ UNCHANGED <<clientPc, unread, rsts, interrupts>>

SendInterrupted(c) ==
  /\ link[c] \in {"open", "eof"}
  /\ interrupts < MaxInterrupts
  /\ interrupts' = interrupts + 1
  /\ clientRet' = ERR_CANNOT_SEND_TO_HOST
  /\ UNCHANGED <<clientPc, link, unread, rsts>>

(* SIGPIPE.                                                                *)
SendKills(c) ==
  /\ link[c] \in {"gone", "broken"}
  /\ clientPc' = "dead"
  /\ UNCHANGED <<clientRet, link, unread, rsts, interrupts>>

SendData(c) ==
  /\ clientPc = "caller" /\ c \in sockets \ failed
  /\ clientCalls < MaxClientCalls
  /\ clientCalls' = clientCalls + 1
  /\ socket' = c
  /\ \/ SendTakes(c) \/ SendFails(c) \/ SendInterrupted(c) \/ SendKills(c)
  /\ UNCHANGED <<hostinfo, sockets, content, totalByteRead, block, began,
                 failed, hostVars, arrived, taken>>

-----------------------------------------------------------------------------
(* Waiting for data.  The caller may give the memory of an earlier wait.   *)
Wait(c, flags, memory) ==
  /\ clientPc = "caller" /\ c \in sockets \ failed
  /\ clientCalls < MaxClientCalls
  /\ clientCalls' = clientCalls + 1
  /\ socket' = c
  /\ block' = flags
  /\ content' = memory
  /\ totalByteRead' = 0
  /\ began' = taken[c]
  /\ clientPc' = "recv"
  /\ UNCHANGED <<hostinfo, clientRet, sockets, interrupts, failed, hostVars,
                 link, unread, arrived, taken, rsts>>

Bytes(c, from, n) == [i \in 1 .. n |-> <<c, from + i>>]

(* A mutant: every piece is taken for a full one.                          *)
PiecesAreFull ==
  IF arrived[socket] > taken[socket] THEN {READ_BUFFER_SIZE} ELSE {}

(* The bytes that one recv() may give.                                     *)
Pieces == {n \in 1 .. READ_BUFFER_SIZE : n <= arrived[socket] - taken[socket]}

(* A mutant: the memory is not made larger than the piece.                 *)
RecvDataOverwrites ==
  /\ clientPc = "recv" /\ block = 0
  /\ \E n \in Pieces :
       /\ content' = Bytes(socket, taken[socket], n)
       /\ totalByteRead' = totalByteRead + n
       /\ taken' = [taken EXCEPT ![socket] = @ + n]
  /\ UNCHANGED <<clientPc, socket, hostinfo, clientRet, sockets, block, began,
                 clientCalls, interrupts, failed, hostVars, link, unread,
                 arrived, rsts>>

(* A mutant: a piece that does not fill the buffer is taken for the last.  *)
RecvDataUntilShort ==
  /\ clientPc = "recv" /\ block = 0
  /\ \E n \in Pieces :
       /\ content' = SubSeq(content, 1, totalByteRead)
                     \o Bytes(socket, taken[socket], n)
       /\ totalByteRead' = totalByteRead + n
       /\ taken' = [taken EXCEPT ![socket] = @ + n]
       /\ clientPc' = IF n < READ_BUFFER_SIZE THEN "caller" ELSE "recv"
       /\ clientRet' = totalByteRead + n
  /\ UNCHANGED <<socket, hostinfo, sockets, block, began, clientCalls,
                 interrupts, failed, hostVars, link, unread, arrived, rsts>>

(* recv(), realloc() and memcpy() behind what this call has read.          *)
RecvData ==
  /\ clientPc = "recv" /\ block = 0
  /\ \E n \in Pieces :
       /\ content' = SubSeq(content, 1, totalByteRead)
                     \o Bytes(socket, taken[socket], n)
       /\ totalByteRead' = totalByteRead + n
       /\ taken' = [taken EXCEPT ![socket] = @ + n]
  /\ UNCHANGED <<clientPc, socket, hostinfo, clientRet, sockets, block, began,
                 clientCalls, interrupts, failed, hostVars, link, unread,
                 arrived, rsts>>

(* A mutant: recv() is called again.                                       *)
RecvEndRetries ==
  /\ clientPc = "recv" /\ block = 0
  /\ arrived[socket] = taken[socket]
  /\ link[socket] \in {"eof", "broken", "gone"}
  /\ UNCHANGED clientVars

(* recv() gives 0: nothing is left and nothing will come.                  *)
RecvEnd ==
  /\ clientPc = "recv" /\ block = 0
  /\ arrived[socket] = taken[socket]
  /\ link[socket] \in {"eof", "broken", "gone"}
  /\ clientRet' = totalByteRead
  /\ clientPc' = "caller"
  /\ UNCHANGED <<socket, hostinfo, sockets, content, totalByteRead, block,
                 began, clientCalls, interrupts, failed, hostVars, link,
                 unread, arrived, taken, rsts>>

(* A mutant: the end of the data is taken for an error.                    *)
RecvErrorAtEnd ==
  /\ clientPc = "recv"
  /\ \/ block # 0 /\ UNCHANGED <<link, interrupts>>
     \/ /\ block = 0 /\ arrived[socket] = taken[socket]
        /\ link[socket] \in {"reset", "eof"}
        /\ link' = [link EXCEPT ![socket] = "gone"]
        /\ UNCHANGED interrupts
     \/ /\ block = 0 /\ arrived[socket] = taken[socket]
        /\ link[socket] = "open" /\ interrupts < MaxInterrupts
        /\ interrupts' = interrupts + 1
        /\ UNCHANGED link
  /\ clientPc' = "dead"
  /\ UNCHANGED <<socket, hostinfo, clientRet, sockets, content, totalByteRead,
                 block, began, clientCalls, failed, hostVars, unread, arrived,
                 taken, rsts>>

(* recv() gives -1: the connection was reset, a signal came, or the flags  *)
(* ask for data out of band, of which there is none.  memcpy() does not    *)
(* come back.                                                              *)
RecvError ==
  /\ clientPc = "recv"
  /\ \/ block # 0 /\ UNCHANGED <<link, interrupts>>
     \/ /\ block = 0 /\ arrived[socket] = taken[socket]
        /\ link[socket] = "reset"
        /\ link' = [link EXCEPT ![socket] = "gone"]
        /\ UNCHANGED interrupts
     \/ /\ block = 0 /\ arrived[socket] = taken[socket]
        /\ link[socket] = "open" /\ interrupts < MaxInterrupts
        /\ interrupts' = interrupts + 1
        /\ UNCHANGED link
  /\ clientPc' = "dead"
  /\ UNCHANGED <<socket, hostinfo, clientRet, sockets, content, totalByteRead,
                 block, began, clientCalls, failed, hostVars, unread, arrived,
                 taken, rsts>>

Recv == RecvData \/ RecvEnd \/ RecvError

-----------------------------------------------------------------------------
(* TCP and the request handler of the host.                                *)

DataArrives(c) ==
  /\ link[c] = "open" /\ arrived[c] < sent[c]
  /\ arrived' = [arrived EXCEPT ![c] = @ + 1]
  /\ UNCHANGED <<callVars, hostVars, link, unread, taken, rsts>>

EndArrives(c) ==
  /\ c \in fins /\ link[c] = "open" /\ arrived[c] = sent[c]
  /\ link' = [link EXCEPT ![c] = "eof"]
  /\ UNCHANGED <<callVars, hostVars, unread, arrived, taken, rsts>>

ResetArrives(c) ==
  /\ c \in rsts
  /\ \/ /\ c \notin fins /\ link[c] = "open"
        /\ link' = [link EXCEPT ![c] = "reset"]
     \/ link[c] = "eof" /\ link' = [link EXCEPT ![c] = "broken"]
  /\ UNCHANGED <<callVars, hostVars, unread, arrived, taken, rsts>>

Arrival == \E c \in Conns : DataArrives(c) \/ EndArrives(c) \/ ResetArrives(c)

HostSends(c) ==
  /\ ~Ended(c) /\ sent[c] < MaxReply
  /\ sent' = [sent EXCEPT ![c] = @ + 1]
  /\ UNCHANGED <<callVars, link, unread, arrived, taken, fins, rsts>>

HostReads(c) ==
  /\ ~Ended(c) /\ unread[c]
  /\ unread' = [unread EXCEPT ![c] = FALSE]
  /\ UNCHANGED <<callVars, link, sent, arrived, taken, fins, rsts>>

(* The host gives up the connections C; those with bytes that it has not   *)
(* read are reset, and those in R.                                         *)
HostEnds(C, R) ==
  /\ rsts' = rsts \cup {c \in C : unread[c] \/ c \in R}
  /\ fins' = fins \cup {c \in C : ~(unread[c] \/ c \in R)}
  /\ UNCHANGED <<callVars, link, unread, sent, arrived, taken>>
=============================================================================
