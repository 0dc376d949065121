-------------------------- MODULE ClientSideProofs --------------------------
(***************************************************************************)
(* Proofs about the client of libnpmnetwork in conversation with a server, *)
(* and about the files and the strings of libnpmtoolkit: for every number  *)
(* of connections and processes, every length of a reply, a piece, a       *)
(* memory and a string, and every backlog.                                 *)
(***************************************************************************)
EXTENDS MCClientSide, Arithmetic, SequenceTheorems, FiniteSetTheorems, TLAPS

-----------------------------------------------------------------------------
(* The conversation: what holds beside the invariants that are checked.    *)

(* The counters are functions; a connection that waits is in the backlog   *)
(* once.                                                                   *)
ConversationTypes ==
  /\ arrived \in [Conns -> Nat] /\ taken \in [Conns -> Nat]
  /\ sent \in [Conns -> Nat]
  /\ status \in [Conns -> Service!Statuses]
  /\ waiting \in Seq(Conns)
  /\ \A i \in 1 .. Len(waiting) : status[waiting[i]] = "waiting"
  /\ \A i, j \in 1 .. Len(waiting) : waiting[i] = waiting[j] => i = j

(* What the client's kernel knows of a connection has happened: an end was *)
(* sent and stands behind all the bytes, a reset was sent because bytes    *)
(* were unread or the server turned the connection away.                   *)
LinksFollow ==
  \A c \in Conns :
    /\ link[c] \in {"eof", "broken"} => c \in fins /\ arrived[c] = sent[c]
    /\ link[c] \in {"reset", "gone", "broken"} => c \in rsts
    /\ c \in rsts => unread[c] \/ status[c] = "reset"

(* A descriptor that failed, or for which connect() runs, has no link.     *)
NoLinkYet ==
  /\ \A c \in failed : link[c] = "unused"
  /\ clientPc = "connect" => link[socket] = "unused" /\ socket \notin failed

ConversationInv ==
  /\ ClientTypeOK /\ ConversationTypes /\ ContentIsStream /\ LinksFollow
  /\ NoLinkYet /\ DescriptorsAreAccounted /\ DiesOnlyOfResets

LEMMA Limits ==
  /\ MaxReply \in Nat /\ MaxClientCalls \in Nat /\ MaxInterrupts \in Nat
  /\ READ_BUFFER_SIZE \in Nat \ {0} /\ Conns # {}
BY ClientAssumption

-----------------------------------------------------------------------------
(* Bytes of a stream: what they are, and that pieces join.                 *)
LEMMA BytesType ==
  ASSUME NEW c \in Conns, NEW m \in Nat, NEW n \in Nat, NEW top \in Nat,
         m + n <= top
  PROVE  /\ Bytes(c, m, n) \in Seq(Conns \X (1 .. top))
         /\ Len(Bytes(c, m, n)) = n
         /\ \A i \in 1 .. n : Bytes(c, m, n)[i] = <<c, m + i>>
<1>1. \A i \in 1 .. n : <<c, m + i>> \in Conns \X (1 .. top)
  OBVIOUS
<1>2. Bytes(c, m, n) \in [1 .. n -> Conns \X (1 .. top)]
  BY <1>1 DEF Bytes
<1> QED
  BY <1>2 DEF Bytes

LEMMA BytesJoin ==
  ASSUME NEW c \in Conns, NEW m \in Nat, NEW k \in Nat, NEW n \in Nat
  PROVE  Bytes(c, m, k) \o Bytes(c, m + k, n) = Bytes(c, m, k + n)
<1> DEFINE top == m + k + n
           s == Bytes(c, m, k)
           t == Bytes(c, m + k, n)
           u == Bytes(c, m, k + n)
<1>1. /\ top \in Nat /\ m + k \in Nat /\ k + n \in Nat
      /\ m + k <= top /\ (m + k) + n <= top /\ m + (k + n) <= top
  OBVIOUS
<1> HIDE DEF top
<1> DEFINE S == Conns \X (1 .. top)
<1>2. s \in Seq(S) /\ Len(s) = k /\ \A i \in 1 .. k : s[i] = <<c, m + i>>
  BY <1>1, BytesType
<1>3. t \in Seq(S) /\ Len(t) = n /\ \A i \in 1 .. n : t[i] = <<c, (m + k) + i>>
  BY <1>1, BytesType
<1>4. u \in Seq(S) /\ Len(u) = k + n /\ \A i \in 1 .. k + n : u[i] = <<c, m + i>>
  BY <1>1, BytesType
<1> HIDE DEF s, t, u, S
<1>5. /\ s \o t \in Seq(S) /\ Len(s \o t) = k + n
      /\ \A i \in 1 .. k + n : (s \o t)[i] = IF i <= k THEN s[i] ELSE t[i - k]
  BY <1>2, <1>3, ConcatProperties
<1>6. ASSUME NEW i \in 1 .. k + n
      PROVE  (s \o t)[i] = u[i]
  <2>1. CASE i <= k
    <3>1. i \in 1 .. k
      BY <2>1
    <3> QED
      BY <1>2, <1>4, <1>5, <2>1, <3>1
  <2>2. CASE ~(i <= k)
    <3>1. i - k \in 1 .. n /\ (m + k) + (i - k) = m + i
      BY <2>2
    <3> QED
      BY <1>3, <1>4, <1>5, <2>2, <3>1
  <2> QED
    BY <2>1, <2>2
<1>7. s \o t = u
  BY <1>4, <1>5, <1>6, SeqEqual
<1> QED
  BY <1>7 DEF s, t, u

-----------------------------------------------------------------------------
(* The invariant holds at first.                                           *)
LEMMA ConversationInitial == ConversationInit => ConversationInv
<1> SUFFICES ASSUME ConversationInit PROVE ConversationInv
  OBVIOUS
<1> USE DEF ConversationInit, ClientInit, Service!Init
<1>1. socket \in Conns
  BY Limits
<1>2. ClientTypeOK
  <2>1. /\ MaxReply \in Nat /\ MaxClientCalls \in Nat /\ MaxInterrupts \in Nat
        /\ content \in Seq(Conns \X (1 .. MaxReply))
    BY Limits
  <2>2. /\ clientRet \in -4 .. MaxReply /\ totalByteRead \in 0 .. MaxReply
        /\ began \in 0 .. MaxReply /\ clientCalls \in 0 .. MaxClientCalls
        /\ interrupts \in 0 .. MaxInterrupts
    BY <2>1
  <2>3. /\ link \in [Conns -> Links] /\ unread \in [Conns -> BOOLEAN]
        /\ \A c \in Conns : /\ 0 <= taken[c] /\ taken[c] <= arrived[c]
                            /\ arrived[c] <= sent[c] /\ sent[c] <= MaxReply
    BY <2>1 DEF Links
  <2> QED
    BY <1>1, <2>1, <2>2, <2>3 DEF ClientTypeOK
<1>3. ConversationTypes
  BY DEF ConversationTypes, Service!Statuses
<1>4. ContentIsStream
  <2>1. /\ Bytes(socket, 0, 0) \in Seq(Conns \X (1 .. 0))
        /\ Len(Bytes(socket, 0, 0)) = 0
    BY <1>1, BytesType, SMTT(20)
  <2>2. Bytes(socket, 0, 0) = <<>>
    BY <2>1, EmptySeq
  <2>3. SubSeq(content, 1, 0) = <<>>
    BY SubSeqEmpty
  <2>4. /\ Len(content) = 0 /\ totalByteRead = 0 /\ began = 0
        /\ clientPc = "caller"
    BY EmptySeq
  <2> HIDE DEF ConversationInit, ClientInit
  <2>5. SubSeq(content, 1, totalByteRead) = Bytes(socket, began, totalByteRead)
    BY <2>2, <2>3, <2>4, Zenon
  <2> QED
    BY <1>1, <2>4, <2>5 DEF ContentIsStream
<1>5. LinksFollow /\ NoLinkYet /\ DescriptorsAreAccounted /\ DiesOnlyOfResets
  BY <1>1 DEF LinksFollow, NoLinkYet, DescriptorsAreAccounted, DiesOnlyOfResets
<1> QED
  BY <1>2, <1>3, <1>4, <1>5 DEF ConversationInv

(* What a state is that leaves alone all that a conjunct speaks of.        *)
LEMMA TypesStay ==
  ASSUME ConversationTypes, UNCHANGED <<arrived, taken, sent, serviceVars>>
  PROVE  ConversationTypes'
BY DEF ConversationTypes, serviceVars

LEMMA ContentStays ==
  ASSUME ContentIsStream, UNCHANGED <<content, totalByteRead, began, taken>>,
         clientPc' = "recv" => clientPc = "recv" /\ UNCHANGED socket,
         clientPc # "dead"
  PROVE  ContentIsStream'
BY DEF ContentIsStream

LEMMA PrepareKeeps ==
  ASSUME ConversationInv, Prepare, UNCHANGED serviceVars
  PROVE  ConversationInv'
<1> USE DEF Prepare, ConversationInv, hostVars, serviceVars,
        ERR_CANNOT_GET_ADDR_INFO
<1>1. ClientTypeOK'
  BY Limits DEF ClientTypeOK
<1>2. ConversationTypes' /\ ContentIsStream'
  BY TypesStay, ContentStays
<1>3. LinksFollow' /\ NoLinkYet' /\ DescriptorsAreAccounted' /\ DiesOnlyOfResets'
  BY DEF LinksFollow, NoLinkYet, DescriptorsAreAccounted, DiesOnlyOfResets
<1> QED
  BY <1>1, <1>2, <1>3

LEMMA CreateSocketKeeps ==
  ASSUME ConversationInv, NEW c \in Conns, CreateSocket(c), UNCHANGED serviceVars
  PROVE  ConversationInv'
<1> USE DEF CreateSocket, ConversationInv, hostVars, serviceVars,
        ERR_CANNOT_CREATE_SOCKET_TO_HOST
<1>1. ClientTypeOK'
  BY Limits DEF ClientTypeOK
<1>2. ConversationTypes' /\ ContentIsStream'
  BY TypesStay, ContentStays
<1>3. LinksFollow' /\ NoLinkYet'
  BY DEF LinksFollow, NoLinkYet, DescriptorsAreAccounted, ClientTypeOK
<1>4. DescriptorsAreAccounted' /\ DiesOnlyOfResets'
  BY DEF DescriptorsAreAccounted, DiesOnlyOfResets
<1> QED
  BY <1>1, <1>2, <1>3, <1>4

LEMMA CloseSocketKeeps ==
  ASSUME ConversationInv, NEW c \in Conns, CloseSocket(c), UNCHANGED serviceVars
  PROVE  ConversationInv'
<1> USE DEF CloseSocket, ConversationInv, hostVars, serviceVars
<1>1. ClientTypeOK'
  BY DEF ClientTypeOK, Links
<1>2. ConversationTypes' /\ ContentIsStream'
  BY TypesStay, ContentStays
<1>3. LinksFollow' /\ NoLinkYet' /\ DiesOnlyOfResets'
  BY DEF LinksFollow, NoLinkYet, DiesOnlyOfResets, ClientTypeOK
<1>4. DescriptorsAreAccounted'
  BY DEF DescriptorsAreAccounted, NoLinkYet, ClientTypeOK
<1> QED
  BY <1>1, <1>2, <1>3, <1>4

(* How the service may move: a connection that was reset stays so, and one *)
(* that waits is in the backlog once.                                      *)
LEMMA MovesKeep ==
  ASSUME ConversationTypes, NEW c, NEW from, NEW to \in Service!Statuses,
         NEW stop \in BOOLEAN, Service!Moves(c, from, to, stop),
         from \notin {"waiting", "reset"}, UNCHANGED <<arrived, taken, sent>>
  PROVE  /\ ConversationTypes'
         /\ \A d \in Conns : status[d] = "reset" => status'[d] = "reset"
<1> USE DEF Service!Moves, ConversationTypes
<1>1. /\ status' \in [Conns -> Service!Statuses]
      /\ \A d \in Conns : status[d] = "reset" => status'[d] = "reset"
  BY DEF Service!Statuses
<1>2. CASE stop
  BY <1>1, <1>2
<1>3. CASE ~stop
  <2>1. \A i \in 1 .. Len(waiting) : waiting[i] \in Conns
    BY ElementOfSeq
  <2>2. \A i \in 1 .. Len(waiting) : waiting[i] # c
    BY <2>1
  <2> QED
    BY <1>1, <1>3, <2>1, <2>2
<1> QED
  BY <1>2, <1>3

LEMMA ArriveKeeps ==
  ASSUME ConversationTypes, NEW c \in Conns, Service!Arrive(c),
         UNCHANGED <<arrived, taken, sent>>
  PROVE  /\ ConversationTypes'
         /\ \A d \in Conns : status[d] = "reset" => status'[d] = "reset"
<1> USE DEF Service!Arrive, ConversationTypes
<1>1. /\ status' \in [Conns -> Service!Statuses] /\ status'[c] = "waiting"
      /\ \A d \in Conns : d # c => status'[d] = status[d]
  BY DEF Service!Statuses
<1>2. /\ waiting' \in Seq(Conns) /\ Len(waiting) \in Nat
      /\ Len(waiting') = Len(waiting) + 1
      /\ \A i \in 1 .. Len(waiting) : waiting'[i] = waiting[i]
      /\ waiting'[Len(waiting) + 1] = c
  BY AppendProperties, LenProperties
<1>3. \A i \in 1 .. Len(waiting) : waiting[i] \in Conns /\ waiting[i] # c
  BY ElementOfSeq
<1>4. \A i \in 1 .. Len(waiting') :
        i \in 1 .. Len(waiting) \/ i = Len(waiting) + 1
  BY <1>2
<1>5. \A i \in 1 .. Len(waiting') : status'[waiting'[i]] = "waiting"
  <2>1. ASSUME NEW i \in 1 .. Len(waiting)
        PROVE  status'[waiting'[i]] = "waiting"
    <3>1. waiting'[i] = waiting[i] /\ status[waiting[i]] = "waiting"
      BY <1>2
    <3>2. status'[waiting[i]] = status[waiting[i]]
      BY <1>1, <1>3
    <3> QED
      BY <3>1, <3>2
  <2>2. status'[waiting'[Len(waiting) + 1]] = "waiting"
    BY <1>1, <1>2
  <2> QED
    BY <1>4, <2>1, <2>2
<1>6. \A i, j \in 1 .. Len(waiting') : waiting'[i] = waiting'[j] => i = j
  BY <1>2, <1>3, <1>4, SMTT(30)
<1> QED
  BY <1>1, <1>2, <1>5, <1>6

LEMMA AcceptKeeps ==
  ASSUME ConversationTypes, Service!Accept, UNCHANGED <<arrived, taken, sent>>
  PROVE  /\ ConversationTypes'
         /\ \A d \in Conns : status[d] = "reset" => status'[d] = "reset"
<1> USE DEF Service!Accept, ConversationTypes
<1>1. /\ Len(waiting) \in Nat \ {0} /\ Head(waiting) = waiting[1]
      /\ Head(waiting) \in Conns /\ waiting' \in Seq(Conns)
      /\ Len(waiting') = Len(waiting) - 1
      /\ \A i \in 1 .. Len(waiting') : waiting'[i] = waiting[i + 1]
  BY EmptySeq, HeadTailProperties
<1>2. status[Head(waiting)] = "waiting"
  BY <1>1
<1>3. /\ status' \in [Conns -> Service!Statuses]
      /\ \A d \in Conns : d # Head(waiting) => status'[d] = status[d]
  BY <1>1 DEF Service!Statuses
<1>4. \A i \in 1 .. Len(waiting') :
        /\ i + 1 \in 1 .. Len(waiting) /\ waiting[i + 1] \in Conns
        /\ waiting[i + 1] # waiting[1]
  BY <1>1, ElementOfSeq
<1>5. \A i \in 1 .. Len(waiting') : status'[waiting'[i]] = "waiting"
  BY <1>1, <1>3, <1>4
<1>6. \A i, j \in 1 .. Len(waiting') : waiting'[i] = waiting'[j] => i = j
  BY <1>1, <1>4
<1> QED
  BY <1>1, <1>2, <1>3, <1>5, <1>6

LEMMA NoBytes ==
  ASSUME NEW c \in Conns, NEW m \in Nat, NEW memory
  PROVE  SubSeq(memory, 1, 0) = Bytes(c, m, 0)
<1>1. /\ Bytes(c, m, 0) \in Seq(Conns \X (1 .. m))
      /\ Len(Bytes(c, m, 0)) = 0
  BY BytesType
<1>2. Bytes(c, m, 0) = <<>>
  BY <1>1, EmptySeq
<1>3. SubSeq(memory, 1, 0) = <<>>
  BY SubSeqEmpty
<1> QED
  BY <1>2, <1>3

(* connect() comes back.                                                   *)
LEMMA ConnectedKeeps ==
  ASSUME ConversationInv, ConnectArrives
  PROVE  ConversationInv'
<1> USE DEF ConnectArrives, Connected, ConversationInv, hostVars
<1>1. ClientTypeOK'
  BY Limits DEF ClientTypeOK, Links
<1>2. ConversationTypes'
  BY ArriveKeeps DEF ClientTypeOK
<1>3. ContentIsStream'
  BY ContentStays
<1>4. LinksFollow'
  BY DEF LinksFollow, ClientTypeOK, Service!Arrive, ConversationTypes
<1>5. NoLinkYet' /\ DescriptorsAreAccounted'
  BY DEF NoLinkYet, DescriptorsAreAccounted, ClientTypeOK
<1>6. DiesOnlyOfResets'
  BY DEF DiesOnlyOfResets
<1> QED
  BY <1>1, <1>2, <1>3, <1>4, <1>5, <1>6

LEMMA NotConnectedKeeps ==
  ASSUME ConversationInv, ConnectRefused \/ ConnectMissed
  PROVE  ConversationInv'
<1> USE DEF ConnectRefused, ConnectMissed, NotConnected, ConversationInv, hostVars,
        ERR_CANNOT_CONNECT_TO_HOST
<1>0. /\ ConversationTypes'
      /\ \A d \in Conns : status[d] = "reset" => status'[d] = "reset"
  <2>1. CASE ConnectRefused
    <3>1. Service!Moves(socket, "idle", "refused", FALSE)
      BY <2>1 DEF Service!Refuse
    <3>2. "refused" \in Service!Statuses
      BY DEF Service!Statuses
    <3> QED
      BY <2>1, <3>1, <3>2, MovesKeep
  <2>2. CASE ConnectMissed
    BY <2>2, TypesStay DEF serviceVars
  <2> QED
    BY <2>1, <2>2
<1>1. ClientTypeOK'
  <2>1. CASE ConnectRefused
    BY <2>1, Limits DEF ClientTypeOK
  <2>2. CASE ConnectMissed
    BY <2>2, Limits DEF ClientTypeOK
  <2> QED
    BY <2>1, <2>2
<1>2. ConversationTypes'
  BY <1>0
<1>3. ContentIsStream'
  BY ContentStays
<1>4. LinksFollow'
  BY <1>0 DEF LinksFollow
<1>5. NoLinkYet' /\ DescriptorsAreAccounted'
  BY DEF NoLinkYet, DescriptorsAreAccounted, ClientTypeOK
<1>6. DiesOnlyOfResets'
  BY DEF DiesOnlyOfResets
<1> QED
  BY <1>1, <1>2, <1>3, <1>4, <1>5, <1>6

(* send() returns or ends the process.                                     *)
LEMMA SendDataKeeps ==
  ASSUME ConversationInv, NEW c \in Conns, SendData(c), UNCHANGED serviceVars
  PROVE  ConversationInv'
<1> USE DEF SendData, ConversationInv, hostVars, serviceVars,
        ERR_CANNOT_SEND_TO_HOST, SendTakes, SendFails, SendInterrupted, SendKills
<1>1. ClientTypeOK'
  <2>1. /\ clientPc' \in {"caller", "dead"} /\ socket' \in Conns
        /\ clientRet' \in -4 .. MaxReply /\ interrupts' \in 0 .. MaxInterrupts
        /\ clientCalls' \in 0 .. MaxClientCalls
    BY Limits DEF ClientTypeOK
  <2>2. /\ link' \in [Conns -> Links] /\ unread' \in [Conns -> BOOLEAN]
        /\ rsts' \subseteq Conns
    BY DEF ClientTypeOK, Links
  <2> QED
    BY <2>1, <2>2 DEF ClientTypeOK
<1>2. ConversationTypes' /\ ContentIsStream'
  BY TypesStay, ContentStays
<1>3. LinksFollow'
  BY DEF LinksFollow, ClientTypeOK
<1>4. NoLinkYet' /\ DescriptorsAreAccounted'
  BY DEF NoLinkYet, DescriptorsAreAccounted, ClientTypeOK
<1>5. DiesOnlyOfResets'
  BY DEF DiesOnlyOfResets, LinksFollow, ClientTypeOK
<1> QED
  BY <1>1, <1>2, <1>3, <1>4, <1>5

(* The memory of a wait holds nothing of its stream yet.                   *)
LEMMA WaitKeeps ==
  ASSUME ConversationInv, NEW c \in Conns, NEW flags \in {0, 1},
         NEW memory \in {<<>>, content}, Wait(c, flags, memory),
         UNCHANGED serviceVars
  PROVE  ConversationInv'
<1> USE DEF Wait, ConversationInv, hostVars, serviceVars
<1>1. taken[c] \in Nat /\ taken[c] \in 0 .. MaxReply
  <2>1. taken[c] \in Nat /\ arrived[c] \in Nat /\ sent[c] \in Nat
    BY DEF ConversationTypes
  <2>2. taken[c] <= arrived[c] /\ arrived[c] <= sent[c] /\ sent[c] <= MaxReply
    BY DEF ClientTypeOK
  <2> QED
    BY <2>1, <2>2, Limits
<1>2. memory \in Seq(Conns \X (1 .. MaxReply)) /\ Len(memory) \in Nat
  <2>1. content \in Seq(Conns \X (1 .. MaxReply))
    BY DEF ClientTypeOK
  <2> QED
    BY <2>1, EmptySeq, LenProperties
<1>7. ClientTypeOK'
  BY <1>1, <1>2, Limits DEF ClientTypeOK
<1>3. ConversationTypes'
  BY TypesStay
<1>4. ContentIsStream'
  <2>1. SubSeq(memory, 1, 0) = Bytes(c, taken[c], 0)
    BY <1>1, NoBytes
  <2>2. SubSeq(content', 1, totalByteRead') = Bytes(c, began', totalByteRead')
    BY <2>1, Zenon
  <2>3. Len(content') >= totalByteRead' /\ taken'[c] = began' + totalByteRead'
    BY <1>1, <1>2
  <2> QED
    BY <2>2, <2>3 DEF ContentIsStream
<1>5. LinksFollow' /\ NoLinkYet' /\ DescriptorsAreAccounted' /\ DiesOnlyOfResets'
  BY DEF LinksFollow, NoLinkYet, DescriptorsAreAccounted, DiesOnlyOfResets
<1> QED
  BY <1>7, <1>3, <1>4, <1>5

(* recv() gives a piece: the memory ends with it.                          *)
LEMMA RecvDataKeeps ==
  ASSUME ConversationInv, RecvData, UNCHANGED serviceVars
  PROVE  ConversationInv'
<1> USE DEF RecvData, ConversationInv, hostVars, serviceVars
<1> PICK n \in Pieces :
       /\ content' = SubSeq(content, 1, totalByteRead)
                     \o Bytes(socket, taken[socket], n)
       /\ totalByteRead' = totalByteRead + n
       /\ taken' = [taken EXCEPT ![socket] = @ + n]
  OBVIOUS
<1>1. /\ socket \in Conns /\ n \in Nat /\ began \in Nat /\ totalByteRead \in Nat
      /\ taken[socket] = began + totalByteRead
      /\ SubSeq(content, 1, totalByteRead) = Bytes(socket, began, totalByteRead)
  BY Limits DEF ClientTypeOK, ContentIsStream, Pieces
<1>2. /\ taken[socket] + n <= arrived[socket] /\ arrived[socket] <= MaxReply
      /\ totalByteRead + n \in Nat /\ began + (totalByteRead + n) <= MaxReply
  <2>1. /\ taken[socket] \in Nat /\ arrived[socket] \in Nat /\ sent[socket] \in Nat
    BY <1>1 DEF ConversationTypes
  <2>2. arrived[socket] <= sent[socket] /\ sent[socket] <= MaxReply
    BY <1>1 DEF ClientTypeOK
  <2>3. n <= arrived[socket] - taken[socket]
    BY DEF Pieces
  <2> DEFINE a == arrived[socket]
             t == taken[socket]
             s == sent[socket]
  <2>4. /\ a \in Nat /\ t \in Nat /\ s \in Nat /\ t = began + totalByteRead
        /\ a <= s /\ s <= MaxReply /\ n <= a - t
    BY <1>1, <2>1, <2>2, <2>3
  <2>5. n \in Nat /\ began \in Nat /\ totalByteRead \in Nat /\ MaxReply \in Nat
    BY <1>1, Limits
  <2> HIDE DEF RecvData, ConversationInv, a, t, s
  <2>6. /\ t + n <= a /\ a <= MaxReply /\ totalByteRead + n \in Nat
        /\ began + (totalByteRead + n) <= MaxReply
    BY <2>4, <2>5
  <2> QED
    BY <2>6 DEF a, t
<1>3. content' = Bytes(socket, began, totalByteRead + n)
  <2>1. content' = Bytes(socket, began, totalByteRead)
                   \o Bytes(socket, began + totalByteRead, n)
    BY <1>1
  <2> HIDE DEF RecvData, ConversationInv, hostVars, serviceVars
  <2>2. Bytes(socket, began, totalByteRead) \o Bytes(socket, began + totalByteRead, n)
          = Bytes(socket, began, totalByteRead + n)
    BY <1>1, BytesJoin
  <2> QED
    BY <2>1, <2>2, Zenon
<1>4. /\ content' \in Seq(Conns \X (1 .. MaxReply))
      /\ Len(content') = totalByteRead + n
  <2> HIDE DEF RecvData, ConversationInv
  <2> DEFINE k == totalByteRead + n
  <2>1. k \in Nat /\ began \in Nat /\ MaxReply \in Nat /\ began + k <= MaxReply
    BY <1>1, <1>2, Limits
  <2> HIDE DEF k
  <2>2. /\ Bytes(socket, began, k) \in Seq(Conns \X (1 .. MaxReply))
        /\ Len(Bytes(socket, began, k)) = k
    BY <1>1, <2>1, BytesType
  <2> QED
    BY <1>3, <2>2 DEF k
<1>5. SubSeq(content', 1, totalByteRead + n) = content'
  BY <1>4, SubSeqFull
<1>6. /\ taken' \in [Conns -> Nat] /\ taken'[socket] = taken[socket] + n
      /\ \A c \in Conns : c # socket => taken'[c] = taken[c]
  BY <1>1 DEF ConversationTypes
<1>7. ClientTypeOK'
  <2>1. totalByteRead' \in 0 .. MaxReply
    <3> DEFINE k == totalByteRead + n
    <3>1. totalByteRead' = k /\ k \in Nat /\ began \in Nat /\ began + k <= MaxReply
      BY <1>1, <1>2
    <3> HIDE DEF k, RecvData, ConversationInv
    <3> QED
      BY <3>1, Limits
  <2>2. \A c \in Conns : 0 <= taken'[c] /\ taken'[c] <= arrived[c]
    BY <1>1, <1>2, <1>6 DEF ClientTypeOK, ConversationTypes
  <2> QED
    BY <1>4, <2>1, <2>2 DEF ClientTypeOK
<1>8. ConversationTypes'
  BY <1>6 DEF ConversationTypes
<1>9. ContentIsStream'
  BY <1>1, <1>3, <1>4, <1>5, <1>6 DEF ContentIsStream
<1>10. LinksFollow' /\ NoLinkYet' /\ DescriptorsAreAccounted' /\ DiesOnlyOfResets'
  BY DEF LinksFollow, NoLinkYet, DescriptorsAreAccounted, DiesOnlyOfResets
<1> QED
  BY <1>7, <1>8, <1>9, <1>10

LEMMA RecvEndKeeps ==
  ASSUME ConversationInv, RecvEnd, UNCHANGED serviceVars
  PROVE  ConversationInv'
<1> USE DEF RecvEnd, ConversationInv, hostVars, serviceVars
<1>1. ClientTypeOK'
  BY Limits DEF ClientTypeOK
<1>2. ConversationTypes' /\ ContentIsStream'
  BY TypesStay, ContentStays
<1>3. LinksFollow' /\ NoLinkYet' /\ DescriptorsAreAccounted' /\ DiesOnlyOfResets'
  BY DEF LinksFollow, NoLinkYet, DescriptorsAreAccounted, DiesOnlyOfResets
<1> QED
  BY <1>1, <1>2, <1>3

(* recv() fails: a signal, the flags, or a reset that has a cause.         *)
LEMMA RecvErrorKeeps ==
  ASSUME ConversationInv, RecvError, UNCHANGED serviceVars
  PROVE  ConversationInv'
<1> USE DEF RecvError, ConversationInv, hostVars, serviceVars
<1>1. ClientTypeOK'
  <2>1. link' \in [Conns -> Links]
    BY DEF ClientTypeOK, Links
  <2>2. interrupts' \in 0 .. MaxInterrupts
    BY Limits DEF ClientTypeOK
  <2> QED
    BY <2>1, <2>2 DEF ClientTypeOK
<1>2. ConversationTypes'
  BY TypesStay
<1>3. ContentIsStream' /\ NoLinkYet'
  BY DEF ContentIsStream, NoLinkYet, DescriptorsAreAccounted, ClientTypeOK
<1>4. LinksFollow' /\ DescriptorsAreAccounted'
  BY DEF LinksFollow, DescriptorsAreAccounted, ClientTypeOK
<1>5. DiesOnlyOfResets'
  BY Limits DEF DiesOnlyOfResets, LinksFollow, ClientTypeOK
<1> QED
  BY <1>1, <1>2, <1>3, <1>4, <1>5

(* TCP delivers a byte, the end or a reset.                                *)
LEMMA ArrivalKeeps ==
  ASSUME ConversationInv, Arrival, UNCHANGED serviceVars
  PROVE  ConversationInv'
<1> USE DEF ConversationInv, hostVars, serviceVars, callVars
<1> PICK c \in Conns : DataArrives(c) \/ EndArrives(c) \/ ResetArrives(c)
  BY DEF Arrival
<1>1. CASE DataArrives(c)
  <2> USE <1>1 DEF DataArrives
  <2>1. /\ arrived' \in [Conns -> Nat] /\ arrived'[c] = arrived[c] + 1
        /\ \A d \in Conns : d # c => arrived'[d] = arrived[d]
    BY DEF ConversationTypes
  <2>2. arrived[c] \in Nat /\ sent[c] \in Nat /\ taken[c] \in Nat
    BY DEF ConversationTypes
  <2>3. ClientTypeOK'
    BY <2>1, <2>2 DEF ClientTypeOK
  <2>4. ConversationTypes'
    BY <2>1 DEF ConversationTypes
  <2>5. ContentIsStream' /\ LinksFollow'
    BY <2>1 DEF ContentIsStream, LinksFollow
  <2>6. NoLinkYet' /\ DescriptorsAreAccounted' /\ DiesOnlyOfResets'
    BY DEF NoLinkYet, DescriptorsAreAccounted, DiesOnlyOfResets
  <2> QED
    BY <2>3, <2>4, <2>5, <2>6
<1>2. CASE EndArrives(c) \/ ResetArrives(c)
  <2> USE <1>2 DEF EndArrives, ResetArrives
  <2>1. /\ link' \in [Conns -> Links]
        /\ link[c] \in {"open", "eof"} /\ link'[c] \in {"eof", "reset", "broken"}
        /\ \A d \in Conns : d # c => link'[d] = link[d]
    BY DEF ClientTypeOK, Links
  <2>2. ClientTypeOK'
    BY <2>1 DEF ClientTypeOK
  <2>3. ConversationTypes' /\ ContentIsStream'
    BY DEF ConversationTypes, ContentIsStream
  <2>4. LinksFollow'
    BY DEF LinksFollow, ClientTypeOK
  <2>5. NoLinkYet'
    BY <2>1 DEF NoLinkYet, ClientTypeOK
  <2>6. DescriptorsAreAccounted'
    BY <2>1 DEF DescriptorsAreAccounted, ClientTypeOK
  <2>7. DiesOnlyOfResets'
    BY <2>1, SMTT(20) DEF DiesOnlyOfResets, ClientTypeOK
  <2> QED
    BY <2>2, <2>3, <2>4, <2>5, <2>6, <2>7
<1> QED
  BY <1>1, <1>2

(* The request handler writes a byte or reads.                             *)
LEMMA HandleKeeps ==
  ASSUME ConversationInv, Handle
  PROVE  ConversationInv'
<1> USE DEF ConversationInv, serviceVars, callVars, Handle
<1> PICK c \in Conns : HostSends(c) \/ HostReads(c)
  OBVIOUS
<1>1. CASE HostSends(c)
  <2> USE <1>1 DEF HostSends
  <2>1. /\ sent' \in [Conns -> Nat] /\ sent'[c] = sent[c] + 1
        /\ \A d \in Conns : d # c => sent'[d] = sent[d]
    BY DEF ConversationTypes
  <2>2. arrived[c] \in Nat /\ sent[c] \in Nat
    BY DEF ConversationTypes
  <2>3. ClientTypeOK'
    BY <2>1, <2>2, Limits DEF ClientTypeOK
  <2>4. ConversationTypes' /\ ContentIsStream'
    BY <2>1 DEF ConversationTypes, ContentIsStream
  <2>5. LinksFollow'
    BY <2>1 DEF LinksFollow, Ended
  <2>6. NoLinkYet' /\ DescriptorsAreAccounted' /\ DiesOnlyOfResets'
    BY DEF NoLinkYet, DescriptorsAreAccounted, DiesOnlyOfResets
  <2> QED
    BY <2>3, <2>4, <2>5, <2>6
<1>2. CASE HostReads(c)
  <2> USE <1>2 DEF HostReads, hostVars
  <2>1. ClientTypeOK'
    BY DEF ClientTypeOK
  <2>2. ConversationTypes' /\ ContentIsStream'
    BY DEF ConversationTypes, ContentIsStream
  <2>3. LinksFollow' /\ NoLinkYet' /\ DescriptorsAreAccounted' /\ DiesOnlyOfResets'
    BY DEF LinksFollow, NoLinkYet, DescriptorsAreAccounted, DiesOnlyOfResets, Ended,
       ClientTypeOK
  <2> QED
    BY <2>1, <2>2, <2>3
<1> QED
  BY <1>1, <1>2

(* The server moves: what it turns away or gives up unread is reset.       *)
LEMMA ServerMovesKeeps ==
  ASSUME ConversationInv, ServerMoves
  PROVE  ConversationInv'
<1> USE DEF ConversationInv, callVars
<1> DEFINE ended == {c \in Conns : /\ status'[c] \in {"done", "dropped", "reset"}
                                   /\ status'[c] # status[c]}
           resets == {c \in Conns : status'[c] = "reset"}
<1>1. HostEnds(ended, resets)
  BY DEF ServerMoves
<1>2. UNCHANGED <<arrived, taken, sent>>
  BY <1>1 DEF HostEnds
<1>3. /\ ConversationTypes'
      /\ \A c \in Conns : status[c] = "reset" => status'[c] = "reset"
  <2>1. CASE Service!Open
    BY <1>2, <2>1 DEF Service!Open, ConversationTypes
  <2>2. CASE Service!Accept
    BY <1>2, <2>2, AcceptKeeps
  <2>3. CASE Service!Stop
    <3>1. /\ status' \in [Conns -> Service!Statuses] /\ waiting' = <<>>
          /\ \A d \in Conns : status[d] = "reset" => status'[d] = "reset"
      BY <2>3 DEF Service!Stop, ConversationTypes, Service!Statuses
    <3>2. waiting' \in Seq(Conns) /\ Len(waiting') = 0
      BY <3>1, EmptySeq
    <3> QED
      BY <1>2, <3>1, <3>2 DEF ConversationTypes
  <2>4. ASSUME NEW c \in Conns, NEW stop \in BOOLEAN,
               Service!Serve(c, stop) \/ Service!Finish(c, stop)
                 \/ Service!Drop(c, stop)
        PROVE  /\ ConversationTypes'
               /\ \A d \in Conns : status[d] = "reset" => status'[d] = "reset"
    <3>1. \E from \in {"accepted", "serving"}, to \in Service!Statuses :
            Service!Moves(c, from, to, stop)
      BY <2>4 DEF Service!Serve, Service!Finish, Service!Drop, Service!Statuses
    <3> QED
      BY <1>2, <3>1, MovesKeep
  <2> QED
    BY <2>1, <2>2, <2>3, <2>4 DEF ServerMoves
<1> USE <1>1 DEF HostEnds
<1>4. rsts' \subseteq Conns /\ fins' \subseteq Conns
      /\ rsts \subseteq rsts' /\ fins \subseteq fins'
  BY DEF ClientTypeOK
<1>5. ClientTypeOK' /\ ContentIsStream'
  BY <1>4 DEF ClientTypeOK, ContentIsStream
<1>6. LinksFollow'
  BY <1>3, <1>4 DEF LinksFollow
<1>7. NoLinkYet' /\ DescriptorsAreAccounted'
  BY DEF NoLinkYet, DescriptorsAreAccounted
<1>8. DiesOnlyOfResets'
  BY <1>3, <1>4 DEF DiesOnlyOfResets, ClientTypeOK
<1> QED
  BY <1>3, <1>5, <1>6, <1>7, <1>8

LEMMA ConversationKeeps ==
  ConversationInv /\ [ConversationNext]_conversationVars => ConversationInv'
<1> SUFFICES ASSUME ConversationInv, [ConversationNext]_conversationVars
             PROVE  ConversationInv'
  OBVIOUS
<1>1. CASE ConnectArrives
  BY <1>1, ConnectedKeeps
<1>2. CASE ConnectRefused \/ ConnectMissed
  BY <1>2, NotConnectedKeeps
<1>3. CASE ClientAlone
  <2>1. CASE Prepare
    BY <1>3, <2>1, PrepareKeeps DEF ClientAlone
  <2>2. ASSUME NEW c \in Conns, CreateSocket(c)
        PROVE  ConversationInv'
    BY <1>3, <2>2, CreateSocketKeeps DEF ClientAlone
  <2>3. ASSUME NEW c \in Conns, CloseSocket(c)
        PROVE  ConversationInv'
    BY <1>3, <2>3, CloseSocketKeeps DEF ClientAlone
  <2>4. ASSUME NEW c \in Conns, SendData(c)
        PROVE  ConversationInv'
    BY <1>3, <2>4, SendDataKeeps DEF ClientAlone
  <2>5. ASSUME NEW c \in Conns, NEW flags \in {0, 1},
               NEW memory \in {<<>>, content}, Wait(c, flags, memory)
        PROVE  ConversationInv'
    BY <1>3, <2>5, WaitKeeps DEF ClientAlone
  <2>6. CASE Recv
    BY <1>3, <2>6, RecvDataKeeps, RecvEndKeeps, RecvErrorKeeps DEF ClientAlone, Recv
  <2>7. CASE Arrival
    BY <1>3, <2>7, ArrivalKeeps DEF ClientAlone
  <2> QED
    BY <1>3, <2>1, <2>2, <2>3, <2>4, <2>5, <2>6, <2>7 DEF ClientAlone
<1>4. CASE Handle
  BY <1>4, HandleKeeps
<1>5. CASE ServerMoves
  BY <1>5, ServerMovesKeeps
<1>6. CASE UNCHANGED conversationVars
  <2> USE <1>6 DEF conversationVars, clientVars, callVars, hostVars, serviceVars,
          ConversationInv
  <2>1. ClientTypeOK'
    BY DEF ClientTypeOK
  <2>2. ConversationTypes' /\ ContentIsStream'
    BY DEF ConversationTypes, ContentIsStream
  <2>3. LinksFollow' /\ NoLinkYet' /\ DescriptorsAreAccounted' /\ DiesOnlyOfResets'
    BY DEF LinksFollow, NoLinkYet, DescriptorsAreAccounted, DiesOnlyOfResets
  <2> QED
    BY <2>1, <2>2, <2>3
<1> QED
  BY <1>1, <1>2, <1>3, <1>4, <1>5, <1>6 DEF ConversationNext

LEMMA ConversationInvariance == ConversationSpec => []ConversationInv
BY ConversationInitial, ConversationKeeps, PTL DEF ConversationSpec

(* The types; no byte is read before it has arrived.                       *)
THEOREM ConversationTypeCorrect == ConversationSpec => []ClientTypeOK
<1>1. ConversationInv => ClientTypeOK
  BY DEF ConversationInv
<1> QED
  BY <1>1, ConversationInvariance, PTL

(* waiting_data_from_host fills the memory with exactly the bytes of the   *)
(* stream that it took, in order, for pieces of any size and any earlier   *)
(* content.                                                                *)
THEOREM ContentIsExact == ConversationSpec => []ContentIsStream
<1>1. ConversationInv => ContentIsStream
  BY DEF ConversationInv
<1> QED
  BY <1>1, ConversationInvariance, PTL

(* Nothing but signals, flags, and resets that have a cause ends the       *)
(* process in a call of client.c.                                          *)
THEOREM DeathsHaveACause == ConversationSpec => []DiesOnlyOfResets
<1>1. ConversationInv => DiesOnlyOfResets
  BY DEF ConversationInv
<1> QED
  BY <1>1, ConversationInvariance, PTL

(* connect_to_host leaves a descriptor open for every connect() that has   *)
(* failed, and for nothing else.                                           *)
THEOREM DescriptorsAccounted == ConversationSpec => []DescriptorsAreAccounted
<1>1. ConversationInv => DescriptorsAreAccounted
  BY DEF ConversationInv
<1> QED
  BY <1>1, ConversationInvariance, PTL

(* A wait that returns has returned the whole stream, and its length.      *)
THEOREM WaitReturnsAtTheEnd == ConversationSpec => ReturnsAtTheEnd
<1> DEFINE Whole == clientPc = "recv" /\ clientPc' = "caller" =>
                      /\ Ended(socket)
                      /\ clientRet' = taken[socket] - began
                      /\ taken[socket] = arrived[socket]
                      /\ taken[socket] < sent[socket] => link[socket] = "gone"
<1>1. ASSUME ConversationInv, [ConversationNext]_conversationVars,
             clientPc = "recv", clientPc' = "caller"
      PROVE  /\ Ended(socket)
             /\ clientRet' = taken[socket] - began
             /\ taken[socket] = arrived[socket]
             /\ taken[socket] < sent[socket] => link[socket] = "gone"
  <2>1. RecvEnd
    BY <1>1 DEF ConversationNext, ConnectArrives, ConnectRefused, ConnectMissed,
       Connected, NotConnected, ClientAlone, Prepare, CreateSocket, CloseSocket,
       SendData, Wait, Recv, RecvData, RecvError, Arrival, DataArrives, EndArrives,
       ResetArrives, Handle, HostSends, HostReads, ServerMoves, HostEnds, callVars,
       clientVars, conversationVars
  <2>2. /\ arrived[socket] = taken[socket] /\ clientRet' = totalByteRead
        /\ link[socket] \in {"eof", "broken", "gone"} /\ socket \in Conns
    BY <1>1, <2>1 DEF RecvEnd, ConversationInv, ClientTypeOK
  <2>3. Ended(socket) /\ (link[socket] # "gone" => arrived[socket] = sent[socket])
    BY <1>1, <2>2 DEF ConversationInv, LinksFollow, Ended
  <2>4. /\ taken[socket] = began + totalByteRead /\ began \in Nat
        /\ totalByteRead \in Nat /\ sent[socket] \in Nat
    BY <1>1, <2>2, Limits DEF ConversationInv, ContentIsStream, ClientTypeOK,
       ConversationTypes
  <2> QED
    BY <2>2, <2>3, <2>4
<1>2. ConversationInv /\ [ConversationNext]_conversationVars
        => [Whole]_conversationVars
  BY <1>1
<1> QED
  BY <1>2, ConversationInvariance, PTL DEF ConversationSpec, ReturnsAtTheEnd

-----------------------------------------------------------------------------
(* Files: what holds beside the invariants that are checked.               *)

(* The pieces that are still to be written: of the memory of one call, in  *)
(* order from where the process stands, or a whole append.                 *)
PieceFollows(p) ==
  /\ fileOp[p] = "write" =>
       \E n \in Nat : \A j \in 1 .. Len(unwritten[p]) :
         unwritten[p][j] = <<"data", n, offset[p] + j>>
  /\ fileOp[p] = "append" =>
       unwritten[p] = <<>> \/ \E n \in Nat : unwritten[p] = Text(n)

(* As long as no other process has written, the one that writes has the    *)
(* file for itself: it holds the first bytes, and the rest is to be        *)
(* written unless some were lost.                                          *)
WriteIsAlone(p) ==
  ~mixed /\ fileOp[p] = "write" =>
    /\ Writers = {p}
    /\ file = Data(base[1], offset[p])
    /\ \A j \in 1 .. Len(unwritten[p]) :
         unwritten[p][j] = <<"data", base[1], offset[p] + j>>
    /\ offset[p] + Len(unwritten[p]) <= base[2]
    /\ ~cut => offset[p] + Len(unwritten[p]) = base[2]

PiecesFollow == \A p \in Processes : PieceFollows(p)
WritesAlone  == \A p \in Processes : WriteIsAlone(p)

(* What a quiet load has read is what the file holds.                      *)
LoadsFollow ==
  \A p \in quiet :
    /\ fileOp[p] \in {"load", "loadFailed"}
    /\ offset[p] <= Len(file) /\ offset[p] <= Len(data[p])
    /\ \A i \in 1 .. Len(data[p]) :
         data[p][i] = IF i <= offset[p] THEN file[i] ELSE Memory(i)

FileInv ==
  /\ FileTypeOK /\ data \in [Processes -> Seq(FileBytes)]
  /\ PiecesFollow /\ WritesAlone /\ LoadsFollow
  /\ DataKeepsItsPlace /\ FileIsAccounted

-----------------------------------------------------------------------------
(* Bytes and sequences of them.                                            *)
LEMMA FileLimits ==
  /\ PtrSize \in Nat \ {0} /\ DataLens \subseteq Nat /\ MaxFileCalls \in Nat
BY FileAssumption

LEMMA DataIs ==
  ASSUME NEW n \in Nat, NEW len \in Nat
  PROVE  /\ Data(n, len) \in Seq(FileBytes) /\ Len(Data(n, len)) = len
         /\ \A i \in 1 .. len : Data(n, len)[i] = <<"data", n, i>>
<1>1. \A i \in 1 .. len : <<"data", n, i>> \in FileBytes
  BY DEF FileBytes
<1>2. Data(n, len) \in [1 .. len -> FileBytes]
  BY <1>1 DEF Data
<1> QED
  BY <1>2 DEF Data

LEMMA TextIs ==
  ASSUME NEW n \in Nat
  PROVE  /\ Text(n) \in Seq(FileBytes) /\ Len(Text(n)) = PtrSize
         /\ \A i \in 1 .. PtrSize : Text(n)[i] = <<"text", n, i>>
<1>1. \A i \in 1 .. PtrSize : <<"text", n, i>> \in FileBytes
  BY FileLimits DEF FileBytes
<1>2. Text(n) \in [1 .. PtrSize -> FileBytes]
  BY <1>1 DEF Text
<1> QED
  BY <1>2, FileLimits DEF Text

LEMMA MemoryIs ==
  ASSUME NEW len \in Nat
  PROVE  /\ [i \in 1 .. len |-> Memory(i)] \in Seq(FileBytes)
         /\ Len([i \in 1 .. len |-> Memory(i)]) = len
<1>1. \A i \in 1 .. len : Memory(i) \in FileBytes
  BY DEF FileBytes, Memory
<1>2. [i \in 1 .. len |-> Memory(i)] \in [1 .. len -> FileBytes]
  BY <1>1
<1> QED
  BY <1>2

(* What is written over a sequence.                                        *)
LEMMA OverlaidIs ==
  ASSUME NEW bytes \in Seq(FileBytes), NEW at \in Nat, NEW piece \in Seq(FileBytes)
  PROVE  LET end == at + Len(piece)
             over == Overlaid(bytes, at, piece)
         IN  /\ over \in Seq(FileBytes)
             /\ Len(over) = IF end < Len(bytes) THEN Len(bytes) ELSE end
             /\ \A i \in 1 .. Len(over) :
                  over[i] = IF i > at /\ i <= end THEN piece[i - at]
                            ELSE IF i <= Len(bytes) THEN bytes[i] ELSE Hole
<1> DEFINE end == at + Len(piece)
           top == IF end < Len(bytes) THEN Len(bytes) ELSE end
           E(i) == IF i > at /\ i <= end THEN piece[i - at]
                   ELSE IF i <= Len(bytes) THEN bytes[i] ELSE Hole
<1>1. Len(bytes) \in Nat /\ Len(piece) \in Nat /\ end \in Nat /\ top \in Nat
  BY LenProperties
<1>2. ASSUME NEW i \in 1 .. top
      PROVE  E(i) \in FileBytes
  <2>1. CASE i > at /\ i <= end
    <3>1. i - at \in 1 .. Len(piece)
      BY <1>1, <2>1
    <3> QED
      BY <2>1, <3>1, ElementOfSeq
  <2>2. CASE ~(i > at /\ i <= end) /\ i <= Len(bytes)
    <3>1. i \in 1 .. Len(bytes)
      BY <1>1, <2>2
    <3> QED
      BY <2>2, <3>1, ElementOfSeq
  <2>3. Hole \in FileBytes
    BY DEF Hole, FileBytes
  <2> QED
    BY <2>1, <2>2, <2>3
<1>3. Overlaid(bytes, at, piece) = [i \in 1 .. top |-> E(i)]
  BY DEF Overlaid
<1> HIDE DEF top, E
<1>4. [i \in 1 .. top |-> E(i)] \in [1 .. top -> FileBytes]
  BY <1>2
<1>5. /\ Overlaid(bytes, at, piece) \in Seq(FileBytes)
      /\ Len(Overlaid(bytes, at, piece)) = top
      /\ \A i \in 1 .. top : Overlaid(bytes, at, piece)[i] = E(i)
  BY <1>1, <1>3, <1>4
<1> QED
  BY <1>5 DEF top, E

(* Sequences that agree at first have the same prefix.                     *)
LEMMA SamePrefix ==
  ASSUME NEW s \in Seq(FileBytes), NEW t \in Seq(FileBytes), NEW k \in Nat,
         k <= Len(s), k <= Len(t), \A i \in 1 .. k : s[i] = t[i]
  PROVE  SubSeq(s, 1, k) = SubSeq(t, 1, k)
<1>1. \A i \in 1 .. k : s[i] \in FileBytes /\ t[i] \in FileBytes
  BY LenProperties, ElementOfSeq
<1>2. /\ SubSeq(s, 1, k) \in Seq(FileBytes)
      /\ Len(SubSeq(s, 1, k)) = IF 1 <= k THEN k - 1 + 1 ELSE 0
      /\ \A i \in 1 .. k - 1 + 1 : SubSeq(s, 1, k)[i] = s[1 + i - 1]
  BY <1>1, SubSeqProperties
<1>3. /\ SubSeq(t, 1, k) \in Seq(FileBytes)
      /\ Len(SubSeq(t, 1, k)) = IF 1 <= k THEN k - 1 + 1 ELSE 0
      /\ \A i \in 1 .. k - 1 + 1 : SubSeq(t, 1, k)[i] = t[1 + i - 1]
  BY <1>1, SubSeqProperties
<1> DEFINE u == SubSeq(s, 1, k)
           v == SubSeq(t, 1, k)
<1> HIDE DEF u, v
<1>4. u \in Seq(FileBytes) /\ Len(u) = k /\ \A i \in 1 .. k : u[i] = s[i]
  BY <1>2 DEF u
<1>5. v \in Seq(FileBytes) /\ Len(v) = k /\ \A i \in 1 .. k : v[i] = t[i]
  BY <1>3 DEF v
<1>6. u = v
  BY <1>4, <1>5, SeqEqual
<1> QED
  BY <1>6 DEF u, v

(* Behind a whole number of blocks of m the remainders begin again.        *)
LEMMA BehindWholes ==
  ASSUME NEW y \in Nat, NEW m \in Nat \ {0}, y % m = 0
  PROVE  (y + m) % m = 0 /\ \A j \in 0 .. m - 1 : (y + j) % m = j
<1>1. PICK q \in Nat, r \in 0 .. m - 1 : y = m * q + r /\ r = y % m
  BY Division
<1> DEFINE z == m * q
<1>2. z \in Nat /\ z = y
  BY <1>1
<1>3. m * (q + 1) = z + m
  BY Distributes
<1> DEFINE v == y + m
           w == q + 1
<1>4. v = m * w + 0 /\ 0 \in 0 .. m - 1 /\ w \in Nat /\ v \in Nat
  BY <1>2, <1>3
<1> HIDE DEF v, w
<1>5. v % m = 0
  BY <1>4, RemainderIsUnique
<1>6. ASSUME NEW j \in 0 .. m - 1
      PROVE  (y + j) % m = j
  <2>1. y + j \in Nat /\ y + j = m * q + j
    BY <1>2
  <2> QED
    BY <2>1, RemainderIsUnique
<1> QED
  BY <1>5, <1>6 DEF v

LEMMA RemainderIsSmall ==
  ASSUME NEW x \in Nat, NEW m \in Nat \ {0}
  PROVE  x % m \in Nat /\ x % m <= x
<1>1. PICK q \in Nat, r \in 0 .. m - 1 : x = m * q + r /\ r = x % m
  BY Division
<1> DEFINE z == m * q
<1>2. z \in Nat /\ x = z + r
  BY <1>1
<1> HIDE DEF z
<1> QED
  BY <1>1, <1>2

(* What a write() does to the file.                                        *)
LEMMA PutOutIs ==
  ASSUME FileTypeOK, NEW p \in Processes, NEW n \in 0 .. Len(unwritten[p]),
         PutOut(p, n)
  PROVE  LET at == IF fileOp[p] = "append" THEN Len(file) ELSE offset[p]
         IN  /\ at \in Nat /\ Len(file) \in Nat /\ Len(unwritten[p]) \in Nat
             /\ file' \in Seq(FileBytes) /\ Len(file') \in Nat
             /\ Len(file') = IF n = 0 \/ at + n < Len(file) THEN Len(file)
                             ELSE at + n
             /\ \A i \in 1 .. Len(file') :
                  file'[i] = IF i > at /\ i <= at + n THEN unwritten[p][i - at]
                             ELSE IF i <= Len(file) THEN file[i] ELSE Hole
             /\ offset' \in [Processes -> Nat] /\ offset'[p] = at + n
             /\ \A q \in Processes : q # p => offset'[q] = offset[q]
             /\ quiet' = {}
<1> DEFINE at == IF fileOp[p] = "append" THEN Len(file) ELSE offset[p]
           u == unwritten[p]
           piece == SubSeq(u, 1, n)
<1>1. /\ file \in Seq(FileBytes) /\ u \in Seq(FileBytes)
      /\ offset \in [Processes -> Nat]
  BY DEF FileTypeOK
<1>2. at \in Nat /\ Len(file) \in Nat /\ Len(u) \in Nat /\ n \in Nat
  BY <1>1, LenProperties
<1>3. /\ piece \in Seq(FileBytes) /\ Len(piece) = n
      /\ \A i \in 1 .. n : piece[i] = u[i]
  <2>1. \A i \in 1 .. n : u[i] \in FileBytes
    BY <1>1, <1>2, ElementOfSeq
  <2> HIDE DEF u
  <2>2. /\ SubSeq(u, 1, n) \in Seq(FileBytes)
        /\ Len(SubSeq(u, 1, n)) = IF 1 <= n THEN n - 1 + 1 ELSE 0
        /\ \A i \in 1 .. n - 1 + 1 : SubSeq(u, 1, n)[i] = u[1 + i - 1]
    BY <1>2, <2>1, SubSeqProperties
  <2> QED
    BY <1>2, <2>2
<1>4. /\ offset' \in [Processes -> Nat] /\ offset'[p] = at + n
      /\ \A q \in Processes : q # p => offset'[q] = offset[q]
      /\ quiet' = {}
      /\ file' = IF n = 0 THEN file ELSE Overlaid(file, at, piece)
  BY <1>1, <1>2 DEF PutOut
<1> HIDE DEF at, u, piece
<1>5. CASE n = 0
  BY <1>1, <1>2, <1>4, <1>5 DEF at, u
<1>6. CASE n # 0
  <2>0. LET end == at + Len(piece)
            over == Overlaid(file, at, piece)
        IN  /\ over \in Seq(FileBytes)
            /\ Len(over) = IF end < Len(file) THEN Len(file) ELSE end
            /\ \A i \in 1 .. Len(over) :
                 over[i] = IF i > at /\ i <= end THEN piece[i - at]
                           ELSE IF i <= Len(file) THEN file[i] ELSE Hole
    BY <1>1, <1>2, <1>3, OverlaidIs
  <2>1. /\ file' \in Seq(FileBytes)
        /\ Len(file') = IF at + n < Len(file) THEN Len(file) ELSE at + n
        /\ \A i \in 1 .. Len(file') :
             file'[i] = IF i > at /\ i <= at + n THEN piece[i - at]
                        ELSE IF i <= Len(file) THEN file[i] ELSE Hole
    <3>1. file' = Overlaid(file, at, piece) /\ Len(piece) = n
      BY <1>3, <1>4, <1>6
    <3> QED
      BY <2>0, <3>1
  <2>2. Len(file') \in Nat
    BY <1>2, <2>1
  <2>3. \A i \in 1 .. Len(file') : i > at /\ i <= at + n => piece[i - at] = u[i - at]
    BY <1>2, <1>3, <2>2
  <2> QED
    BY <1>2, <1>4, <1>6, <2>1, <2>2, <2>3 DEF at, u
<1> QED
  BY <1>5, <1>6

(* After a step a write that is alone has made the file what it should be. *)
LEMMA AloneIsAccounted ==
  ASSUME NEW p \in Processes, ~mixed', fileOp'[p] = "write", WritesAlone',
         base' \in Nat \X Nat, offset'[p] \in Nat, Len(unwritten'[p]) \in Nat
  PROVE  FileIsAccounted'
<1>1. /\ file' = Data(base'[1], offset'[p]) /\ p \in Writers'
      /\ offset'[p] + Len(unwritten'[p]) <= base'[2]
  BY DEF WritesAlone, WriteIsAlone, Writers
<1>2. /\ base'[1] \in Nat /\ base'[2] \in Nat /\ offset'[p] <= base'[2]
  BY <1>1
<1>3. file' \in Seq(FileBytes) /\ Len(file') = offset'[p]
  BY <1>1, <1>2, DataIs
<1>4. SubSeq(file', 1, offset'[p]) = Data(base'[1], offset'[p])
  BY <1>1, <1>3, SubSeqFull
<1>5. Consists(offset[p], FALSE)'
  BY <1>3, <1>4 DEF Consists
<1>6. offset'[p] \in 0 .. Shorter(base[2], Len(file))'
  BY <1>2, <1>3 DEF Shorter
<1> QED
  BY <1>1, <1>5, <1>6 DEF FileIsAccounted

(* An append, whole or in part, behind a file that is accounted for.       *)
LEMMA AppendedIsAccounted ==
  ASSUME FileInv, ~mixed, \A q \in Writers : fileOp[q] # "write",
         NEW m \in Nat, NEW n \in 0 .. PtrSize,
         file' \in Seq(FileBytes), Len(file') = Len(file) + n,
         \A i \in 1 .. Len(file) : file'[i] = file[i],
         \A i \in 1 .. n : file'[Len(file) + i] = <<"text", m, i>>,
         UNCHANGED <<base, mixed, fileOp>>, cut' \/ (n = PtrSize /\ ~cut)
  PROVE  FileIsAccounted'
<1>1. /\ Len(file) \in Nat /\ file \in Seq(FileBytes) /\ n \in Nat
      /\ base[1] \in Nat /\ base[2] \in Nat
  BY LenProperties, FileLimits DEF FileInv, FileTypeOK
<1>2. ASSUME NEW k \in 0 .. Shorter(base[2], Len(file)), Consists(k, FALSE)
      PROVE  k \in 0 .. Shorter(base[2], Len(file)') /\ Consists(k, FALSE)'
  <2>1. k \in Nat /\ k <= Len(file)
    BY <1>1 DEF Shorter
  <2>2. SubSeq(file', 1, k) = Data(base[1], k)
    BY <1>1, <1>2, <2>1, SamePrefix DEF Consists
  <2>3. \A i \in k + 1 .. Len(file') : file'[i][1] = "text"
    <3> TAKE i \in k + 1 .. Len(file')
    <3>1. CASE i <= Len(file)
      <4>1. i \in k + 1 .. Len(file) /\ i \in 1 .. Len(file)
        BY <1>1, <2>1, <3>1
      <4> QED
        BY <1>2, <4>1 DEF Consists
    <3>2. CASE ~(i <= Len(file))
      <4>1. i - Len(file) \in 1 .. n /\ Len(file) + (i - Len(file)) = i
        BY <1>1, <2>1, <3>2
      <4>2. file'[i] = <<"text", m, i - Len(file)>>
        BY <4>1
      <4> QED
        BY <4>2
    <3> QED
      BY <3>1, <3>2
  <2>4. k \in 0 .. Shorter(base[2], Len(file'))
    BY <1>1, <1>2, <2>1 DEF Shorter
  <2>5. Consists(k, FALSE)'
    BY <2>2, <2>3 DEF Consists
  <2> QED
    BY <2>4, <2>5
<1>3. ASSUME ~cut', base[2] <= Len(file), Consists(base[2], TRUE)
      PROVE  base[2] <= Len(file') /\ Consists(base[2], TRUE)'
  <2> DEFINE k == base[2]
             l == Len(file)
             Whole(f, i) == LET r == (i - k - 1) % PtrSize
                            IN  f[i][3] = r + 1 /\ f[i][2] = f[i - r][2]
  <2>0. n = PtrSize /\ ~cut /\ k \in Nat /\ l \in Nat /\ k <= l
    BY <1>1, <1>3
  <2>1. k \in 0 .. Shorter(base[2], l) /\ Consists(k, FALSE)
    BY <1>1, <1>3, <2>0 DEF Shorter, Consists
  <2>2. Consists(k, FALSE)'
    BY <1>2, <2>1
  <2>3. /\ (l - k) % PtrSize = 0
        /\ \A i \in k + 1 .. l : Whole(file, i)
    BY <1>3 DEF Consists
  <2>4. /\ (l - k + PtrSize) % PtrSize = 0
        /\ \A j \in 0 .. PtrSize - 1 : (l - k + j) % PtrSize = j
    <3>1. l - k \in Nat
      BY <2>0
    <3> QED
      BY <2>3, <3>1, FileLimits, BehindWholes
  <2>6. (Len(file') - k) % PtrSize = 0
    <3>1. Len(file') - k = l - k + PtrSize
      BY <2>0, FileLimits
    <3> QED
      BY <2>4, <3>1
  <2>7. ASSUME NEW i \in k + 1 .. Len(file')
        PROVE  Whole(file', i)
    <3> DEFINE x == i - k - 1
               r == x % PtrSize
    <3>1. x \in Nat /\ i \in Nat
      BY <2>0, FileLimits
    <3>3. CASE i <= l
      <4>1. i - r \in 1 .. l
        <5>1. r \in Nat /\ r <= x
          BY <3>1, FileLimits, RemainderIsSmall
        <5> HIDE DEF r
        <5> QED
          BY <2>0, <3>1, <3>3, <5>1
      <4>2. i \in k + 1 .. l /\ i \in 1 .. l
        BY <2>0, <3>3
      <4> QED
        BY <2>3, <4>1, <4>2
    <3>4. CASE ~(i <= l)
      <4>1. /\ i - l \in 1 .. PtrSize /\ i - l - 1 \in 0 .. PtrSize - 1
            /\ x = l - k + (i - l - 1)
        BY <2>0, <3>1, <3>4, FileLimits, SMTT(20)
      <4>2. r = i - l - 1
        BY <2>4, <4>1
      <4> HIDE DEF r
      <4>3. /\ i = l + (i - l) /\ i - r = l + 1 /\ 1 \in 1 .. PtrSize
            /\ r + 1 = i - l
        BY <2>0, <3>1, <4>2, FileLimits
      <4>4. file'[i] = <<"text", m, i - l>> /\ file'[l + 1] = <<"text", m, 1>>
        <5> DEFINE j == i - l
        <5>1. j \in 1 .. PtrSize /\ 1 \in 1 .. PtrSize /\ i = l + j
          BY <4>1, <4>3
        <5> HIDE DEF j
        <5>2. file'[l + j] = <<"text", m, j>> /\ file'[l + 1] = <<"text", m, 1>>
          BY <2>0, <5>1
        <5> QED
          BY <5>1, <5>2, Zenon DEF j
      <4>5. Whole(file', i) <=> file'[i][3] = r + 1 /\ file'[i][2] = file'[i - r][2]
        BY DEF r
      <4> QED
        BY <4>3, <4>4, <4>5
    <3> QED
      BY <3>3, <3>4
  <2>8. base[2] <= Len(file')
    BY <2>0
  <2> QED
    BY <2>2, <2>6, <2>7, <2>8 DEF Consists
<1> QED
  BY <1>2, <1>3 DEF FileInv, FileIsAccounted, Writers

(* What was accounted for stays so while the file is left alone.           *)
LEMMA AccountedStays ==
  ASSUME FileIsAccounted, UNCHANGED <<file, base>>,
         ~mixed' => ~mixed, ~cut' => ~cut,
         ~mixed' /\ ~cut' /\ (\A q \in Writers' : fileOp'[q] # "write")
           => \A q \in Writers : fileOp[q] # "write"
  PROVE  FileIsAccounted'
<1>1. \A k, whole : Consists(k, whole)' <=> Consists(k, whole)
  BY DEF Consists
<1> QED
  BY <1>1 DEF FileIsAccounted

(* The pieces of a process that does not move.                             *)
LEMMA PieceStays ==
  ASSUME NEW q, PieceFollows(q), fileOp'[q] = fileOp[q],
         unwritten'[q] = unwritten[q], offset'[q] = offset[q]
  PROVE  PieceFollows(q)'
BY DEF PieceFollows

LEMMA AloneStays ==
  ASSUME NEW q, WriteIsAlone(q), fileOp'[q] = "write" => fileOp[q] = "write",
         unwritten'[q] = unwritten[q], offset'[q] = offset[q],
         UNCHANGED <<file, base>>, ~mixed' => ~mixed, ~cut' => ~cut,
         fileOp'[q] = "write" => Writers' = Writers
  PROVE  WriteIsAlone(q)'
BY DEF WriteIsAlone

-----------------------------------------------------------------------------
(* The invariant holds at first and is kept by each call.                  *)
LEMMA FileInitial == FileInit => FileInv
<1> SUFFICES ASSUME FileInit PROVE FileInv
  OBVIOUS
<1> USE DEF FileInit
<1>1. Len(file) = 0 /\ DOMAIN file = {} /\ file \in Seq(FileBytes)
  OBVIOUS
<1>2. FileTypeOK /\ data \in [Processes -> Seq(FileBytes)]
  <2>1. /\ \A p \in Processes : data[p] = <<>> /\ Len(data[p]) = 0
        /\ data \in [Processes -> Seq(FileBytes)]
        /\ unwritten \in [Processes -> Seq(FileBytes)]
    BY EmptySeq
  <2>2. /\ calls \in 0 .. MaxFileCalls /\ base \in (0 .. MaxFileCalls) \X Nat
        /\ fileRet \in {-1, OK, INVALID_ARGUMENT, CANNOT_OPEN_FILE, PtrSize}
    BY FileLimits
  <2>3. offset \in [Processes -> Nat]
        /\ fileOp \in [Processes ->
             {"idle", "write", "append", "load", "loadFailed", "dead"}]
    OBVIOUS
  <2>4. /\ fileExists \in BOOLEAN /\ mixed \in BOOLEAN /\ cut \in BOOLEAN
        /\ quiet \subseteq Processes
    OBVIOUS
  <2> HIDE DEF FileInit
  <2> QED
    BY <1>1, <2>1, <2>2, <2>3, <2>4 DEF FileTypeOK
<1>3. PiecesFollow /\ WritesAlone /\ LoadsFollow /\ DataKeepsItsPlace
  BY <1>1 DEF PiecesFollow, PieceFollows, WritesAlone, WriteIsAlone, LoadsFollow,
     DataKeepsItsPlace
<1>4. FileIsAccounted
  <2>1. SubSeq(file, 1, 0) = <<>> /\ Data(0, 0) = <<>>
    <3>1. Data(0, 0) \in Seq(FileBytes) /\ Len(Data(0, 0)) = 0
      BY DataIs
    <3>2. Data(0, 0) = <<>>
      BY <3>1, EmptySeq
    <3> QED
      BY <3>2, SubSeqEmpty
  <2>2. base[1] = 0 /\ base[2] = 0 /\ (Len(file) - 0) % PtrSize = 0
    BY <1>1, FileLimits
  <2> HIDE DEF FileInit
  <2>3. 0 + 1 .. Len(file) = {}
    BY <1>1
  <2>4. SubSeq(file, 1, 0) = Data(base[1], 0)
    BY <2>1, <2>2, Zenon
  <2>5. Consists(0, TRUE) /\ Consists(0, FALSE)
    BY <2>2, <2>3, <2>4 DEF Consists
  <2>6. Consists(base[2], TRUE)
    BY <2>2, <2>5, Zenon
  <2>7. 0 \in 0 .. Shorter(base[2], Len(file)) /\ base[2] <= Len(file)
    BY <1>1, <2>2 DEF Shorter
  <2> QED
    BY <2>5, <2>6, <2>7 DEF FileIsAccounted
<1> QED
  BY <1>2, <1>3, <1>4 DEF FileInv

LEMMA RefuseKeeps ==
  ASSUME FileInv, NEW p \in Processes, FileRefuse(p)
  PROVE  FileInv'
<1> USE DEF FileInv, FileRefuse
<1>1. FileTypeOK'
  BY DEF FileTypeOK
<1>2. PiecesFollow' /\ WritesAlone' /\ LoadsFollow' /\ DataKeepsItsPlace'
  BY DEF PiecesFollow, PieceFollows, WritesAlone, WriteIsAlone, LoadsFollow,
     DataKeepsItsPlace, Writers
<1>3. FileIsAccounted'
  BY AccountedStays DEF Writers
<1> QED
  BY <1>1, <1>2, <1>3

(* fopen("w"): the file is empty, and other writers make a mixture.        *)
LEMMA WriteOpenKeeps ==
  ASSUME FileInv, NEW p \in Processes, NEW len \in DataLens, OpenToWrite(p, len)
  PROVE  FileInv'
<1> USE DEF FileInv, OpenToWrite, Begin
<1>1. /\ calls \in Nat /\ calls + 1 \in Nat /\ len \in Nat
      /\ calls + 1 \in 0 .. MaxFileCalls
  BY FileLimits DEF FileTypeOK
<1> DEFINE n == calls + 1
<1>2. /\ Data(n, len) \in Seq(FileBytes) /\ Len(Data(n, len)) = len
      /\ \A i \in 1 .. len : Data(n, len)[i] = <<"data", n, i>>
  BY <1>1, DataIs
<1>3. /\ unwritten' \in [Processes -> Seq(FileBytes)]
      /\ unwritten'[p] = Data(n, len)
      /\ \A q \in Processes : q # p => unwritten'[q] = unwritten[q]
  BY <1>2 DEF FileTypeOK
<1>4. /\ offset' \in [Processes -> Nat] /\ offset'[p] = 0
      /\ \A q \in Processes : q # p => offset'[q] = offset[q]
  BY DEF FileTypeOK
<1>5. /\ fileOp' \in [Processes ->
           {"idle", "write", "append", "load", "loadFailed", "dead"}]
      /\ fileOp'[p] = "write" /\ fileOp[p] = "idle"
      /\ \A q \in Processes : q # p => fileOp'[q] = fileOp[q]
  BY DEF FileTypeOK
<1>6. Writers' = Writers \cup {p}
  BY <1>5 DEF Writers
<1>7. /\ file' = <<>> /\ base' = <<n, len>> /\ quiet' = {} /\ cut' = FALSE
      /\ mixed' = (Writers # {}) /\ UNCHANGED <<data, fileRet>>
      /\ fileExists' = TRUE /\ calls' = n
  OBVIOUS
<1>8. file' \in Seq(FileBytes) /\ Len(file') = 0 /\ DOMAIN file' = {}
  BY <1>7
<1> HIDE DEF n, OpenToWrite, Begin
<1>9. FileTypeOK'
  BY <1>1, <1>3, <1>4, <1>5, <1>7, <1>8 DEF FileTypeOK, n
<1>10. PiecesFollow'
  <2>1. n \in Nat /\ \A j \in 1 .. len : 0 + j = j
    BY <1>1 DEF n
  <2>2. \A j \in 1 .. Len(unwritten'[p]) :
          unwritten'[p][j] = <<"data", n, offset'[p] + j>>
    BY <1>2, <1>3, <1>4, <2>1
  <2> SUFFICES ASSUME NEW q \in Processes
               PROVE  PieceFollows(q)'
    BY DEF PiecesFollow
  <2>5. CASE q = p
    BY <1>5, <2>1, <2>2, <2>5 DEF PieceFollows
  <2>6. CASE q # p
    BY <1>3, <1>4, <1>5, <2>6, PieceStays DEF PiecesFollow
  <2> QED
    BY <2>5, <2>6
<1>11. WritesAlone'
  <2> SUFFICES ASSUME NEW q \in Processes, ~mixed', fileOp'[q] = "write"
               PROVE  /\ Writers' = {q}
                      /\ file' = Data(base'[1], offset'[q])
                      /\ \A j \in 1 .. Len(unwritten'[q]) :
                           unwritten'[q][j] = <<"data", base'[1], offset'[q] + j>>
                      /\ offset'[q] + Len(unwritten'[q]) <= base'[2]
                      /\ offset'[q] + Len(unwritten'[q]) = base'[2]
    BY DEF WritesAlone, WriteIsAlone
  <2>1. q = p /\ Writers' = {q}
    BY <1>5, <1>6, <1>7 DEF Writers
  <2>2. Data(n, 0) = <<>>
    BY <1>1, DataIs, EmptySeq DEF n
  <2>3. \A j \in 1 .. len : 0 + j = j
    BY <1>1
  <2> QED
    BY <1>1, <1>2, <1>3, <1>4, <1>7, <2>1, <2>2, <2>3
<1>12. LoadsFollow' /\ DataKeepsItsPlace'
  BY <1>7, <1>8 DEF LoadsFollow, DataKeepsItsPlace
<1>13. FileIsAccounted'
  <2>1. CASE mixed'
    BY <2>1 DEF FileIsAccounted
  <2>2. CASE ~mixed'
    <3>1. base' \in Nat \X Nat /\ offset'[p] \in Nat /\ Len(unwritten'[p]) \in Nat
      BY <1>1, <1>2, <1>3, <1>4, <1>7 DEF n
    <3> QED
      BY <1>5, <1>11, <2>2, <3>1, AloneIsAccounted
  <2> QED
    BY <2>1, <2>2
<1> QED
  BY <1>7, <1>9, <1>10, <1>11, <1>12, <1>13

(* fopen("a"): nothing has changed in the file yet.                        *)
LEMMA OpenToAppendKeeps ==
  ASSUME FileInv, NEW p \in Processes, OpenToAppend(p)
  PROVE  FileInv'
<1> USE DEF FileInv, OpenToAppend, Begin
<1>1. /\ calls + 1 \in Nat /\ calls + 1 \in 0 .. MaxFileCalls
      /\ Text(calls + 1) \in Seq(FileBytes)
  <2>1. calls \in Nat /\ calls + 1 \in Nat /\ calls + 1 \in 0 .. MaxFileCalls
    BY FileLimits DEF FileTypeOK
  <2> QED
    BY <2>1, TextIs
<1>2. /\ unwritten' \in [Processes -> Seq(FileBytes)]
      /\ unwritten'[p] = Text(calls + 1)
      /\ \A q \in Processes : q # p => unwritten'[q] = unwritten[q]
  BY <1>1 DEF FileTypeOK
<1>3. /\ offset' \in [Processes -> Nat]
      /\ \A q \in Processes : q # p => offset'[q] = offset[q]
  BY DEF FileTypeOK
<1>4. /\ fileOp' \in [Processes ->
           {"idle", "write", "append", "load", "loadFailed", "dead"}]
      /\ fileOp'[p] = "append" /\ fileOp[p] = "idle"
      /\ \A q \in Processes : q # p => fileOp'[q] = fileOp[q]
  BY DEF FileTypeOK
<1>5. FileTypeOK'
  BY <1>1, <1>2, <1>3, <1>4 DEF FileTypeOK
<1>6. PiecesFollow'
  <2> SUFFICES ASSUME NEW q \in Processes
               PROVE  PieceFollows(q)'
    BY DEF PiecesFollow
  <2>5. CASE q = p
    BY <1>1, <1>2, <1>4, <2>5 DEF PieceFollows
  <2>6. CASE q # p
    BY <1>2, <1>3, <1>4, <2>6, PieceStays DEF PiecesFollow
  <2> QED
    BY <2>5, <2>6
<1>7. WritesAlone'
  <2>1. ASSUME NEW q \in Processes, fileOp'[q] = "write"
        PROVE  mixed'
    <3>1. q \in Writers /\ fileOp[q] = "write"
      BY <1>4, <2>1 DEF Writers
    <3> QED
      BY <3>1
  <2> QED
    BY <2>1 DEF WritesAlone, WriteIsAlone
<1>8. LoadsFollow' /\ DataKeepsItsPlace'
  BY <1>3, <1>4 DEF LoadsFollow, DataKeepsItsPlace, FileTypeOK
<1>9. FileIsAccounted'
  BY <1>4, AccountedStays DEF Writers
<1> QED
  BY <1>5, <1>6, <1>7, <1>8, <1>9

(* fopen("r"): the load is quiet if nobody writes.                         *)
LEMMA OpenToLoadKeeps ==
  ASSUME FileInv, NEW p \in Processes, NEW len \in DataLens, OpenToLoad(p, len)
  PROVE  FileInv'
<1> USE DEF FileInv, OpenToLoad, Begin
<1> DEFINE memory == [i \in 1 .. len |-> Memory(i)]
<1>1. /\ len \in Nat /\ memory \in Seq(FileBytes) /\ Len(memory) = len
      /\ \A i \in 1 .. len : memory[i] = Memory(i)
  BY FileLimits, MemoryIs
<1>2. /\ data' \in [Processes -> Seq(FileBytes)] /\ data'[p] = memory
      /\ \A q \in Processes : q # p => data'[q] = data[q]
  BY <1>1
<1>3. /\ unwritten' \in [Processes -> Seq(FileBytes)] /\ unwritten'[p] = <<>>
      /\ \A q \in Processes : q # p => unwritten'[q] = unwritten[q]
  BY DEF FileTypeOK
<1>4. /\ offset' \in [Processes -> Nat] /\ offset'[p] = 0
      /\ \A q \in Processes : q # p => offset'[q] = offset[q]
  BY DEF FileTypeOK
<1>5. /\ fileOp' \in [Processes ->
           {"idle", "write", "append", "load", "loadFailed", "dead"}]
      /\ fileOp'[p] = "load" /\ fileOp[p] = "idle"
      /\ \A q \in Processes : q # p => fileOp'[q] = fileOp[q]
  BY DEF FileTypeOK
<1>6. Writers' = Writers
  BY <1>5 DEF Writers
<1>7. /\ quiet' \subseteq quiet \cup {p} /\ calls' = calls + 1
      /\ calls' \in 0 .. MaxFileCalls
      /\ UNCHANGED <<file, fileExists, base, mixed, cut, fileRet>>
  BY FileLimits DEF FileTypeOK
<1> HIDE DEF memory, OpenToLoad, Begin
<1>8. FileTypeOK'
  BY <1>1, <1>2, <1>3, <1>4, <1>5, <1>7 DEF FileTypeOK
<1>13. PiecesFollow'
  <2> SUFFICES ASSUME NEW q \in Processes
               PROVE  PieceFollows(q)'
    BY DEF PiecesFollow
  <2>5. CASE q = p
    BY <1>5, <2>5 DEF PieceFollows
  <2>6. CASE q # p
    BY <1>3, <1>4, <1>5, <2>6, PieceStays DEF PiecesFollow
  <2> QED
    BY <2>5, <2>6
<1>9. WritesAlone'
  <2> SUFFICES ASSUME NEW q \in Processes
               PROVE  WriteIsAlone(q)'
    BY DEF WritesAlone
  <2>1. CASE q = p
    BY <1>5, <2>1 DEF WriteIsAlone
  <2>2. CASE q # p
    BY <1>3, <1>4, <1>5, <1>6, <1>7, <2>2, AloneStays DEF WritesAlone
  <2> QED
    BY <2>1, <2>2
<1>10. LoadsFollow'
  <2> SUFFICES ASSUME NEW q \in quiet'
               PROVE  /\ fileOp'[q] \in {"load", "loadFailed"}
                      /\ offset'[q] <= Len(file')
                      /\ offset'[q] <= Len(data'[q])
                      /\ \A i \in 1 .. Len(data'[q]) :
                           data'[q][i] = IF i <= offset'[q] THEN file'[i]
                                         ELSE Memory(i)
    BY DEF LoadsFollow
  <2>1. CASE q = p
    <3>1. Len(file') \in Nat
      BY <1>7, LenProperties DEF FileTypeOK
    <3> QED
      BY <1>1, <1>2, <1>4, <1>5, <2>1, <3>1
  <2>2. CASE q # p
    <3>1. q \in quiet /\ q \in Processes
      BY <1>7, <2>2 DEF FileTypeOK
    <3> QED
      <4>1. /\ fileOp[q] \in {"load", "loadFailed"} /\ offset[q] <= Len(file)
            /\ offset[q] <= Len(data[q])
            /\ \A i \in 1 .. Len(data[q]) :
                 data[q][i] = IF i <= offset[q] THEN file[i] ELSE Memory(i)
        BY <3>1 DEF LoadsFollow
      <4>2. /\ data'[q] = data[q] /\ offset'[q] = offset[q] /\ file' = file
            /\ fileOp'[q] = fileOp[q]
        BY <1>2, <1>4, <1>5, <1>7, <2>2, <3>1
      <4> QED
        BY <4>1, <4>2
  <2> QED
    BY <2>1, <2>2
<1>11. DataKeepsItsPlace'
  BY <1>7 DEF DataKeepsItsPlace
<1>12. FileIsAccounted'
  <2>1. \A q \in Writers : q \in Processes /\ fileOp'[q] = fileOp[q]
    BY <1>5 DEF Writers
  <2> QED
    BY <1>6, <1>7, <2>1, AccountedStays
<1> QED
  BY <1>2, <1>8, <1>9, <1>10, <1>11, <1>12, <1>13

(* What is left of the pieces when the first n bytes are written.          *)
LEMMA RestIs ==
  ASSUME NEW u \in Seq(FileBytes), NEW n \in 0 .. Len(u)
  PROVE  /\ SubSeq(u, n + 1, Len(u)) \in Seq(FileBytes)
         /\ Len(SubSeq(u, n + 1, Len(u))) = Len(u) - n
         /\ \A j \in 1 .. Len(u) - n : SubSeq(u, n + 1, Len(u))[j] = u[n + j]
<1>1. Len(u) \in Nat /\ n \in Nat /\ n + 1 \in Int
  BY LenProperties
<1>2. \A i \in n + 1 .. Len(u) : u[i] \in FileBytes
  BY <1>1, ElementOfSeq
<1> DEFINE l == Len(u)
           v == SubSeq(u, n + 1, l)
<1>3. /\ v \in Seq(FileBytes)
      /\ Len(v) = IF n + 1 <= l THEN l - (n + 1) + 1 ELSE 0
      /\ \A i \in 1 .. l - (n + 1) + 1 : v[i] = u[n + 1 + i - 1]
  BY <1>1, <1>2, SubSeqProperties
<1>4. l \in Nat /\ n <= l
  BY <1>1
<1> HIDE DEF v, l
<1>5. Len(v) = l - n
  BY <1>1, <1>3, <1>4
<1>6. ASSUME NEW j \in 1 .. l - n
      PROVE  v[j] = u[n + j]
  <2>1. j \in 1 .. l - (n + 1) + 1 /\ n + 1 + j - 1 = n + j
    BY <1>1, <1>4
  <2> QED
    BY <1>3, <2>1
<1> QED
  BY <1>3, <1>5, <1>6 DEF v, l

(* A piece reaches the file; `lost`: what is behind it does not.           *)
LEMMA PieceKeeps ==
  ASSUME FileInv, NEW p \in Writers, NEW n \in 0 .. Len(unwritten[p]),
         NEW lost \in BOOLEAN, PutOut(p, n),
         unwritten' = [unwritten EXCEPT
                         ![p] = IF lost THEN <<>> ELSE SubSeq(@, n + 1, Len(@))],
         cut' = (cut \/ lost), ~lost /\ fileOp[p] = "append" => n = PtrSize,
         UNCHANGED <<fileExists, fileOp, data, fileRet, calls, base, mixed>>
  PROVE  FileInv'
<1> DEFINE u == unwritten[p]
           at == IF fileOp[p] = "append" THEN Len(file) ELSE offset[p]
<1>1. /\ FileTypeOK /\ data \in [Processes -> Seq(FileBytes)] /\ PiecesFollow
      /\ WritesAlone /\ DataKeepsItsPlace /\ FileIsAccounted
  BY DEF FileInv
<1>2. p \in Processes /\ fileOp[p] \in {"write", "append"} /\ u \in Seq(FileBytes)
      /\ n \in 0 .. Len(u)
  BY <1>1 DEF Writers, FileTypeOK
<1>3. /\ at \in Nat /\ Len(file) \in Nat /\ Len(u) \in Nat
      /\ file' \in Seq(FileBytes) /\ Len(file') \in Nat
      /\ Len(file') = IF n = 0 \/ at + n < Len(file) THEN Len(file) ELSE at + n
      /\ \A i \in 1 .. Len(file') :
           file'[i] = IF i > at /\ i <= at + n THEN u[i - at]
                      ELSE IF i <= Len(file) THEN file[i] ELSE Hole
      /\ offset' \in [Processes -> Nat] /\ offset'[p] = at + n
      /\ \A q \in Processes : q # p => offset'[q] = offset[q]
      /\ quiet' = {}
  BY <1>1, <1>2, PutOutIs
<1>4. /\ SubSeq(u, n + 1, Len(u)) \in Seq(FileBytes)
      /\ Len(SubSeq(u, n + 1, Len(u))) = Len(u) - n
      /\ \A j \in 1 .. Len(u) - n : SubSeq(u, n + 1, Len(u))[j] = u[n + j]
  BY <1>2, RestIs
<1>5. /\ unwritten' \in [Processes -> Seq(FileBytes)]
      /\ unwritten'[p] = IF lost THEN <<>> ELSE SubSeq(u, n + 1, Len(u))
      /\ \A q \in Processes : q # p => unwritten'[q] = unwritten[q]
  BY <1>1, <1>2, <1>4, EmptySeq DEF FileTypeOK
<1>6. /\ unwritten'[p] \in Seq(FileBytes) /\ Len(unwritten'[p]) \in Nat
      /\ lost => Len(unwritten'[p]) = 0
      /\ ~lost => Len(unwritten'[p]) = Len(u) - n
      /\ \A j \in 1 .. Len(unwritten'[p]) : unwritten'[p][j] = u[n + j]
  BY <1>2, <1>3, <1>4, <1>5, EmptySeq
<1>7. /\ UNCHANGED <<fileExists, fileOp, data, fileRet, calls, base, mixed>>
      /\ cut' = (cut \/ lost) /\ Writers' = Writers
  BY DEF Writers
<1>8. ~lost /\ fileOp[p] = "append" => n = PtrSize
  OBVIOUS
<1> HIDE DEF u, at
<1>16. /\ offset'[p] = at + n /\ at \in Nat /\ n \in Nat /\ Len(u) \in Nat
       /\ n <= Len(u) /\ Len(unwritten'[p]) \in Nat
       /\ Len(unwritten'[p]) <= Len(u) - n
       /\ ~lost => Len(unwritten'[p]) = Len(u) - n
  BY <1>2, <1>3, <1>6
<1>17. /\ \A j \in 1 .. Len(unwritten'[p]) :
            n + j \in 1 .. Len(u) /\ at + (n + j) = offset'[p] + j
       /\ offset'[p] + Len(unwritten'[p]) \in Nat /\ at + Len(u) \in Nat
       /\ offset'[p] + Len(unwritten'[p]) <= at + Len(u)
       /\ ~lost => offset'[p] + Len(unwritten'[p]) = at + Len(u)
  <2> DEFINE o == offset'[p]
             l == Len(u)
             r == Len(unwritten'[p])
  <2>1. /\ o = at + n /\ at \in Nat /\ n \in Nat /\ l \in Nat /\ n <= l
        /\ r \in Nat /\ r <= l - n /\ (~lost => r = l - n)
    BY <1>16
  <2> HIDE DEF o, l, r
  <2>2. /\ \A j \in 1 .. r : n + j \in 1 .. l /\ at + (n + j) = o + j
        /\ o + r \in Nat /\ at + l \in Nat
        /\ o + r <= at + l /\ (~lost => o + r = at + l)
    BY <2>1
  <2> QED
    BY <2>2 DEF o, l, r
<1>9. FileTypeOK'
  BY <1>1, <1>3, <1>5, <1>7 DEF FileTypeOK
<1>10. PiecesFollow'
  <2> SUFFICES ASSUME NEW q \in Processes
               PROVE  PieceFollows(q)'
    BY DEF PiecesFollow
  <2>1. CASE q # p
    BY <1>1, <1>3, <1>5, <1>7, <2>1, PieceStays DEF PiecesFollow
  <2>2. CASE q = p /\ fileOp[p] = "write"
    <3>1. PICK m \in Nat : \A j \in 1 .. Len(u) : u[j] = <<"data", m, offset[p] + j>>
      BY <1>1, <1>2, <2>2 DEF PiecesFollow, PieceFollows, u
    <3>2. at = offset[p]
      BY <2>2 DEF at
    <3>3. ASSUME NEW j \in 1 .. Len(unwritten'[p])
          PROVE  unwritten'[p][j] = <<"data", m, offset'[p] + j>>
      <4>1. n + j \in 1 .. Len(u) /\ at + (n + j) = offset'[p] + j
        BY <1>17
      <4> QED
        BY <1>6, <3>1, <3>2, <4>1
    <3> QED
      BY <1>7, <2>2, <3>3 DEF PieceFollows
  <2>3. CASE q = p /\ fileOp[p] = "append"
    <3>1. unwritten'[p] = <<>>
      <4>1. CASE lost
        BY <1>5, <4>1
      <4>2. CASE ~lost
        <5>1. PICK m \in Nat : u = <<>> \/ u = Text(m)
          BY <1>1, <1>2, <2>3 DEF PiecesFollow, PieceFollows, u
        <5>2. Len(u) = 0 \/ Len(u) = PtrSize
          BY <5>1, TextIs, EmptySeq
        <5>3. Len(unwritten'[p]) = 0
          BY <1>2, <1>3, <1>6, <1>8, <2>3, <4>2, <5>2, FileLimits
        <5> QED
          BY <1>6, <5>3, EmptySeq
      <4> QED
        BY <4>1, <4>2
    <3> QED
      BY <1>7, <2>3, <3>1 DEF PieceFollows
  <2> QED
    BY <1>2, <2>1, <2>2, <2>3
<1>11. ASSUME ~mixed, NEW q \in Processes, fileOp[q] = "write"
       PROVE  /\ q = p /\ at = offset[p] /\ at = Len(file) /\ base[1] \in Nat
              /\ base[2] \in Nat
              /\ \A i \in 1 .. at : file[i] = <<"data", base[1], i>>
              /\ \A j \in 1 .. Len(u) : u[j] = <<"data", base[1], at + j>>
              /\ at + Len(u) <= base[2]
              /\ ~cut => at + Len(u) = base[2]
  <2>1. WriteIsAlone(q)
    BY <1>1 DEF WritesAlone
  <2>2. q = p
    BY <1>11, <2>1 DEF WriteIsAlone
  <2>3. at = offset[p] /\ file = Data(base[1], at)
    BY <1>11, <2>1, <2>2 DEF at, WriteIsAlone
  <2>4. base[1] \in Nat /\ base[2] \in Nat
    BY <1>1, FileLimits DEF FileTypeOK
  <2>5. Len(file) = at /\ \A i \in 1 .. at : file[i] = <<"data", base[1], i>>
    <3> DEFINE b == base[1]
               d == Data(b, at)
    <3>1. at \in Nat /\ b \in Nat /\ file = d
      BY <1>3, <2>3, <2>4
    <3> HIDE DEF b, at
    <3>2. Len(d) = at /\ \A i \in 1 .. at : d[i] = <<"data", b, i>>
      BY <3>1, DataIs
    <3> HIDE DEF d
    <3>3. Len(file) = at /\ \A i \in 1 .. at : file[i] = <<"data", b, i>>
      BY <3>1, <3>2, Zenon
    <3> QED
      BY <3>3, Zenon DEF b
  <2>6. /\ \A j \in 1 .. Len(u) : u[j] = <<"data", base[1], offset[p] + j>>
        /\ offset[p] + Len(u) <= base[2]
        /\ ~cut => offset[p] + Len(u) = base[2]
    BY <1>11, <2>1, <2>2 DEF WriteIsAlone, u
  <2> QED
    BY <2>2, <2>3, <2>4, <2>5, <2>6
<1>12. WritesAlone'
  <2> SUFFICES ASSUME NEW q \in Processes
               PROVE  WriteIsAlone(q)'
    BY DEF WritesAlone
  <2> SUFFICES ASSUME ~mixed', fileOp'[q] = "write"
               PROVE  WriteIsAlone(q)'
    BY Zenon DEF WriteIsAlone
  <2>0. ~mixed /\ fileOp[q] = "write"
    <3>1. mixed' = mixed /\ fileOp' = fileOp
      BY <1>7
    <3> QED
      BY <3>1
  <2>1. /\ q = p /\ at = offset[p] /\ at = Len(file) /\ base[1] \in Nat
        /\ base[2] \in Nat
        /\ \A i \in 1 .. at : file[i] = <<"data", base[1], i>>
        /\ \A j \in 1 .. Len(u) : u[j] = <<"data", base[1], at + j>>
        /\ at + Len(u) <= base[2]
        /\ ~cut => at + Len(u) = base[2]
    BY <1>11, <2>0
  <2>2. Len(file') = at + n
    BY <1>2, <1>3, <2>1
  <2>3. ASSUME NEW i \in 1 .. at + n
        PROVE  file'[i] = <<"data", base[1], i>>
    <3>1. CASE i <= at
      <4>1. i \in 1 .. at /\ i <= Len(file) /\ ~(i > at) /\ i \in 1 .. Len(file')
        BY <1>2, <1>3, <2>1, <2>2, <3>1
      <4>2. file'[i] = file[i]
        BY <1>3, <4>1
      <4> QED
        BY <2>1, <4>1, <4>2
    <3>2. CASE ~(i <= at)
      <4>1. i - at \in 1 .. Len(u) /\ at + (i - at) = i /\ i > at /\ i <= at + n
        BY <1>2, <1>3, <3>2
      <4> QED
        BY <1>3, <2>1, <2>2, <4>1
    <3> QED
      BY <3>1, <3>2
  <2>4. file' = Data(base[1], at + n)
    <3> DEFINE k == at + n
               d == Data(base[1], k)
    <3>1. k \in Nat
      BY <1>2, <1>3
    <3>2. /\ d \in Seq(FileBytes) /\ Len(d) = k
          /\ \A i \in 1 .. k : d[i] = <<"data", base[1], i>>
      BY <2>1, <3>1, DataIs
    <3>3. /\ file' \in Seq(FileBytes) /\ Len(file') = k
          /\ \A i \in 1 .. k : file'[i] = <<"data", base[1], i>>
      BY <1>3, <2>2, <2>3
    <3> HIDE DEF d, k
    <3>4. Len(file') = Len(d) /\ \A i \in 1 .. Len(file') : file'[i] = d[i]
      BY <3>2, <3>3
    <3>5. file' = d
      BY <3>2, <3>3, <3>4, SeqEqual
    <3> QED
      BY <3>5 DEF d, k
  <2>5. ASSUME NEW j \in 1 .. Len(unwritten'[p])
        PROVE  unwritten'[p][j] = <<"data", base[1], offset'[p] + j>>
    <3>1. n + j \in 1 .. Len(u) /\ at + (n + j) = offset'[p] + j
      BY <1>17
    <3> QED
      BY <1>6, <2>1, <3>1
  <2>6. /\ offset'[p] + Len(unwritten'[p]) <= base[2]
        /\ ~cut' => offset'[p] + Len(unwritten'[p]) = base[2]
    <3>1. ~cut' => ~cut /\ ~lost
      BY <1>7, Zenon
    <3> DEFINE e == offset'[p] + Len(unwritten'[p])
               f == at + Len(u)
    <3>2. e \in Nat /\ f \in Nat /\ e <= f /\ (~lost => e = f)
      BY <1>17, Zenon
    <3>3. f <= base[2] /\ (~cut => f = base[2]) /\ base[2] \in Nat
      BY <2>1, Zenon
    <3> HIDE DEF e, f
    <3>4. e <= base[2] /\ (~cut' => e = base[2])
      BY <3>1, <3>2, <3>3
    <3> QED
      BY <3>4 DEF e
  <2>7. Writers = {q}
    BY <1>1 DEF WritesAlone, WriteIsAlone
  <2> QED
    BY <1>3, <1>7, <2>1, <2>4, <2>5, <2>6, <2>7 DEF WriteIsAlone
<1>13. LoadsFollow'
  BY <1>3 DEF LoadsFollow
<1>14. DataKeepsItsPlace'
  <2> SUFFICES ASSUME NEW i \in 1 .. Len(file')
               PROVE  /\ file'[i][1] = "data" => file'[i][3] = i
                      /\ file'[i] = Hole => mixed
    BY <1>3, <1>7, LenProperties DEF DataKeepsItsPlace
  <2>1. CASE i > at /\ i <= at + n
    <3>1. i - at \in 1 .. Len(u) /\ file'[i] = u[i - at]
      BY <1>3, <1>16, <2>1, SMTT(20)
    <3>2. CASE fileOp[p] = "write"
      <4>1. PICK m \in Nat :
              \A j \in 1 .. Len(u) : u[j] = <<"data", m, offset[p] + j>>
        BY <1>1, <1>2, <3>2 DEF PiecesFollow, PieceFollows, u
      <4>2. at = offset[p]
        BY <3>2 DEF at
      <4>3. file'[i] = <<"data", m, i>>
        <5>1. offset[p] + (i - at) = i
          BY <1>3, <2>1, <4>2
        <5> QED
          BY <3>1, <4>1, <5>1
      <4> QED
        BY <4>3 DEF Hole
    <3>3. CASE fileOp[p] = "append"
      <4>1. PICK m \in Nat : u = <<>> \/ u = Text(m)
        BY <1>1, <1>2, <3>3 DEF PiecesFollow, PieceFollows, u
      <4>2. u # <<>>
        BY <3>1, EmptySeq
      <4>3. file'[i] = <<"text", m, i - at>>
        BY <3>1, <4>1, <4>2, TextIs
      <4> QED
        BY <4>3 DEF Hole
    <3> QED
      BY <1>2, <3>2, <3>3
  <2>2. CASE ~(i > at /\ i <= at + n) /\ i <= Len(file)
    <3>1. i \in 1 .. Len(file)
      BY <1>3, <2>2
    <3>4. file'[i] = file[i] /\ i \in DOMAIN file
      BY <1>1, <1>3, <2>2, <3>1, LenProperties DEF FileTypeOK
    <3> QED
      BY <1>1, <3>4 DEF DataKeepsItsPlace
  <2>3. CASE ~(i > at /\ i <= at + n) /\ ~(i <= Len(file))
    <3>1. file'[i] = Hole /\ at # Len(file)
      BY <1>2, <1>3, <2>3
    <3>2. fileOp[p] = "write"
      BY <1>2, <3>1 DEF at
    <3>3. mixed
      BY <1>2, <1>11, <3>1, <3>2
    <3> QED
      BY <3>1, <3>3 DEF Hole
  <2> QED
    BY <2>1, <2>2, <2>3
<1>15. FileIsAccounted'
  <2>1. CASE mixed
    BY <1>7, <2>1 DEF FileIsAccounted
  <2>2. CASE ~mixed /\ \E q \in Writers : fileOp[q] = "write"
    <3>1. fileOp[p] = "write"
      BY <1>11, <2>2 DEF Writers
    <3>2. base' \in Nat \X Nat /\ offset'[p] \in Nat
      BY <1>1, <1>2, <1>3, <1>7, FileLimits DEF FileTypeOK
    <3> QED
      BY <1>2, <1>6, <1>7, <1>12, <2>2, <3>1, <3>2, AloneIsAccounted
  <2>3. CASE ~mixed /\ \A q \in Writers : fileOp[q] # "write"
    <3>1. fileOp[p] = "append" /\ at = Len(file)
      BY <1>2, <2>3 DEF at
    <3>2. PICK m \in Nat : u = <<>> \/ u = Text(m)
      BY <1>1, <1>2, <3>1 DEF PiecesFollow, PieceFollows, u
    <3>3. /\ Len(u) \in {0, PtrSize} /\ n \in 0 .. PtrSize
          /\ \A j \in 1 .. n : u[j] = <<"text", m, j>>
      <4>1. CASE u = <<>>
        BY <1>2, <4>1, EmptySeq, FileLimits
      <4>2. CASE u = Text(m)
        BY <1>2, <4>2, TextIs, FileLimits
      <4> QED
        BY <3>2, <4>1, <4>2
    <3>4. Len(file') = Len(file) + n
      BY <1>2, <1>3, <3>1
    <3>5. \A i \in 1 .. Len(file) : file'[i] = file[i]
      BY <1>2, <1>3, <3>1, <3>4
    <3>6. ASSUME NEW j \in 1 .. n
          PROVE  file'[Len(file) + j] = <<"text", m, j>>
      <4> DEFINE i == Len(file) + j
      <4>1. i \in 1 .. Len(file') /\ i > at /\ i <= at + n /\ i - at = j
        BY <1>2, <1>3, <3>1, <3>4
      <4> HIDE DEF i
      <4>2. file'[i] = u[i - at]
        BY <1>3, <4>1
      <4>3. file'[i] = <<"text", m, j>>
        BY <3>3, <4>1, <4>2
      <4> QED
        BY <4>3, Zenon DEF i
    <3>7. cut' \/ (n = PtrSize /\ ~cut)
      BY <1>7, <1>8, <3>1
    <3> QED
      BY <1>3, <1>7, <2>3, <3>3, <3>4, <3>5, <3>6, <3>7, AppendedIsAccounted
  <2> QED
    BY <2>1, <2>2, <2>3
<1> QED
  BY <1>1, <1>7, <1>9, <1>10, <1>12, <1>13, <1>14, <1>15 DEF FileInv

LEMMA WriteOutKeeps ==
  ASSUME FileInv, NEW p \in Processes, WriteOut(p)
  PROVE  FileInv'
<1>1. PICK n \in 1 .. Len(unwritten[p]) :
        /\ fileOp[p] = "append" => n = PtrSize
        /\ PutOut(p, n)
        /\ unwritten' = [unwritten EXCEPT ![p] = SubSeq(@, n + 1, Len(@))]
  BY DEF WriteOut
<1>2. n \in 0 .. Len(unwritten[p]) /\ p \in Writers
  BY LenProperties DEF FileInv, FileTypeOK, WriteOut
<1>3. cut' = (cut \/ FALSE)
  BY DEF WriteOut, FileInv, FileTypeOK
<1>4. UNCHANGED <<fileExists, fileOp, data, fileRet, calls, base, mixed>>
  BY DEF WriteOut
<1> QED
  BY <1>1, <1>2, <1>3, <1>4, PieceKeeps

LEMMA WriteFailsKeeps ==
  ASSUME FileInv, NEW p \in Processes, WriteFails(p)
  PROVE  FileInv'
<1>1. PICK n \in 0 .. Len(unwritten[p]) - 1 : PutOut(p, n)
  BY DEF WriteFails
<1>2. n \in 0 .. Len(unwritten[p]) /\ p \in Writers
  BY LenProperties DEF FileInv, FileTypeOK, WriteFails
<1>3. /\ unwritten' = [unwritten EXCEPT ![p] = <<>>] /\ cut' = (cut \/ TRUE)
      /\ UNCHANGED <<fileExists, fileOp, data, fileRet, calls, base, mixed>>
  BY DEF WriteFails
<1> QED
  BY <1>1, <1>2, <1>3, PieceKeeps

(* A call that gives its FILE back or dies writes nothing more.            *)
LEMMA ReturnOrDeathKeeps ==
  ASSUME FileInv, NEW p \in Processes,
         WriteReturns(p) \/ LoadReturns(p) \/ Die(p)
  PROVE  FileInv'
<1> USE DEF FileInv, WriteReturns, LoadReturns, Die
<1>1. /\ fileOp' \in [Processes ->
           {"idle", "write", "append", "load", "loadFailed", "dead"}]
      /\ fileOp'[p] \in {"idle", "dead"}
      /\ fileOp[p] \in {"write", "append", "load", "loadFailed"}
      /\ \A q \in Processes : q # p => fileOp'[q] = fileOp[q]
  BY DEF FileTypeOK, Writers
<1>2. /\ UNCHANGED <<file, fileExists, unwritten, offset, data, calls, base, mixed>>
      /\ quiet' \subseteq quiet
      /\ p \in quiet => p \notin quiet' \/ p \in Writers
      /\ cut' = (cut \/ (unwritten[p] # <<>> /\ fileOp'[p] = "dead"))
      /\ fileOp[p] \in {"write", "append"} => unwritten[p] = <<>> \/ cut'
  BY <1>1 DEF FileTypeOK, Writers, LoadsFollow
<1>3. FileTypeOK'
  BY <1>1, <1>2, FileLimits DEF FileTypeOK
<1>4. ~cut' => ~cut
  BY <1>2
<1> HIDE DEF WriteReturns, LoadReturns, Die
<1>5. PiecesFollow'
  <2> SUFFICES ASSUME NEW q \in Processes
               PROVE  PieceFollows(q)'
    BY DEF PiecesFollow
  <2>1. CASE q = p
    BY <1>1, <2>1 DEF PieceFollows
  <2>2. CASE q # p
    BY <1>1, <1>2, <2>2, PieceStays DEF PiecesFollow
  <2> QED
    BY <2>1, <2>2
<1>6. WritesAlone'
  <2> SUFFICES ASSUME NEW q \in Processes, fileOp'[q] = "write", ~mixed'
               PROVE  WriteIsAlone(q)'
    BY DEF WritesAlone, WriteIsAlone
  <2>1. q # p /\ fileOp[q] = "write"
    BY <1>1
  <2>2. WriteIsAlone(q) /\ ~mixed
    BY <1>2 DEF WritesAlone
  <2>3. Writers = {q}
    BY <2>1, <2>2 DEF WriteIsAlone
  <2>4. Writers' = Writers
    <3>1. p \notin Writers
      BY <2>1, <2>3
    <3> QED
      BY <1>1, <3>1 DEF Writers
  <2> QED
    BY <1>2, <1>4, <2>1, <2>2, <2>4, AloneStays
<1>7. LoadsFollow'
  <2> SUFFICES ASSUME NEW q \in quiet'
               PROVE  /\ fileOp'[q] \in {"load", "loadFailed"} /\ offset[q] <= Len(file)
                      /\ offset[q] <= Len(data[q])
                      /\ \A i \in 1 .. Len(data[q]) :
                           data[q][i] = IF i <= offset[q] THEN file[i] ELSE Memory(i)
    BY <1>2 DEF LoadsFollow
  <2>1. q \in quiet /\ q \in Processes
    BY <1>2 DEF FileTypeOK
  <2>2. fileOp[q] \in {"load", "loadFailed"}
    BY <2>1 DEF LoadsFollow
  <2>3. q # p
    BY <1>2, <2>1, <2>2 DEF Writers
  <2> QED
    BY <1>1, <2>1, <2>2, <2>3 DEF LoadsFollow
<1>8. DataKeepsItsPlace'
  BY <1>2 DEF DataKeepsItsPlace
<1>9. FileIsAccounted'
  <2>1. CASE mixed
    BY <1>2, <2>1 DEF FileIsAccounted
  <2>2. CASE ~mixed /\ fileOp[p] = "write"
    <3>1. WriteIsAlone(p)
      BY DEF WritesAlone
    <3>2. /\ file = Data(base[1], offset[p])
          /\ offset[p] + Len(unwritten[p]) <= base[2]
          /\ ~cut => offset[p] + Len(unwritten[p]) = base[2]
      BY <2>2, <3>1 DEF WriteIsAlone
    <3>3. /\ base[1] \in Nat /\ base[2] \in Nat /\ offset[p] \in Nat
          /\ unwritten[p] \in Seq(FileBytes) /\ Len(unwritten[p]) \in Nat
      BY LenProperties, FileLimits DEF FileTypeOK
    <3>4. Len(file) = offset[p] /\ file \in Seq(FileBytes)
      BY <3>2, <3>3, DataIs
    <3>5. SubSeq(file, 1, offset[p]) = Data(base[1], offset[p])
      BY <3>2, <3>4, SubSeqFull
    <3>6. offset[p] + 1 .. Len(file) = {} /\ (Len(file) - offset[p]) % PtrSize = 0
      BY <3>3, <3>4, FileLimits
    <3>7. Consists(offset[p], FALSE) /\ Consists(offset[p], TRUE)
      BY <3>5, <3>6 DEF Consists
    <3>8. offset[p] \in 0 .. Shorter(base[2], Len(file))
      BY <3>2, <3>3, <3>4 DEF Shorter
    <3>9. ~cut' => offset[p] = base[2]
      <4>1. unwritten[p] = <<>> => Len(unwritten[p]) = 0
        BY EmptySeq
      <4> QED
        BY <1>2, <1>4, <2>2, <3>2, <3>3, <4>1
    <3>10. ~cut' => base[2] <= Len(file) /\ Consists(base[2], TRUE)
      <4> SUFFICES ASSUME ~cut'
                   PROVE  base[2] <= Len(file) /\ Consists(base[2], TRUE)
        OBVIOUS
      <4>1. Consists(base[2], TRUE)
        BY <3>7, <3>9, Zenon
      <4>2. base[2] <= Len(file)
        BY <3>3, <3>4, <3>9
      <4> QED
        BY <4>1, <4>2
    <3>11. \A k, whole : Consists(k, whole)' <=> Consists(k, whole)
      BY <1>2 DEF Consists
    <3> QED
      BY <1>2, <3>7, <3>8, <3>10, <3>11 DEF FileIsAccounted
  <2>3. CASE fileOp[p] # "write"
    <3>1. (\A q \in Writers' : fileOp'[q] # "write")
            => \A q \in Writers : fileOp[q] # "write"
      BY <1>1, <2>3 DEF Writers
    <3> QED
      BY <1>2, <1>4, <3>1, AccountedStays
  <2> QED
    BY <2>1, <2>2, <2>3
<1> QED
  BY <1>2, <1>3, <1>5, <1>6, <1>7, <1>8, <1>9

(* fread() takes a piece of the file into the memory.                      *)
LEMMA ReadInKeeps ==
  ASSUME FileInv, NEW p \in Processes, ReadIn(p)
  PROVE  FileInv'
<1> USE DEF FileInv, ReadIn
<1> DEFINE d == data[p]
           o == offset[p]
<1>1. PICK n \in 1 .. Shorter(Len(d), Len(file)) - o :
        /\ data' = [data EXCEPT ![p] = Overlaid(@, o, Upcoming(p, n))]
        /\ offset' = [offset EXCEPT ![p] = @ + n]
  OBVIOUS
<1>2. /\ d \in Seq(FileBytes) /\ o \in Nat /\ file \in Seq(FileBytes)
      /\ Len(d) \in Nat /\ Len(file) \in Nat /\ Len(d) \in DataLens \cup {0}
  BY LenProperties DEF FileTypeOK
<1>3. n \in Nat /\ o + n <= Len(d) /\ o + n <= Len(file)
  BY <1>1, <1>2 DEF Shorter
<1> DEFINE piece == Upcoming(p, n)
<1>4. /\ piece \in Seq(FileBytes) /\ Len(piece) = n
      /\ \A i \in 1 .. n : piece[i] = file[o + i]
  <2>1. \A i \in o + 1 .. o + n : file[i] \in FileBytes
    BY <1>2, <1>3, ElementOfSeq
  <2> DEFINE l == o + n
             v == SubSeq(file, o + 1, l)
  <2>2. o + 1 \in Int /\ l \in Int
    BY <1>2, <1>3
  <2>4. piece = v
    BY DEF Upcoming
  <2> HIDE DEF piece, o, FileInv, ReadIn
  <2>3. /\ v \in Seq(FileBytes)
        /\ Len(v) = IF o + 1 <= l THEN l - (o + 1) + 1 ELSE 0
        /\ \A i \in 1 .. l - (o + 1) + 1 : v[i] = file[o + 1 + i - 1]
    BY <2>1, <2>2, SubSeqProperties
  <2> HIDE DEF v
  <2>5. Len(v) = n
    BY <1>1, <1>2, <1>3, <2>3
  <2>6. ASSUME NEW i \in 1 .. n
        PROVE  v[i] = file[o + i]
    <3>1. i \in 1 .. l - (o + 1) + 1 /\ o + 1 + i - 1 = o + i
      BY <1>2, <1>3
    <3> QED
      BY <2>3, <3>1
  <2> QED
    BY <2>3, <2>4, <2>5, <2>6
<1> DEFINE over == Overlaid(d, o, piece)
<1> HIDE DEF piece
<1>5. /\ over \in Seq(FileBytes) /\ Len(over) = Len(d)
      /\ \A i \in 1 .. Len(d) : over[i] = IF i > o /\ i <= o + n THEN piece[i - o]
                                          ELSE d[i]
  <2> HIDE DEF d, o
  <2>1. LET end == o + Len(piece)
        IN  /\ over \in Seq(FileBytes)
            /\ Len(over) = IF end < Len(d) THEN Len(d) ELSE end
            /\ \A i \in 1 .. Len(over) :
                 over[i] = IF i > o /\ i <= end THEN piece[i - o]
                           ELSE IF i <= Len(d) THEN d[i] ELSE Hole
    BY <1>2, <1>4, OverlaidIs
  <2> HIDE DEF over
  <2>2. Len(over) = Len(d)
    BY <1>2, <1>3, <1>4, <2>1
  <2>3. \A i \in 1 .. Len(d) : over[i] = IF i > o /\ i <= o + n THEN piece[i - o]
                                         ELSE d[i]
    BY <1>2, <1>4, <2>1, <2>2
  <2> QED
    BY <2>1, <2>2, <2>3, Zenon
<1>6. /\ data' \in [Processes -> Seq(FileBytes)] /\ data'[p] = over
      /\ \A q \in Processes : q # p => data'[q] = data[q]
  BY <1>1, <1>5 DEF piece
<1>7. /\ offset' \in [Processes -> Nat] /\ offset'[p] = o + n
      /\ \A q \in Processes : q # p => offset'[q] = offset[q]
  BY <1>1, <1>3 DEF FileTypeOK
<1>8. /\ fileOp[p] = "load"
      /\ UNCHANGED <<file, fileExists, fileOp, unwritten, fileRet, calls, base,
                     mixed, cut, quiet>>
  OBVIOUS
<1> HIDE DEF over, d, o, ReadIn
<1>9. FileTypeOK'
  <2>1. \A q \in Processes : /\ data'[q] \in Seq(FileBytes)
                             /\ Len(data'[q]) \in DataLens \cup {0}
    BY <1>2, <1>5, <1>6 DEF FileTypeOK
  <2> QED
    BY <1>7, <1>8, <2>1 DEF FileTypeOK
<1>10. Writers' = Writers /\ PiecesFollow'
  <2>1. Writers' = Writers
    BY <1>8 DEF Writers
  <2> SUFFICES ASSUME NEW q \in Processes
               PROVE  PieceFollows(q)'
    BY <2>1 DEF PiecesFollow
  <2>2. CASE q = p
    BY <1>8, <2>2 DEF PieceFollows
  <2>3. CASE q # p
    BY <1>7, <1>8, <2>3, PieceStays DEF PiecesFollow
  <2> QED
    BY <2>2, <2>3
<1>11. WritesAlone'
  <2> SUFFICES ASSUME NEW q \in Processes
               PROVE  WriteIsAlone(q)'
    BY DEF WritesAlone
  <2>1. CASE q = p
    BY <1>8, <2>1 DEF WriteIsAlone
  <2>2. CASE q # p
    BY <1>7, <1>8, <1>10, <2>2, AloneStays DEF WritesAlone
  <2> QED
    BY <2>1, <2>2
<1>12. LoadsFollow'
  <2> SUFFICES ASSUME NEW q \in quiet
               PROVE  /\ fileOp[q] \in {"load", "loadFailed"} /\ offset'[q] <= Len(file)
                      /\ offset'[q] <= Len(data'[q])
                      /\ \A i \in 1 .. Len(data'[q]) :
                           data'[q][i] = IF i <= offset'[q] THEN file[i]
                                         ELSE Memory(i)
    BY <1>8 DEF LoadsFollow
  <2>1. /\ fileOp[q] \in {"load", "loadFailed"} /\ offset[q] <= Len(file)
        /\ offset[q] <= Len(data[q])
        /\ \A i \in 1 .. Len(data[q]) :
             data[q][i] = IF i <= offset[q] THEN file[i] ELSE Memory(i)
    BY DEF LoadsFollow
  <2>2. q \in Processes
    BY DEF FileTypeOK
  <2>3. CASE q # p
    BY <1>6, <1>7, <2>1, <2>2, <2>3
  <2>4. CASE q = p
    <3>1. \A i \in 1 .. Len(d) : d[i] = IF i <= o THEN file[i] ELSE Memory(i)
      BY <2>1, <2>4 DEF d, o
    <3>2. ASSUME NEW i \in 1 .. Len(d)
          PROVE  over[i] = IF i <= o + n THEN file[i] ELSE Memory(i)
      <4>1. CASE i > o /\ i <= o + n
        <5>1. i - o \in 1 .. n /\ o + (i - o) = i
          BY <1>2, <1>3, <4>1
        <5> QED
          BY <1>4, <1>5, <4>1, <5>1
      <4>2. CASE ~(i > o /\ i <= o + n)
        BY <1>2, <1>3, <1>5, <3>1, <4>2
      <4> QED
        BY <4>1, <4>2
    <3> QED
      BY <1>3, <1>5, <1>6, <1>7, <2>1, <2>4, <3>2
  <2> QED
    BY <2>3, <2>4
<1>13. DataKeepsItsPlace'
  BY <1>8 DEF DataKeepsItsPlace
<1>14. FileIsAccounted'
  BY <1>8, <1>10, AccountedStays
<1> QED
  BY <1>6, <1>9, <1>10, <1>11, <1>12, <1>13, <1>14

(* A read() that fails leaves the memory and the file as they are.         *)
LEMMA ReadFailsKeeps ==
  ASSUME FileInv, NEW p \in Processes, ReadFails(p)
  PROVE  FileInv'
<1> USE DEF FileInv, ReadFails
<1>1. /\ fileOp' \in [Processes ->
              {"idle", "write", "append", "load", "loadFailed", "dead"}]
      /\ fileOp[p] = "load" /\ fileOp'[p] = "loadFailed"
      /\ \A q \in Processes : q # p => fileOp'[q] = fileOp[q]
  BY DEF FileTypeOK
<1>2. UNCHANGED <<file, fileExists, unwritten, offset, data, fileRet, calls, base,
                  mixed, cut, quiet>>
  OBVIOUS
<1> HIDE DEF ReadFails
<1>3. FileTypeOK'
  BY <1>1, <1>2 DEF FileTypeOK
<1>4. Writers' = Writers /\ \A q \in Writers : fileOp'[q] = fileOp[q]
  BY <1>1 DEF Writers
<1>5. PiecesFollow'
  <2> SUFFICES ASSUME NEW q \in Processes
               PROVE  PieceFollows(q)'
    BY DEF PiecesFollow
  <2>1. CASE q = p
    BY <1>1, <2>1 DEF PieceFollows
  <2>2. CASE q # p
    BY <1>1, <1>2, <2>2, PieceStays DEF PiecesFollow
  <2> QED
    BY <2>1, <2>2
<1>6. WritesAlone'
  <2> SUFFICES ASSUME NEW q \in Processes
               PROVE  WriteIsAlone(q)'
    BY DEF WritesAlone
  <2>1. CASE q = p
    BY <1>1, <2>1 DEF WriteIsAlone
  <2>2. CASE q # p
    BY <1>1, <1>2, <1>4, <2>2, AloneStays DEF WritesAlone
  <2> QED
    BY <2>1, <2>2
<1>7. LoadsFollow' /\ DataKeepsItsPlace'
  <2>1. \A q \in quiet : fileOp'[q] \in {"load", "loadFailed"}
    BY <1>1 DEF LoadsFollow, FileTypeOK
  <2> QED
    BY <1>2, <2>1 DEF LoadsFollow, DataKeepsItsPlace
<1>8. FileIsAccounted'
  BY <1>2, <1>4, AccountedStays
<1> QED
  BY <1>2, <1>3, <1>5, <1>6, <1>7, <1>8

LEMMA FileKeeps == FileInv /\ [FileNext]_fileVars => FileInv'
<1> SUFFICES ASSUME FileInv, [FileNext]_fileVars PROVE FileInv'
  OBVIOUS
<1>1. ASSUME NEW p \in Processes, FileRefuse(p) \/ OpenToAppend(p) PROVE FileInv'
  BY <1>1, RefuseKeeps, OpenToAppendKeeps
<1>2. ASSUME NEW p \in Processes, NEW len \in DataLens,
             OpenToWrite(p, len) \/ OpenToLoad(p, len)
      PROVE  FileInv'
  BY <1>2, WriteOpenKeeps, OpenToLoadKeeps
<1>3. ASSUME NEW p \in Processes, WriteOut(p) \/ WriteFails(p) \/ ReadIn(p) \/ ReadFails(p)
      PROVE  FileInv'
  BY <1>3, WriteOutKeeps, WriteFailsKeeps, ReadInKeeps, ReadFailsKeeps
<1>4. ASSUME NEW p \in Processes, WriteReturns(p) \/ LoadReturns(p) \/ Die(p)
      PROVE  FileInv'
  BY <1>4, ReturnOrDeathKeeps
<1>5. CASE UNCHANGED fileVars
  <2> USE <1>5 DEF fileVars, FileInv
  <2>1. FileTypeOK'
    BY DEF FileTypeOK
  <2>2. PiecesFollow' /\ WritesAlone' /\ LoadsFollow' /\ DataKeepsItsPlace'
    BY DEF PiecesFollow, PieceFollows, WritesAlone, WriteIsAlone, LoadsFollow,
       DataKeepsItsPlace, Writers
  <2>3. FileIsAccounted'
    BY AccountedStays DEF Writers
  <2> QED
    BY <2>1, <2>2, <2>3
<1> QED
  BY <1>1, <1>2, <1>3, <1>4, <1>5 DEF FileNext

LEMMA FileInvariance == FileSpec => []FileInv
BY FileInitial, FileKeeps, PTL DEF FileSpec

-----------------------------------------------------------------------------
(* The types; no load writes behind the memory it was given.               *)
THEOREM FileTypeCorrect == FileSpec => []FileTypeOK
<1>1. FileInv => FileTypeOK
  BY DEF FileInv
<1> QED
  BY <1>1, FileInvariance, PTL

(* Any number of processes, any crash, any failed write: the file is a     *)
(* first part of the last write_data_to_file and appends behind it, whole  *)
(* if nothing was lost.                                                    *)
THEOREM FileAccounted == FileSpec => []FileIsAccounted
<1>1. FileInv => FileIsAccounted
  BY DEF FileInv
<1> QED
  BY <1>1, FileInvariance, PTL

(* Writers at once mix their data only at the same place of the memory,    *)
(* and holes need one that emptied the file meanwhile.                     *)
THEOREM DataInPlace == FileSpec => []DataKeepsItsPlace
<1>1. FileInv => DataKeepsItsPlace
  BY DEF FileInv
<1> QED
  BY <1>1, FileInvariance, PTL

(* load_data_from_file, if nobody writes: OK and the first bytes of the    *)
(* file, all of them up to len unless a read() failed.                     *)
THEOREM LoadIsTheFile == FileSpec => LoadGivesTheFile
<1> DEFINE Loaded(p) ==
             /\ fileRet' = OK
             /\ \E k \in 0 .. Shorter(Len(data[p]), Len(file)) :
                  /\ \A i \in 1 .. Len(data[p]) :
                       data[p][i] = IF i <= k THEN file[i] ELSE Memory(i)
                  /\ fileOp[p] = "load" => k = Shorter(Len(data[p]), Len(file))
           AllLoaded ==
             \A p \in quiet :
               fileOp[p] \in {"load", "loadFailed"} /\ fileOp'[p] = "idle" =>
                 Loaded(p)
<1>1. ASSUME FileInv, [FileNext]_fileVars, NEW p \in quiet,
             fileOp[p] \in {"load", "loadFailed"}, fileOp'[p] = "idle"
      PROVE  Loaded(p)
  <2>1. p \in Processes /\ fileOp \in [Processes ->
          {"idle", "write", "append", "load", "loadFailed", "dead"}]
    BY <1>1 DEF FileInv, FileTypeOK
  <2>2. LoadReturns(p)
    BY <1>1, <2>1 DEF FileNext, FileRefuse, OpenToWrite, OpenToLoad, OpenToAppend,
       Begin, WriteOut, WriteFails, WriteReturns, ReadIn, ReadFails, LoadReturns,
       Die, Writers, fileVars
  <2>3. /\ offset[p] <= Len(file) /\ offset[p] <= Len(data[p])
        /\ \A i \in 1 .. Len(data[p]) :
             data[p][i] = IF i <= offset[p] THEN file[i] ELSE Memory(i)
    BY <1>1 DEF FileInv, LoadsFollow
  <2>4. /\ Len(file) \in Nat /\ Len(data[p]) \in Nat /\ offset[p] \in Nat
    BY <1>1, <2>1, LenProperties DEF FileInv, FileTypeOK
  <2>5. /\ offset[p] \in 0 .. Shorter(Len(data[p]), Len(file))
        /\ fileOp[p] = "load" => offset[p] = Shorter(Len(data[p]), Len(file))
    BY <2>2, <2>3, <2>4 DEF LoadReturns, Shorter
  <2>6. fileRet' = OK
    BY <2>2 DEF LoadReturns
  <2> QED
    BY <2>3, <2>5, <2>6
<1>2. FileInv /\ [FileNext]_fileVars => [AllLoaded]_fileVars
  <2> HIDE DEF Loaded
  <2> QED
    BY <1>1
<1> QED
  BY <1>2, FileInvariance, PTL DEF FileSpec, LoadGivesTheFile

-----------------------------------------------------------------------------
(* The strings.                                                            *)

(* Memory of that size holds the string and its NUL.                       *)
HoldsString(mem, size, s) ==
  /\ DOMAIN mem = 0 .. size - 1
  /\ Len(s) < size
  /\ \A k \in 0 .. Len(s) - 1 : mem[k] = s[k + 1]
  /\ mem[Len(s)] = NUL

LEMMA StringTypes ==
  ASSUME NEW n \in Nat, NEW s \in Strings(n)
  PROVE  s \in Seq(Chars) /\ Len(s) \in Nat
<1>1. PICK k \in 0 .. n : s \in [1 .. k -> Chars]
  BY DEF Strings
<1> QED
  BY <1>1

LEMMA NoCharIsNul == NUL \notin Chars
BY StringsAssumption DEF Chars, NUL

(* CHOOSE finds the first NUL.                                             *)
LEMMA StringIs ==
  ASSUME NEW mem, NEW size \in Nat, NEW s \in Seq(Chars),
         HoldsString(mem, size, s)
  PROVE  StringAt(mem) = s
<1> DEFINE l == Len(s)
           P(n) == /\ n \in DOMAIN mem => mem[n] = NUL
                   /\ \A k \in 0 .. n - 1 : mem[k] # NUL
           end == CHOOSE n \in 0 .. Cardinality(DOMAIN mem) : P(n)
<1>1. /\ l \in Nat /\ l < size /\ DOMAIN mem = 0 .. size - 1
      /\ \A k \in 0 .. l - 1 : mem[k] = s[k + 1]
      /\ mem[l] = NUL
  BY DEF HoldsString
<1>2. \A k \in 0 .. l - 1 : mem[k] # NUL
  <2> TAKE k \in 0 .. l - 1
  <2>1. k + 1 \in 1 .. Len(s)
    BY <1>1
  <2>2. s[k + 1] \in Chars
    BY <2>1
  <2> QED
    BY <1>1, <2>2, NoCharIsNul
<1>3. Cardinality(DOMAIN mem) = size
  <2>1. Cardinality(0 .. size - 1) = IF 0 <= size - 1 THEN (size - 1) - 0 + 1 ELSE 0
    BY FS_Interval
  <2> QED
    BY <1>1, <2>1
<1>4. l \in 0 .. Cardinality(DOMAIN mem) /\ P(l)
  BY <1>1, <1>2, <1>3
<1>5. end \in 0 .. Cardinality(DOMAIN mem) /\ P(end)
  <2> HIDE DEF P
  <2> QED
    BY <1>4
<1> HIDE DEF end
<1>6. end = l
  <2>1. end \in Nat
    BY <1>3, <1>5
  <2>2. ~(end < l)
    <3> SUFFICES ASSUME end < l PROVE FALSE
      OBVIOUS
    <3>1. end \in 0 .. l - 1 /\ end \in DOMAIN mem
      BY <1>1, <2>1
    <3> QED
      BY <1>2, <1>5, <3>1
  <2>3. ~(l < end)
    <3> SUFFICES ASSUME l < end PROVE FALSE
      OBVIOUS
    <3>1. l \in 0 .. end - 1
      BY <1>1, <2>1
    <3> QED
      BY <1>1, <1>5, <3>1
  <2> QED
    BY <1>1, <2>1, <2>2, <2>3
<1>7. StringAt(mem) = [k \in 1 .. end |-> mem[k - 1]]
  BY DEF StringAt, end
<1>8. \A k \in 1 .. l : mem[k - 1] = s[k]
  <2> TAKE k \in 1 .. l
  <2>1. k - 1 \in 0 .. l - 1 /\ (k - 1) + 1 = k
    BY <1>1
  <2> QED
    BY <1>1, <2>1
<1>9. s = [k \in 1 .. l |-> s[k]]
  OBVIOUS
<1> QED
  BY <1>6, <1>7, <1>8, <1>9

(* memset() leaves the empty string.                                       *)
LEMMA ZeroedIsEmpty ==
  ASSUME NEW size \in Nat \ {0}
  PROVE  HoldsString(Zeroed(size), size, <<>>)
BY DEF HoldsString, Zeroed

(* strcat() appends, in the same memory, when there is room.               *)
LEMMA StrcatAppends ==
  ASSUME NEW mem, NEW size \in Nat, NEW s \in Seq(Chars), NEW t \in Seq(Chars),
         HoldsString(mem, size, s), Len(s) + Len(t) < size
  PROVE  HoldsString(Strcat(mem, t), size, s \o t)
<1> DEFINE n == Len(s)
           m == Len(t)
           new == Strcat(mem, t)
<1>1. n \in Nat /\ m \in Nat /\ n + m < size /\ DOMAIN mem = 0 .. size - 1
      /\ \A k \in 0 .. n - 1 : mem[k] = s[k + 1]
  BY DEF HoldsString
<1>2. new = [k \in (0 .. size - 1) \cup (n .. n + m) |->
               IF k \in n .. n + m THEN CharAt(t, k - n) ELSE mem[k]]
  <2>1. StringAt(mem) = s
    BY StringIs
  <2> QED
    BY <1>1, <2>1 DEF Strcat
<1>3. (0 .. size - 1) \cup (n .. n + m) = 0 .. size - 1
  <2> HIDE DEF n, m
  <2> QED
    BY <1>1
<1> HIDE DEF new
<1>4. /\ DOMAIN new = 0 .. size - 1
      /\ \A k \in 0 .. size - 1 :
           new[k] = IF k \in n .. n + m THEN CharAt(t, k - n) ELSE mem[k]
  BY <1>2, <1>3
<1>5. Len(s \o t) = n + m
      /\ \A k \in 1 .. n + m : (s \o t)[k] = IF k <= n THEN s[k] ELSE t[k - n]
  OBVIOUS
<1>6. ASSUME NEW k \in 0 .. (n + m) - 1
      PROVE  new[k] = (s \o t)[k + 1]
  <2>1. k \in Nat /\ k \in 0 .. size - 1 /\ k + 1 \in 1 .. n + m
    BY <1>1
  <2>2. CASE k < n
    <3>1. k \notin n .. n + m /\ k \in 0 .. n - 1 /\ k + 1 <= n
      BY <1>1, <2>1, <2>2
    <3> QED
      BY <1>1, <1>4, <1>5, <2>1, <3>1
  <2>3. CASE ~(k < n)
    <3>1. /\ k \in n .. n + m /\ ~(k + 1 <= n) /\ k - n < m
          /\ (k - n) + 1 = (k + 1) - n
      BY <1>1, <2>1, <2>3
    <3>2. new[k] = CharAt(t, k - n)
      BY <1>4, <2>1, <3>1
    <3>3. CharAt(t, k - n) = t[(k - n) + 1]
      BY <3>1 DEF CharAt
    <3> QED
      BY <1>5, <2>1, <3>1, <3>2, <3>3
  <2> QED
    BY <2>2, <2>3
<1>7. new[n + m] = NUL
  <2>1. /\ n + m \in 0 .. size - 1 /\ n + m \in n .. n + m
        /\ (n + m) - n = m /\ ~(m < m)
    BY <1>1
  <2>2. new[n + m] = CharAt(t, m)
    BY <1>4, <2>1
  <2> QED
    BY <2>1, <2>2 DEF CharAt
<1> HIDE DEF n, m
<1> QED
  BY <1>1, <1>4, <1>5, <1>6, <1>7 DEF HoldsString, new

(* appendStringAtEnd leaves both strings in the memory that it allocates.  *)
LEMMA AppendMakesBoth ==
  ASSUME NEW s \in Seq(Chars), NEW t \in Seq(Chars)
  PROVE  HoldsString(Strcat(Strcat(Zeroed(TotalSize(s, t)), s), t),
                     TotalSize(s, t), s \o t)
<1> DEFINE size == TotalSize(s, t)
           first == Strcat(Zeroed(size), s)
<1>1. size \in Nat \ {0} /\ Len(s) < size /\ Len(s) + Len(t) < size
      /\ <<>> \in Seq(Chars) /\ Len(<<>>) + Len(s) < size
  BY DEF TotalSize
<1>2. <<>> \o s = s
  OBVIOUS
<1> HIDE DEF size
<1>3. HoldsString(Zeroed(size), size, <<>>)
  BY <1>1, ZeroedIsEmpty
<1>4. HoldsString(first, size, <<>> \o s)
  BY <1>1, <1>3, StrcatAppends
<1>5. HoldsString(first, size, s)
  BY <1>2, <1>4
<1> HIDE DEF first
<1>6. HoldsString(Strcat(first, t), size, s \o t)
  BY <1>1, <1>5, StrcatAppends
<1> QED
  BY <1>6 DEF first, size

-----------------------------------------------------------------------------
(* A pair of digits is scanned where it stands: neither is white space.    *)
LEMMA PairIsScanned ==
  ASSUME NEW input \in Seq(Chars), NEW k \in Nat, k + 2 <= Len(input),
         {input[k + 1], input[k + 2]} \subseteq DOMAIN Digit,
         NEW zero \in BOOLEAN
  PROVE  Scan(input, k, zero) = 16 * Digit[input[k + 1]] + Digit[input[k + 2]]
<1> DEFINE P(n) == /\ CharAt(input, n) # " "
                   /\ \A j \in k .. n - 1 : CharAt(input, j) = " "
           first == CHOOSE n \in k .. Len(input) : P(n)
<1>1. CharAt(input, k) = input[k + 1] /\ CharAt(input, k + 1) = input[k + 2]
  BY DEF CharAt
<1>2. " " \notin DOMAIN Digit /\ "+" \notin DOMAIN Digit /\ "-" \notin DOMAIN Digit
  BY StringsAssumption
<1>3. k \in k .. Len(input) /\ P(k)
  <2>1. CharAt(input, k) # " "
    BY <1>1, <1>2
  <2>2. \A j \in k .. k - 1 : CharAt(input, j) = " "
    <3>1. k .. k - 1 = {}
      OBVIOUS
    <3> QED
      BY <3>1
  <2>3. k \in k .. Len(input)
    OBVIOUS
  <2> QED
    BY <2>1, <2>2, <2>3
<1>4. first \in k .. Len(input) /\ P(first)
  <2> HIDE DEF P
  <2> QED
    BY <1>3
<1> HIDE DEF first
<1>5. first = k
  <2> SUFFICES ASSUME first # k PROVE FALSE
    OBVIOUS
  <2>1. first \in k .. Len(input)
    BY <1>4
  <2>2. k \in k .. first - 1
    BY <2>1
  <2> QED
    BY <1>3, <1>4, <2>2
<1>6. Scan(input, k, zero) = ScanTwo(CharAt(input, first), CharAt(input, first + 1), zero)
  BY DEF Scan, first
<1>7. Scan(input, k, zero) = ScanTwo(input[k + 1], input[k + 2], zero)
  BY <1>1, <1>5, <1>6
<1>8. ASSUME NEW c \in DOMAIN Digit, NEW d \in DOMAIN Digit
      PROVE  ScanTwo(c, d, zero) = 16 * Digit[c] + Digit[d]
  <2>1. c # "+" /\ c # "-" /\ {c, d} \subseteq DOMAIN Digit
    BY <1>2
  <2> QED
    BY <2>1 DEF ScanTwo
<1> QED
  BY <1>7, <1>8

-----------------------------------------------------------------------------
LEMMA PathFits ==
  ASSUME NEW s \in Seq(Chars), NEW t \in Seq(Chars), GetFilePath(s, t)
  PROVE  WritesFit' /\ StringsAreMade'
<1>1. stringCall'[1] = "get_file_path"
  BY DEF GetFilePath
<1>2. StringsAreMade'
  BY <1>1 DEF StringsAreMade, PairsAreDecoded, BothAreAppended, Called
<1>3. CASE t = <<>>
  BY <1>2, <1>3 DEF GetFilePath, WritesFit
<1>4. CASE t # <<>>
  <2>1. out' = PathOf(s, t) /\ room' = Len(s) + 1 + Len(t) + 1
    BY <1>4 DEF GetFilePath
  <2>2. DOMAIN PathOf(s, t) = 0 .. Len(s) + 1 + Len(t)
    BY DEF PathOf
  <2>3. room' - 1 = Len(s) + 1 + Len(t)
    BY <2>1
  <2> QED
    BY <1>2, <2>1, <2>2, <2>3 DEF WritesFit
<1> QED
  BY <1>3, <1>4

LEMMA BytesFit ==
  ASSUME NEW s \in Seq(Chars), HexaStrToByteArray(s)
  PROVE  WritesFit' /\ StringsAreMade'
<1>1. stringCall' = <<"hexa_str_to_byte_array", s>> /\ room' = Len(s) \div 2
  BY DEF HexaStrToByteArray
<1>2. stringCall'[1] = "hexa_str_to_byte_array" /\ stringCall'[2] = s
  BY <1>1
<1>3. BothAreAppended'
  BY <1>2 DEF BothAreAppended, Called
<1>4. CASE s = <<>> \/ Len(s) % 2 # 0
  <2>1. stringRet' = -1 /\ out' = <<>>
    BY <1>4 DEF HexaStrToByteArray
  <2>2. PairsAreDecoded'
    BY <2>1 DEF PairsAreDecoded, Called
  <2>3. WritesFit'
    BY <2>1 DEF WritesFit
  <2> QED
    BY <1>3, <2>2, <2>3 DEF StringsAreMade
<1>5. CASE ~(s = <<>> \/ Len(s) % 2 # 0)
  <2>1. PICK zero \in BOOLEAN : out' = [k \in 0 .. room' - 1 |-> HexByte(s, k, zero)]
    BY <1>5 DEF HexaStrToByteArray
  <2>2. WritesFit'
    BY <2>1 DEF WritesFit
  <2>3. ASSUME NEW k \in 0 .. Len(s) \div 2 - 1,
               {s[2 * k + 1], s[2 * k + 2]} \subseteq DOMAIN Digit
        PROVE  out'[k] = 16 * Digit[s[2 * k + 1]] + Digit[s[2 * k + 2]]
    <3> DEFINE j == 2 * k
    <3>1. k \in Nat /\ j \in Nat /\ j + 2 <= Len(s)
      BY <1>5
    <3>2. out'[k] = Scan(s, j, zero)
      BY <1>1, <2>1 DEF HexByte
    <3>3. {s[j + 1], s[j + 2]} \subseteq DOMAIN Digit
      BY <2>3
    <3> HIDE DEF j
    <3>4. Scan(s, j, zero) = 16 * Digit[s[j + 1]] + Digit[s[j + 2]]
      BY <3>1, <3>3, PairIsScanned
    <3> QED
      BY <3>2, <3>4 DEF j
  <2>4. PairsAreDecoded'
    BY <1>2, <2>3 DEF PairsAreDecoded
  <2> QED
    BY <1>3, <2>2, <2>4 DEF StringsAreMade
<1> QED
  BY <1>4, <1>5

LEMMA StringFits ==
  ASSUME NEW s \in Seq(Chars), NEW t \in Seq(Chars), AppendStringAtEnd(s, t)
  PROVE  WritesFit' /\ StringsAreMade'
<1> DEFINE size == TotalSize(s, t)
           new == Strcat(Strcat(Zeroed(size), s), t)
<1>1. stringCall' = <<"appendStringAtEnd", s, t>> /\ room' = size /\ out' = new
  BY DEF AppendStringAtEnd
<1>2. stringCall'[1] = "appendStringAtEnd" /\ stringCall'[2] = s /\ stringCall'[3] = t
  BY <1>1
<1>3. HoldsString(new, size, s \o t) /\ size \in Nat /\ s \o t \in Seq(Chars)
  BY AppendMakesBoth DEF TotalSize
<1> HIDE DEF new, size
<1>4. StringAt(new) = s \o t
  BY <1>3, StringIs
<1>5. PairsAreDecoded'
  BY <1>2 DEF PairsAreDecoded, Called
<1>6. BothAreAppended'
  BY <1>1, <1>2, <1>4 DEF BothAreAppended
<1>7. WritesFit'
  BY <1>1, <1>3 DEF WritesFit, HoldsString
<1> QED
  BY <1>5, <1>6, <1>7 DEF StringsAreMade

LEMMA StringsInductive ==
  StringsSpec => [](WritesFit /\ StringsAreMade)
<1>1. StringsInit => WritesFit /\ StringsAreMade
  BY DEF StringsInit, WritesFit, StringsAreMade, PairsAreDecoded,
         BothAreAppended, Called
<1>2. ASSUME WritesFit /\ StringsAreMade, [StringsNext]_stringVars
      PROVE  WritesFit' /\ StringsAreMade'
  <2>1. Longest \in Nat /\ Longest \div 2 \in Nat
    <3>1. \A n \in Nat : n \div 2 \in Nat
      OBVIOUS
    <3> QED
      BY <3>1, StringsAssumption
  <2>2. ASSUME NEW s \in Strings(Longest \div 2), NEW t \in Strings(Longest \div 2),
               GetFilePath(s, t) \/ AppendStringAtEnd(s, t)
        PROVE  WritesFit' /\ StringsAreMade'
    <3>1. s \in Seq(Chars) /\ t \in Seq(Chars)
      BY <2>1, StringTypes
    <3> QED
      BY <2>2, <3>1, PathFits, StringFits
  <2>3. ASSUME NEW s \in Strings(Longest), HexaStrToByteArray(s)
        PROVE  WritesFit' /\ StringsAreMade'
    <3>1. s \in Seq(Chars)
      BY <2>1, StringTypes
    <3> QED
      BY <2>3, <3>1, BytesFit
  <2>4. CASE UNCHANGED stringVars
    BY <1>2, <2>4 DEF stringVars, WritesFit, StringsAreMade, PairsAreDecoded,
       BothAreAppended, Called
  <2> QED
    BY <1>2, <2>2, <2>3, <2>4 DEF StringsNext
<1> QED
  BY <1>1, <1>2, PTL DEF StringsSpec

(* WritesFit: none of the functions writes behind the memory there is.     *)
THEOREM StringsFit == StringsSpec => []WritesFit
BY StringsInductive, PTL

(* StringsAreMade: pairs of digits become their bytes and both strings are *)
(* in the result, whatever their characters.                               *)
THEOREM StringsMade == StringsSpec => []StringsAreMade
BY StringsInductive, PTL

-----------------------------------------------------------------------------
(* The client, the files and the strings in one run.                       *)

(* A behaviour of the run is a behaviour of each of its parts.             *)
LEMMA ClientSideIsParts ==
  ClientSideSpec => ConversationSpec /\ FileSpec /\ StringsSpec
<1>1. ClientSideInit => ConversationInit /\ FileInit /\ StringsInit
  BY DEF ClientSideInit
<1>2. [ClientSideNext]_clientSideVars =>
        /\ [ConversationNext]_conversationVars /\ [FileNext]_fileVars
        /\ [StringsNext]_stringVars
  BY DEF ClientSideNext, ConversationOnly, FilesOnly, StringsOnly,
         clientSideVars
<1> QED
  BY <1>1, <1>2, PTL DEF ClientSideSpec, ConversationSpec, FileSpec, StringsSpec

(* ClientSideTypeOK: no byte is read before it has arrived, and no load    *)
(* and no function on strings writes behind its memory.                    *)
THEOREM ClientSideTypeCorrect == ClientSideSpec => []ClientSideTypeOK
BY ClientSideIsParts, ConversationTypeCorrect, FileTypeCorrect, StringsFit,
   PTL DEF ClientSideTypeOK
=============================================================================
