--------------------------- MODULE ForkServerProofs ---------------------------
(***************************************************************************)
(* Safety of ForkServer for every number of children, connections,         *)
(* descriptors and signals.                                                *)
(***************************************************************************)
EXTENDS ForkServer, TLAPS

USE ServerAssumption, BoundsAssumption, ConnsAssumption DEF Procs, Fds, NoFd

(* The effect of Release on the kernel's view of the server socket and of  *)
(* the connections.                                                        *)
LEMMA ReleaseType ==
  ASSUME TypeOK, NEW tables \in [Procs -> [Fds -> Objects]], Release(tables)
  PROVE  /\ fds' \in [Procs -> [Fds -> Objects]]
         /\ lstate' \in {"none", "open", "listening", "closed"}
         /\ queue' \in Seq(Conns) /\ Len(queue') <= Backlog
         /\ conn' \in [Conns -> {"idle", "queued", "accepted", "closed", "reset", "refused"}]
BY DEF TypeOK, Release

LEMMA CloseType ==
  ASSUME TypeOK, NEW p \in Procs, NEW fd \in Fds \cup {NoFd}, Close(p, fd)
  PROVE  /\ fds' \in [Procs -> [Fds -> Objects]]
         /\ lstate' \in {"none", "open", "listening", "closed"}
         /\ queue' \in Seq(Conns) /\ Len(queue') <= Backlog
         /\ conn' \in [Conns -> {"idle", "queued", "accepted", "closed", "reset", "refused"}]
<1>1. [fds EXCEPT ![p][fd] = "none"] \in [Procs -> [Fds -> Objects]]
  BY DEF TypeOK, Objects, Plain
<1>2. QED  BY <1>1, ReleaseType DEF Close

LEMMA TerminateType ==
  ASSUME TypeOK, NEW p \in Procs, Terminate(p)
  PROVE  /\ pc' \in [Procs -> Locations]
         /\ fds' \in [Procs -> [Fds -> Objects]]
         /\ lstate' \in {"none", "open", "listening", "closed"}
         /\ queue' \in Seq(Conns) /\ Len(queue') <= Backlog
         /\ conn' \in [Conns -> {"idle", "queued", "accepted", "closed", "reset", "refused"}]
<1>1. [fds EXCEPT ![p] = [f \in Fds |-> "none"]] \in [Procs -> [Fds -> Objects]]
  BY DEF TypeOK, Objects, Plain
<1>2. pc' \in [Procs -> Locations]
  BY DEF TypeOK, Terminate, Locations
<1>3. QED  BY <1>1, <1>2, ReleaseType DEF Terminate

LEMMA QueueType ==
  ASSUME TypeOK, queue # <<>>
  PROVE  /\ Head(queue) \in Conns
         /\ Tail(queue) \in Seq(Conns)
         /\ Len(Tail(queue)) = Len(queue) - 1
BY DEF TypeOK

LEMMA TypeStep == TypeOK /\ [Next]_vars => TypeOK'
<1> SUFFICES ASSUME TypeOK, [Next]_vars PROVE TypeOK'
  OBVIOUS
<1> USE DEF local, kernel
<1>0. /\ "none" \in Objects /\ "listener" \in Objects /\ "file" \in Objects
      /\ \A c \in Conns : c \in Objects
      /\ \A l \in {"bind", "sigterm", "sigint", "listen", "accept", "fork",
                   "parentClose", "childClose", "handler", "returned"} : l \in Locations
      /\ \A r \in {"ok", "ERR_CANNOT_BIND_SOCKET", "ERR_CANNOT_CREATE_SOCKET"} : r \in Results
  BY DEF Objects, Plain, Locations, Results
<1>1. CASE OpenSocket
  <2>1. /\ fds' \in [Procs -> [Fds -> Objects]] /\ sock' \in [Procs -> Fds]
        /\ lstate' \in {"none", "open", "listening", "closed"}
    <3>1. CASE UNCHANGED <<fds, sock, lstate>>
      BY <3>1 DEF TypeOK
    <3>2. CASE /\ \E f \in Fds : /\ fds' = [fds EXCEPT ![Server][f] = "listener"]
                                 /\ sock' = [sock EXCEPT ![Server] = f]
               /\ lstate' = "open"
      BY <1>0, <3>2 DEF TypeOK
    <3>3. QED  BY <1>1, <3>1, <3>2 DEF OpenSocket
  <2>2. pc' \in [Procs -> Locations] /\ ret' \in [Procs -> Results]
    BY <1>0, <1>1 DEF TypeOK, OpenSocket, GoTo, Return
  <2>3. QED  BY <1>1, <2>1, <2>2 DEF TypeOK, OpenSocket
<1>2. CASE BindSocket
  BY <1>0, <1>2 DEF TypeOK, BindSocket, GoTo, Return
<1>3. CASE SetSigterm
  BY <1>0, <1>3 DEF TypeOK, SetSigterm, GoTo
<1>4. CASE SetSigint
  BY <1>0, <1>4 DEF TypeOK, SetSigint, GoTo
<1>5. CASE Listen
  BY <1>0, <1>5 DEF TypeOK, Listen, GoTo
<1>6. ASSUME NEW p \in Procs, AcceptConnection(p) PROVE TypeOK'
  <2>1. /\ fds' \in [Procs -> [Fds -> Objects]]
        /\ client' \in [Procs -> Fds \cup {NoFd}]
        /\ pc' \in [Procs -> Locations]
    BY <1>0, <1>6, QueueType, SMTT(30) DEF TypeOK, AcceptConnection, GoTo
  <2>2. queue' \in Seq(Conns) /\ Len(queue') <= Backlog
    BY <1>6, QueueType DEF TypeOK, AcceptConnection
  <2>3. QED  BY <1>6, <2>1, <2>2, QueueType DEF TypeOK, AcceptConnection
<1>7. ASSUME NEW p \in Procs, AcceptFails(p) PROVE TypeOK'
  <2>1. queue' \in Seq(Conns) /\ Len(queue') <= Backlog
    <3>1. queue \in Seq(Conns) /\ Len(queue) <= Backlog
      BY DEF TypeOK
    <3>2. queue' = queue \/ (queue # <<>> /\ queue' = Tail(queue))
      BY <1>7 DEF AcceptFails
    <3>3. QED  BY <3>1, <3>2, QueueType
  <2>2. conn' \in [Conns -> {"idle", "queued", "accepted", "closed", "reset", "refused"}]
    BY <1>7, QueueType DEF TypeOK, AcceptFails
  <2>3. QED  BY <1>0, <1>7, <2>1, <2>2 DEF TypeOK, AcceptFails, Return, GoTo
<1>8. ASSUME NEW p \in Procs, ForkChild(p) PROVE TypeOK'
  <2>1. PICK q \in Children :
          /\ pc' = [pc EXCEPT ![p] = "parentClose", ![q] = "childClose"]
          /\ fds' = [fds EXCEPT ![q] = fds[p]]
          /\ sock' = [sock EXCEPT ![q] = sock[p]]
          /\ client' = [client EXCEPT ![q] = client[p]]
          /\ gsock' = [gsock EXCEPT ![q] = gsock[p]]
          /\ caught' = [caught EXCEPT ![q] = caught[p]]
    BY <1>8 DEF ForkChild
  <2>2. pc' \in [Procs -> Locations]
    BY <1>0, <2>1 DEF TypeOK
  <2>3. fds' \in [Procs -> [Fds -> Objects]] /\ caught' \in [Procs -> SUBSET {"TERM", "INT"}]
    BY <2>1 DEF TypeOK
  <2>4. /\ sock' \in [Procs -> Fds] /\ gsock' \in [Procs -> Fds]
        /\ client' \in [Procs -> Fds \cup {NoFd}]
    BY <2>1 DEF TypeOK
  <2>5. QED  BY <1>8, <2>2, <2>3, <2>4 DEF TypeOK, ForkChild
<1>9. ASSUME NEW p \in Procs, ForkFails(p) PROVE TypeOK'
  BY <1>0, <1>9 DEF TypeOK, ForkFails, GoTo
<1>10. ASSUME NEW p \in Procs, ParentClose(p) PROVE TypeOK'
  <2>1. client[p] \in Fds \cup {NoFd}
    BY DEF TypeOK
  <2>2. QED  BY <1>0, <1>10, <2>1, CloseType DEF TypeOK, ParentClose, GoTo
<1>11. ASSUME NEW p \in Procs, ChildClose(p) PROVE TypeOK'
  <2>1. sock[p] \in Fds \cup {NoFd}
    BY DEF TypeOK
  <2>2. calls' \in [Conns -> Nat]
    BY <1>11 DEF TypeOK, ChildClose
  <2>3. QED  BY <1>0, <1>11, <2>1, <2>2, CloseType DEF TypeOK, ChildClose, GoTo
<1>12. ASSUME NEW p \in Procs, OpenFile(p) PROVE TypeOK'
  BY <1>0, <1>12 DEF TypeOK, OpenFile
<1>13. ASSUME NEW p \in Procs, HandlerCloses(p) PROVE TypeOK'
  <2>1. client[p] \in Fds \cup {NoFd}
    BY DEF TypeOK
  <2>2. QED  BY <1>0, <1>13, <2>1, CloseType DEF TypeOK, HandlerCloses
<1>14. ASSUME NEW p \in Procs, HandlerReturns(p) PROVE TypeOK'
  BY <1>0, <1>14 DEF TypeOK, HandlerReturns, GoTo
<1>15. ASSUME NEW p \in Procs, Exit(p) PROVE TypeOK'
  BY <1>0, <1>15, TerminateType DEF TypeOK, Exit
<1>16. ASSUME NEW c \in Conns, Connect(c) PROVE TypeOK'
  <2>1. queue' \in Seq(Conns) /\ Len(queue') <= Backlog
    <3>1. queue \in Seq(Conns) /\ Len(queue) <= Backlog
      BY DEF TypeOK
    <3>2. queue' = queue \/ (Len(queue) < Backlog /\ queue' = Append(queue, c))
      BY <1>16 DEF Connect
    <3>3. QED  BY <3>1, <3>2
  <2>2. QED  BY <1>16, <2>1 DEF TypeOK, Connect
<1>17. ASSUME NEW p \in Procs, NEW s \in SignalNames, Kill(p, s) PROVE TypeOK'
  <2>1. signals' \in 0 .. MaxSignals
    BY <1>17 DEF TypeOK, Kill
  <2>2. QED  BY <1>17, <2>1, TerminateType DEF TypeOK, Kill
<1>18. ASSUME NEW p \in Procs, NEW s \in SignalNames, CloseResources(p, s) PROVE TypeOK'
  <2>1. gsock[p] \in Fds \cup {NoFd}
    BY DEF TypeOK
  <2>2. signals' \in 0 .. MaxSignals /\ hit' \subseteq Procs
    BY <1>18 DEF TypeOK, CloseResources
  <2>3. /\ pc' \in [Procs -> Locations] /\ ret' \in [Procs -> Results]
        /\ client' \in [Procs -> Fds \cup {NoFd}]
    <3>1. CASE UNCHANGED <<pc, ret, client>>
      BY <3>1 DEF TypeOK
    <3>2. CASE client' = [client EXCEPT ![p] = NoFd] /\ Return(p, "ok")
      BY <1>0, <3>2 DEF TypeOK, Return, GoTo
    <3>3. QED  BY <1>18, <3>1, <3>2 DEF CloseResources
  <2>4. QED  BY <1>18, <2>1, <2>2, <2>3, CloseType DEF TypeOK, CloseResources
<1>19. CASE UNCHANGED vars
  BY <1>0, <1>19 DEF TypeOK, vars
<1>20. QED
  BY <1>1, <1>2, <1>3, <1>4, <1>5, <1>6, <1>7, <1>8, <1>9, <1>10, <1>11, <1>12,
     <1>13, <1>14, <1>15, <1>16, <1>17, <1>18, <1>19
     DEF Next, Start, Loop, Application, Environment

(* Every variable keeps its type: descriptors stay in the table, the       *)
(* backlog within its limit, results among those server.c defines.         *)
THEOREM TypeCorrect == Spec => []TypeOK
<1>1. Init => TypeOK
  BY DEF Init, TypeOK, Locations, Results, Objects, Plain
<1>2. QED  BY <1>1, TypeStep, PTL DEF Spec

-----------------------------------------------------------------------------
(* The effect of a step, value by value.                                   *)
At(p, l) == \A q \in Procs : pc'[q] = IF q = p THEN l ELSE pc[q]

Sets(p, f, o) ==
  \A q \in Procs, g \in Fds : fds'[q][g] = IF q = p /\ g = f THEN o ELSE fds[q][g]

Empties(p) ==
  \A q \in Procs, g \in Fds : fds'[q][g] = IF q = p THEN "none" ELSE fds[q][g]

(* What else happens when descriptors are closed.                          *)
Frees ==
  /\ KernelKnowsHolders' /\ AcceptedAreHeld'
  /\ queue' \in {queue, <<>>}
  /\ \A c \in Conns :
       \/ conn'[c] = conn[c]
       \/ /\ conn[c] = "accepted" /\ conn'[c] = "closed"
          /\ \A q \in Procs, f \in Fds : fds'[q][f] # c
       \/ conn[c] = "queued" /\ conn'[c] = "reset" /\ queue' = <<>>

LEMMA GoToEffect ==
  ASSUME TypeOK, NEW p \in Procs, NEW l, GoTo(p, l)
  PROVE  At(p, l)
BY DEF TypeOK, GoTo, At

LEMMA SetsEffect ==
  ASSUME TypeOK, NEW p \in Procs, NEW f \in Fds \cup {NoFd}, NEW o,
         fds' = [fds EXCEPT ![p][f] = o]
  PROVE  Sets(p, f, o)
BY DEF TypeOK, Sets

LEMMA ReleaseEffect ==
  ASSUME TypeOK, KernelKnowsHolders, NEW tables \in [Procs -> [Fds -> Objects]],
         Release(tables)
  PROVE  fds' = tables /\ Frees
<1>1. fds' = tables
  BY DEF Release
<1>2. KernelKnowsHolders'
  BY <1>1 DEF Release, KernelKnowsHolders, Holds, Holders, TypeOK
<1>3. AcceptedAreHeld'
  BY <1>1 DEF Release, AcceptedAreHeld, Holds, Holders, TypeOK
<1>4. QED  BY <1>1, <1>2, <1>3 DEF Release, Holders, TypeOK, Frees

LEMMA CloseEffect ==
  ASSUME TypeOK, KernelKnowsHolders, NEW p \in Procs, NEW fd \in Fds \cup {NoFd}, Close(p, fd)
  PROVE  Sets(p, fd, "none") /\ Frees
<1> DEFINE tables == [fds EXCEPT ![p][fd] = "none"]
<1>1. tables \in [Procs -> [Fds -> Objects]]
  BY DEF TypeOK, Objects, Plain
<1>2. Release(tables)
  BY DEF Close
<1>3. fds' = tables /\ Frees
  <2> HIDE DEF tables
  <2> QED  BY <1>1, <1>2, ReleaseEffect
<1>4. QED  BY <1>3, SetsEffect

LEMMA TerminateEffect ==
  ASSUME TypeOK, KernelKnowsHolders, Places, NEW p \in Procs, Terminate(p)
  PROVE  /\ Empties(p) /\ Frees
         /\ p = Server => pc'[p] = "gone"
         /\ pc'[p] \in {"zombie", "gone"}
         /\ \A q \in Procs \ {p} : pc'[q] = pc[q] \/ (pc[q] = "zombie" /\ pc'[q] = "gone")
<1> DEFINE tables == [fds EXCEPT ![p] = [f \in Fds |-> "none"]]
<1>1. tables \in [Procs -> [Fds -> Objects]]
  BY DEF TypeOK, Objects, Plain
<1>2. \A q \in Procs, f \in Fds : tables[q][f] = IF q = p THEN "none" ELSE fds[q][f]
  BY DEF TypeOK
<1>3. Release(tables)
  BY DEF Terminate
<1>4. fds' = tables /\ Frees
  <2> HIDE DEF tables
  <2> QED  BY <1>1, <1>3, ReleaseEffect
<1>5. Empties(p)
  <2> HIDE DEF tables
  <2> QED  BY <1>2, <1>4 DEF Empties
<1>6. QED  BY <1>4, <1>5 DEF Terminate

(* A step that gives nobody a connection keeps them apart.                 *)
LEMMA NoNewConnection ==
  ASSUME HeldAreAccepted, OneConnectionEach, ChildrenDisjoint,
         \A q \in Procs, f \in Fds : fds'[q][f] \in Conns => fds'[q][f] = fds[q][f],
         \A c \in Conns : \/ conn[c] = "accepted" => conn'[c] = "accepted"
                          \/ \A q \in Procs, f \in Fds : fds'[q][f] # c
  PROVE  HeldAreAccepted' /\ OneConnectionEach' /\ ChildrenDisjoint'
BY DEF HeldAreAccepted, OneConnectionEach, ChildrenDisjoint

LEMMA NotConnections == Plain \cap Conns = {}
  OBVIOUS

LEMMA FreesQueue ==
  ASSUME TypeOK, QueueIsExact, Frees
  PROVE  QueueIsExact'
<1>1. CASE queue' = <<>>
  BY <1>1 DEF QueueIsExact
<1>2. CASE queue' = queue /\ queue # <<>>
  <2>1. \A i \in 1 .. Len(queue) : queue[i] \in Conns /\ conn'[queue[i]] = "queued"
    BY <1>2 DEF TypeOK, QueueIsExact, Frees
  <2>2. QED  BY <1>2, <2>1 DEF QueueIsExact
<1>3. QED  BY <1>1, <1>2 DEF Frees

(* The end of a process.                                                   *)
LEMMA EndStep ==
  ASSUME IInv, TypeOK', NEW p \in Procs,
         Empties(p), Frees,
         p = Server => pc'[p] = "gone",
         pc'[p] \in {"zombie", "gone"},
         \A q \in Procs \ {p} : pc'[q] = pc[q] \/ (pc[q] = "zombie" /\ pc'[q] = "gone"),
         UNCHANGED <<sock, client, gsock, caught, calls, hit>>,
         \/ pc[p] \in {"handler", "returned"} /\ UNCHANGED signals
         \/ signals' < MaxSignals
  PROVE  IInv'
<1>1. Places'
  BY DEF IInv, Places
<1>2. EndedHoldNothing'
  BY DEF IInv, EndedHoldNothing, Empties, Alive
<1>3. ListenerPlaces'
  BY DEF IInv, ListenerPlaces, Empties
<1>4. HandlerKnowsSocket' /\ KernelKnowsHolders'
  BY DEF IInv, HandlerKnowsSocket, Frees
<1>5. QueueIsExact'
  BY FreesQueue DEF IInv
<1>6. HeldAreAccepted' /\ OneConnectionEach' /\ ChildrenDisjoint'
  BY NoNewConnection, NotConnections DEF IInv, Frees, Empties, Plain
<1>7. ServerTable'
  BY DEF IInv, ServerTable, Empties
<1>8. ClientIsFresh'
  BY DEF IInv, ClientIsFresh, Empties
<1>9. ForkingAlone'
  BY NotConnections DEF IInv, ForkingAlone, ClientIsFresh, Empties, Plain
<1>10. WaitingAreFresh'
  BY DEF IInv, WaitingAreFresh, Frees
<1>11. AcceptedAreHeld'
  BY DEF Frees
<1>12. ServedByChild'
  BY NotConnections DEF IInv, ServedByChild, Empties, Plain
<1>13. Excused => Excused'
  BY DEF Excused
<1>14. ParentClosesItsCopy'
  <2> SUFFICES ASSUME pc'[Server] = "parentClose", ~Excused',
                      NEW c \in Conns, Holds(Server, c)', calls'[c] = 0
               PROVE  \E q \in Children : Holds(q, c)'
    BY DEF ParentClosesItsCopy
  <2>1. p # Server /\ pc[Server] = "parentClose" /\ Holds(Server, c) /\ calls[c] = 0
    BY DEF Empties, Holds
  <2>2. PICK q \in Children : Holds(q, c)
    BY <2>1, <1>13 DEF IInv, ParentClosesItsCopy
  <2>3. q # p
    BY <2>1, <2>2 DEF IInv, ServedByChild, Holds, Excused
  <2>4. QED  BY <2>2, <2>3 DEF Empties, Holds
<1>15. DropsAreAccountable'
  <2> SUFFICES ASSUME NEW c \in Conns, conn'[c] = "closed", calls'[c] = 0, ~Excused'
               PROVE  FALSE
    BY DEF DropsAreAccountable
  <2>1. conn[c] = "accepted" /\ \A q \in Procs, f \in Fds : fds'[q][f] # c
    BY <1>13 DEF IInv, DropsAreAccountable, Frees
  <2>2. PICK f \in Fds : fds[p][f] = c
    BY <2>1 DEF IInv, AcceptedAreHeld, Holds, Empties
  <2>3. pc[p] \in {"handler", "returned"}
    BY DEF Excused
  <2>4. CASE p = Server
    BY <2>2, <2>3, <2>4, NotConnections DEF IInv, ServerTable, Plain
  <2>5. CASE p \in Children
    BY <2>2, <2>3, <2>5 DEF IInv, ServedByChild
  <2>6. QED  BY <2>4, <2>5
<1>16. QED  BY <1>1, <1>2, <1>3, <1>4, <1>5, <1>6, <1>7, <1>8, <1>9, <1>10,
               <1>11, <1>12, <1>14, <1>15 DEF IInv

LEMMA KillStep ==
  ASSUME IInv, TypeOK', NEW p \in Procs, NEW s \in SignalNames, Kill(p, s)
  PROVE  IInv'
<1>1. /\ Empties(p) /\ Frees
      /\ p = Server => pc'[p] = "gone"
      /\ pc'[p] \in {"zombie", "gone"}
      /\ \A q \in Procs \ {p} : pc'[q] = pc[q] \/ (pc[q] = "zombie" /\ pc'[q] = "gone")
      /\ UNCHANGED <<sock, client, gsock, caught, calls, hit>>
      /\ signals' < MaxSignals
  BY TerminateEffect, SMTT(30) DEF IInv, TypeOK, Kill, local
<1>2. QED  BY <1>1, EndStep

(* What every close() keeps.                                               *)
LEMMA CloseKeeps ==
  ASSUME IInv, TypeOK', NEW p \in Procs, NEW fd \in Fds \cup {NoFd},
         Sets(p, fd, "none"), Frees
  PROVE  /\ KernelKnowsHolders' /\ QueueIsExact'
         /\ HeldAreAccepted' /\ OneConnectionEach' /\ ChildrenDisjoint'
<1>1. KernelKnowsHolders'
  BY DEF Frees
<1>2. QueueIsExact'
  BY FreesQueue DEF IInv
<1>3. HeldAreAccepted' /\ OneConnectionEach' /\ ChildrenDisjoint'
  BY NoNewConnection, NotConnections DEF IInv, Frees, Sets, Plain
<1>4. QED  BY <1>1, <1>2, <1>3

LEMMA ParentCloseStep ==
  ASSUME IInv, TypeOK', NEW p \in Procs, ParentClose(p)
  PROVE  IInv'
<1>1. /\ p = Server /\ pc[p] = "parentClose" /\ At(p, "accept")
      /\ Sets(p, client[p], "none") /\ Frees
      /\ client[p] \in Fds \cup {NoFd}
      /\ UNCHANGED <<sock, client, gsock, caught, calls, hit, signals>>
  <2>1. p = Server /\ client[p] \in Fds \cup {NoFd}
    BY DEF IInv, Places, TypeOK, ParentClose
  <2>2. QED  BY <2>1, GoToEffect, CloseEffect DEF IInv, ParentClose, local
<1>2. /\ KernelKnowsHolders' /\ QueueIsExact' /\ HeldAreAccepted'
      /\ OneConnectionEach' /\ ChildrenDisjoint'
  BY <1>1, CloseKeeps
<1>3. Places' /\ EndedHoldNothing'
  BY <1>1 DEF IInv, Places, EndedHoldNothing, Alive, At, Sets
<1>4. ListenerPlaces' /\ HandlerKnowsSocket'
  BY <1>1 DEF IInv, ListenerPlaces, HandlerKnowsSocket, At, Sets
<1>5. ServerTable'
  BY <1>1, NotConnections DEF IInv, ServerTable, At, Sets, Plain
<1>6. ClientIsFresh' /\ ForkingAlone'
  BY <1>1 DEF IInv, ClientIsFresh, ForkingAlone, At, Sets
<1>7. WaitingAreFresh'
  BY <1>1 DEF IInv, WaitingAreFresh, Frees
<1>8. AcceptedAreHeld'
  BY <1>1 DEF Frees
<1>9. ServedByChild'
  BY <1>1, NotConnections DEF IInv, ServedByChild, Places, At, Sets, Plain
<1>10. ParentClosesItsCopy'
  BY <1>1 DEF ParentClosesItsCopy, At
<1>11. DropsAreAccountable'
  <2> SUFFICES ASSUME NEW c \in Conns, conn'[c] = "closed", calls'[c] = 0, ~Excused'
               PROVE  FALSE
    BY DEF DropsAreAccountable
  <2>1. ~Excused
    BY <1>1 DEF Excused, At
  <2>2. conn[c] = "accepted" /\ \A q \in Procs, f \in Fds : fds'[q][f] # c
    BY <1>1, <2>1 DEF IInv, DropsAreAccountable, Frees
  <2>3. Holds(Server, c) /\ \A q \in Children : ~Holds(q, c)
    BY <1>1, <2>2 DEF IInv, AcceptedAreHeld, Holds, Sets
  <2>4. QED  BY <1>1, <2>1, <2>3 DEF IInv, ParentClosesItsCopy
<1>12. QED  BY <1>2, <1>3, <1>4, <1>5, <1>6, <1>7, <1>8, <1>9, <1>10, <1>11 DEF IInv

(* The handler is called for the connection at `client`, the first time.   *)
LEMMA HandlerCall ==
  ASSUME TypeOK, ClientIsFresh, NEW p \in Procs, ChildClose(p), Sets(p, sock[p], "none")
  PROVE  /\ client[p] \in Fds \ {sock[p]} /\ fds[p][client[p]] \in Conns
         /\ fds'[p][client[p]] = fds[p][client[p]]
         /\ calls[fds[p][client[p]]] = 0
         /\ calls' = [calls EXCEPT ![fds[p][client[p]]] = 1]
         /\ \A c \in Conns : calls'[c] = IF c = fds[p][client[p]] THEN 1 ELSE calls[c]
<1>1. /\ client[p] \in Fds \ {sock[p]} /\ fds[p][client[p]] \in Conns
      /\ calls[fds[p][client[p]]] = 0
  BY DEF ClientIsFresh, ChildClose
<1>2. fds'[p][client[p]] = fds[p][client[p]]
  BY <1>1 DEF Sets
<1>3. calls' = [c \in Conns |-> IF fds[p][client[p]] = c THEN calls[c] + 1 ELSE calls[c]]
  BY <1>2 DEF ChildClose
<1> DEFINE c0 == fds[p][client[p]]
<1>4. \A c \in Conns : calls'[c] = IF c = c0 THEN 1 ELSE calls[c]
  BY <1>1, <1>3
<1>5. calls' = [calls EXCEPT ![c0] = 1]
  <2> HIDE DEF c0
  <2>1. calls = [c \in Conns |-> calls[c]] /\ calls' = [c \in Conns |-> calls'[c]]
    BY <1>3 DEF TypeOK
  <2>2. QED  BY <1>4, <2>1
<1>6. QED  BY <1>1, <1>2, <1>4, <1>5

LEMMA ChildCloseStep ==
  ASSUME IInv, TypeOK', NEW p \in Procs, ChildClose(p)
  PROVE  IInv'
<1>1. /\ p \in Children /\ pc[p] = "childClose" /\ At(p, "handler")
      /\ Sets(p, sock[p], "none") /\ Frees
      /\ sock[p] \in Fds
      /\ UNCHANGED <<sock, client, gsock, caught, hit, signals>>
  <2>1. p \in Children /\ sock[p] \in Fds
    BY DEF IInv, Places, TypeOK, ChildClose
  <2>2. QED  BY <2>1, GoToEffect, CloseEffect DEF IInv, ChildClose, local
<1>2. /\ client[p] \in Fds /\ fds[p][client[p]] \in Conns
      /\ calls' = [calls EXCEPT ![fds[p][client[p]]] = 1]
      /\ \A c \in Conns : calls'[c] = IF c = fds[p][client[p]] THEN 1 ELSE calls[c]
  BY <1>1, HandlerCall DEF IInv
<1>3. /\ KernelKnowsHolders' /\ QueueIsExact' /\ HeldAreAccepted'
      /\ OneConnectionEach' /\ ChildrenDisjoint'
  BY <1>1, CloseKeeps
<1>4. Places' /\ EndedHoldNothing'
  BY <1>1 DEF IInv, Places, EndedHoldNothing, Alive, At, Sets
<1>5. ListenerPlaces' /\ HandlerKnowsSocket'
  BY <1>1 DEF IInv, ListenerPlaces, HandlerKnowsSocket, At, Sets
<1>6. ServerTable'
  BY <1>1 DEF IInv, ServerTable, At, Sets
<1>7. ClientIsFresh'
  BY <1>1, <1>2, NotConnections DEF IInv, ClientIsFresh, ChildrenDisjoint, ForkingAlone, Places, At, Sets, Plain
<1>8. ForkingAlone'
  BY <1>1, NotConnections DEF IInv, ForkingAlone, ClientIsFresh, At, Sets, Plain
<1>9. WaitingAreFresh'
  BY <1>1, <1>2 DEF IInv, WaitingAreFresh, HeldAreAccepted, ClientIsFresh, Frees
<1>10. AcceptedAreHeld'
  BY <1>1 DEF Frees
<1>11. ServedByChild'
  BY <1>1, <1>2, NotConnections DEF IInv, ServedByChild, ClientIsFresh, OneConnectionEach, At, Sets, Plain
<1>12. ParentClosesItsCopy'
  <2> SUFFICES ASSUME pc'[Server] = "parentClose", ~Excused',
                      NEW c \in Conns, Holds(Server, c)', calls'[c] = 0
               PROVE  \E q \in Children : Holds(q, c)'
    BY DEF ParentClosesItsCopy
  <2>1. pc[Server] = "parentClose" /\ Holds(Server, c) /\ calls[c] = 0 /\ ~Excused
    BY <1>1, <1>2 DEF At, Sets, Holds, Excused
  <2>2. PICK q \in Children : Holds(q, c)
    BY <2>1 DEF IInv, ParentClosesItsCopy
  <2>3. PICK f \in Fds : fds[q][f] = c
    BY <2>2 DEF Holds
  <2>4. ~(q = p /\ f = sock[p])
    BY <1>1, <1>2, <2>3 DEF IInv, OneConnectionEach, ClientIsFresh
  <2>5. QED  BY <1>1, <2>3, <2>4 DEF Sets, Holds
<1>13. DropsAreAccountable'
  <2> SUFFICES ASSUME NEW c \in Conns, conn'[c] = "closed", calls'[c] = 0, ~Excused'
               PROVE  FALSE
    BY DEF DropsAreAccountable
  <2>1. ~Excused /\ calls[c] = 0
    BY <1>1, <1>2 DEF Excused, At
  <2>2. conn[c] = "accepted" /\ \A q \in Procs, f \in Fds : fds'[q][f] # c
    BY <1>1, <2>1 DEF IInv, DropsAreAccountable, Frees
  <2>3. fds[p][sock[p]] = c
    BY <1>1, <2>2 DEF IInv, AcceptedAreHeld, Holds, Sets
  <2>4. QED  BY <1>1, <1>2, <2>3 DEF IInv, OneConnectionEach, ClientIsFresh
<1>14. QED  BY <1>3, <1>4, <1>5, <1>6, <1>7, <1>8, <1>9, <1>10, <1>11, <1>12, <1>13 DEF IInv

LEMMA HandlerClosesStep ==
  ASSUME IInv, TypeOK', NEW p \in Procs, HandlerCloses(p)
  PROVE  IInv'
<1>1. /\ p \in Children /\ pc[p] = "handler"
      /\ Sets(p, client[p], "none") /\ Frees
      /\ client[p] \in Fds \cup {NoFd}
      /\ UNCHANGED <<pc, sock, client, gsock, caught, calls, hit, signals>>
  <2>1. p \in Children /\ client[p] \in Fds \cup {NoFd}
    BY DEF IInv, Places, TypeOK, HandlerCloses
  <2>2. QED  BY <2>1, CloseEffect DEF IInv, HandlerCloses, local
<1>2. /\ KernelKnowsHolders' /\ QueueIsExact' /\ HeldAreAccepted'
      /\ OneConnectionEach' /\ ChildrenDisjoint'
  BY <1>1, CloseKeeps
<1>3. Places' /\ EndedHoldNothing'
  BY <1>1 DEF IInv, Places, EndedHoldNothing, Alive, Sets
<1>4. ListenerPlaces' /\ HandlerKnowsSocket'
  BY <1>1 DEF IInv, ListenerPlaces, HandlerKnowsSocket, Sets
<1>5. ServerTable'
  BY <1>1 DEF IInv, ServerTable, Sets
<1>6. ClientIsFresh'
  BY <1>1 DEF IInv, ClientIsFresh, Sets
<1>7. ForkingAlone'
  BY <1>1, NotConnections DEF IInv, ForkingAlone, ClientIsFresh, Sets, Plain
<1>8. WaitingAreFresh'
  BY <1>1 DEF IInv, WaitingAreFresh, Frees
<1>9. AcceptedAreHeld'
  BY <1>1 DEF Frees
<1>10. ServedByChild'
  BY <1>1, NotConnections DEF IInv, ServedByChild, Sets, Plain
<1>11. ParentClosesItsCopy'
  <2> SUFFICES ASSUME pc'[Server] = "parentClose", ~Excused',
                      NEW c \in Conns, Holds(Server, c)', calls'[c] = 0
               PROVE  \E q \in Children : Holds(q, c)'
    BY DEF ParentClosesItsCopy
  <2>1. pc[Server] = "parentClose" /\ Holds(Server, c) /\ calls[c] = 0 /\ ~Excused
    BY <1>1 DEF Sets, Holds, Excused
  <2>2. PICK q \in Children : Holds(q, c)
    BY <2>1 DEF IInv, ParentClosesItsCopy
  <2>3. q # p
    BY <1>1, <2>1, <2>2 DEF IInv, ServedByChild, Holds
  <2>4. QED  BY <1>1, <2>2, <2>3 DEF Sets, Holds
<1>12. DropsAreAccountable'
  <2> SUFFICES ASSUME NEW c \in Conns, conn'[c] = "closed", calls'[c] = 0, ~Excused'
               PROVE  FALSE
    BY DEF DropsAreAccountable
  <2>1. ~Excused /\ calls[c] = 0
    BY <1>1 DEF Excused
  <2>2. conn[c] = "accepted" /\ \A q \in Procs, f \in Fds : fds'[q][f] # c
    BY <1>1, <2>1 DEF IInv, DropsAreAccountable, Frees
  <2>3. Holds(p, c)
    BY <1>1, <2>2 DEF IInv, AcceptedAreHeld, Holds, Sets
  <2>4. QED  BY <1>1, <2>1, <2>3 DEF IInv, ServedByChild, Holds
<1>13. QED  BY <1>2, <1>3, <1>4, <1>5, <1>6, <1>7, <1>8, <1>9, <1>10, <1>11, <1>12 DEF IInv

LEMMA CloseResourcesStep ==
  ASSUME IInv, TypeOK', NEW p \in Procs, NEW s \in SignalNames, CloseResources(p, s)
  PROVE  IInv'
<1>1. /\ Sets(p, gsock[p], "none") /\ Frees
      /\ gsock[p] \in Fds /\ caught[p] # {} /\ Alive(p) /\ hit' = hit \cup {p}
      /\ signals' < MaxSignals
      /\ UNCHANGED <<sock, gsock, caught, calls>>
  <2>1. gsock[p] \in Fds /\ caught[p] # {}
    BY DEF IInv, TypeOK, CloseResources
  <2>2. signals' < MaxSignals
    BY DEF IInv, TypeOK, CloseResources
  <2>3. QED  BY <2>1, <2>2, CloseEffect DEF IInv, CloseResources
<1>2. /\ \A q \in Procs : pc'[q] = pc[q] \/ (q = p /\ pc[q] = "accept" /\ pc'[q] = "returned")
      /\ \A q \in Procs : client'[q] = client[q] \/ (q = p /\ pc[q] = "accept")
  <2>1. CASE UNCHANGED <<pc, ret, client>>
    BY <2>1
  <2>2. CASE pc[p] = "accept" /\ client' = [client EXCEPT ![p] = NoFd] /\ Return(p, "ok")
    BY <2>2 DEF IInv, TypeOK, Return, GoTo
  <2>3. QED  BY <2>1, <2>2 DEF CloseResources
<1>3. /\ KernelKnowsHolders' /\ QueueIsExact' /\ HeldAreAccepted'
      /\ OneConnectionEach' /\ ChildrenDisjoint'
  BY <1>1, CloseKeeps
<1>4. Places'
  BY <1>1, <1>2 DEF IInv, Places
<1>5. EndedHoldNothing'
  BY <1>1, <1>2 DEF IInv, EndedHoldNothing, Alive, Sets
<1>6. ListenerPlaces'
  BY <1>1, <1>2 DEF IInv, ListenerPlaces, HandlerKnowsSocket, Sets
<1>7. HandlerKnowsSocket'
  BY <1>1, <1>2 DEF IInv, HandlerKnowsSocket
<1>8. ServerTable'
  BY <1>1, <1>2, NotConnections DEF IInv, ServerTable, Sets, Plain
<1>9. ClientIsFresh'
  BY <1>1, <1>2 DEF IInv, ClientIsFresh, HandlerKnowsSocket, Sets
<1>10. ForkingAlone'
  BY <1>1, <1>2, NotConnections DEF IInv, ForkingAlone, ClientIsFresh, HandlerKnowsSocket, Sets, Plain
<1>11. WaitingAreFresh'
  BY <1>1 DEF IInv, WaitingAreFresh, Frees
<1>12. AcceptedAreHeld'
  BY <1>1 DEF Frees
<1>13. ServedByChild'
  BY <1>1, <1>2, NotConnections DEF IInv, ServedByChild, Sets, Plain
<1>14. ParentClosesItsCopy'
  BY <1>1 DEF ParentClosesItsCopy, Excused
<1>15. DropsAreAccountable'
  BY <1>1 DEF DropsAreAccountable, Excused
<1>16. QED  BY <1>3, <1>4, <1>5, <1>6, <1>7, <1>8, <1>9, <1>10, <1>11, <1>12, <1>13, <1>14, <1>15 DEF IInv

(* A step that neither opens nor closes a descriptor.                      *)
LEMMA QuietTables ==
  ASSUME IInv, UNCHANGED fds,
         \A c \in Conns : conn[c] = "accepted" => conn'[c] = "accepted"
  PROVE  HeldAreAccepted' /\ OneConnectionEach' /\ ChildrenDisjoint'
BY NoNewConnection DEF IInv

LEMMA BindSocketStep ==
  ASSUME IInv, TypeOK', BindSocket
  PROVE  IInv'
<1>1. /\ pc[Server] = "bind" /\ \E l \in {"sigterm", "returned"} : At(Server, l)
      /\ UNCHANGED <<fds, sock, client, gsock, caught, lstate, queue, conn, calls, hit, signals>>
  BY GoToEffect DEF IInv, BindSocket, Return, local, kernel
<1>2. HeldAreAccepted' /\ OneConnectionEach' /\ ChildrenDisjoint'
  BY <1>1, QuietTables
<1>3. KernelKnowsHolders'
  BY <1>1 DEF IInv, KernelKnowsHolders, Holds
<1>4. QueueIsExact'
  BY <1>1 DEF IInv, QueueIsExact
<1>5. Places' /\ EndedHoldNothing'
  BY <1>1 DEF IInv, Places, EndedHoldNothing, Alive, At
<1>6. ListenerPlaces' /\ HandlerKnowsSocket'
  BY <1>1 DEF IInv, ListenerPlaces, HandlerKnowsSocket, At
<1>7. ServerTable'
  BY <1>1 DEF IInv, ServerTable, At, ClientIsFresh
<1>8. ClientIsFresh' /\ ForkingAlone'
  BY <1>1 DEF IInv, ClientIsFresh, ForkingAlone, At
<1>9. WaitingAreFresh'
  BY <1>1 DEF IInv, WaitingAreFresh
<1>10. AcceptedAreHeld'
  BY <1>1 DEF IInv, AcceptedAreHeld, Holds
<1>11. ServedByChild'
  BY <1>1 DEF IInv, ServedByChild, Places, At
<1>12. ParentClosesItsCopy'
  BY <1>1 DEF IInv, ParentClosesItsCopy, Excused, Holds, At
<1>13. DropsAreAccountable'
  BY <1>1 DEF IInv, DropsAreAccountable, Excused, At
<1>14. QED  BY <1>2, <1>3, <1>4, <1>5, <1>6, <1>7, <1>8, <1>9, <1>10, <1>11, <1>12, <1>13 DEF IInv

LEMMA SetSigtermStep ==
  ASSUME IInv, TypeOK', SetSigterm
  PROVE  IInv'
<1>1. /\ pc[Server] = "sigterm" /\ At(Server, "sigint")
      /\ gsock'[Server] = sock[Server] /\ caught'[Server] # {}
      /\ \A p \in Children : gsock'[p] = gsock[p] /\ caught'[p] = caught[p]
      /\ UNCHANGED <<fds, sock, client, lstate, queue, conn, calls, hit, signals>>
  <2>1. /\ gsock'[Server] = sock[Server] /\ caught'[Server] # {}
        /\ \A p \in Children : gsock'[p] = gsock[p] /\ caught'[p] = caught[p]
    BY DEF IInv, TypeOK, SetSigterm
  <2>2. QED  BY <2>1, GoToEffect DEF IInv, SetSigterm, kernel
<1>2. HeldAreAccepted' /\ OneConnectionEach' /\ ChildrenDisjoint'
  BY <1>1, QuietTables
<1>3. KernelKnowsHolders'
  BY <1>1 DEF IInv, KernelKnowsHolders, Holds
<1>4. QueueIsExact'
  BY <1>1 DEF IInv, QueueIsExact
<1>5. Places' /\ EndedHoldNothing'
  BY <1>1 DEF IInv, Places, EndedHoldNothing, Alive, At
<1>6. ListenerPlaces' /\ HandlerKnowsSocket'
  BY <1>1 DEF IInv, ListenerPlaces, HandlerKnowsSocket, At
<1>7. ServerTable'
  BY <1>1 DEF IInv, ServerTable, At
<1>8. ClientIsFresh' /\ ForkingAlone'
  BY <1>1 DEF IInv, ClientIsFresh, ForkingAlone, At
<1>9. WaitingAreFresh'
  BY <1>1 DEF IInv, WaitingAreFresh
<1>10. AcceptedAreHeld'
  BY <1>1 DEF IInv, AcceptedAreHeld, Holds
<1>11. ServedByChild'
  BY <1>1 DEF IInv, ServedByChild, Places, At
<1>12. ParentClosesItsCopy'
  BY <1>1 DEF IInv, ParentClosesItsCopy, Excused, Holds, At
<1>13. DropsAreAccountable'
  BY <1>1 DEF IInv, DropsAreAccountable, Excused, At
<1>14. QED  BY <1>2, <1>3, <1>4, <1>5, <1>6, <1>7, <1>8, <1>9, <1>10, <1>11, <1>12, <1>13 DEF IInv

LEMMA SetSigintStep ==
  ASSUME IInv, TypeOK', SetSigint
  PROVE  IInv'
<1>1. /\ pc[Server] = "sigint" /\ At(Server, "listen") /\ gsock[Server] = sock[Server]
      /\ \A p \in Children : caught'[p] = caught[p]
      /\ UNCHANGED <<fds, sock, client, gsock, lstate, queue, conn, calls, hit, signals>>
  <2>1. gsock[Server] = sock[Server] /\ \A p \in Children : caught'[p] = caught[p]
    BY DEF IInv, TypeOK, SetSigint, HandlerKnowsSocket
  <2>2. QED  BY <2>1, GoToEffect DEF IInv, SetSigint, kernel
<1>2. HeldAreAccepted' /\ OneConnectionEach' /\ ChildrenDisjoint'
  BY <1>1, QuietTables
<1>3. KernelKnowsHolders'
  BY <1>1 DEF IInv, KernelKnowsHolders, Holds
<1>4. QueueIsExact'
  BY <1>1 DEF IInv, QueueIsExact
<1>5. Places' /\ EndedHoldNothing'
  BY <1>1 DEF IInv, Places, EndedHoldNothing, Alive, At
<1>6. ListenerPlaces' /\ HandlerKnowsSocket'
  BY <1>1 DEF IInv, ListenerPlaces, HandlerKnowsSocket, At
<1>7. ServerTable'
  BY <1>1 DEF IInv, ServerTable, At
<1>8. ClientIsFresh' /\ ForkingAlone'
  BY <1>1 DEF IInv, ClientIsFresh, ForkingAlone, At
<1>9. WaitingAreFresh'
  BY <1>1 DEF IInv, WaitingAreFresh
<1>10. AcceptedAreHeld'
  BY <1>1 DEF IInv, AcceptedAreHeld, Holds
<1>11. ServedByChild'
  BY <1>1 DEF IInv, ServedByChild, Places, At
<1>12. ParentClosesItsCopy'
  BY <1>1 DEF IInv, ParentClosesItsCopy, Excused, Holds, At
<1>13. DropsAreAccountable'
  BY <1>1 DEF IInv, DropsAreAccountable, Excused, At
<1>14. QED  BY <1>2, <1>3, <1>4, <1>5, <1>6, <1>7, <1>8, <1>9, <1>10, <1>11, <1>12, <1>13 DEF IInv

LEMMA ListenStep ==
  ASSUME IInv, TypeOK', Listen
  PROVE  IInv'
<1>1. /\ pc[Server] = "listen" /\ At(Server, "accept")
      /\ lstate' = lstate \/ (lstate' = "listening" /\ fds[Server][sock[Server]] = "listener")
      /\ sock[Server] \in Fds
      /\ UNCHANGED <<fds, sock, client, gsock, caught, queue, conn, calls, hit, signals>>
  BY GoToEffect DEF IInv, Listen, local, TypeOK
<1>2. HeldAreAccepted' /\ OneConnectionEach' /\ ChildrenDisjoint'
  BY <1>1, QuietTables
<1>3. KernelKnowsHolders'
  BY <1>1 DEF IInv, KernelKnowsHolders, Holds
<1>4. QueueIsExact'
  BY <1>1 DEF IInv, QueueIsExact
<1>5. Places' /\ EndedHoldNothing'
  BY <1>1 DEF IInv, Places, EndedHoldNothing, Alive, At
<1>6. ListenerPlaces' /\ HandlerKnowsSocket'
  BY <1>1 DEF IInv, ListenerPlaces, HandlerKnowsSocket, At
<1>7. ServerTable'
  BY <1>1 DEF IInv, ServerTable, At
<1>8. ClientIsFresh' /\ ForkingAlone'
  BY <1>1 DEF IInv, ClientIsFresh, ForkingAlone, At
<1>9. WaitingAreFresh'
  BY <1>1 DEF IInv, WaitingAreFresh
<1>10. AcceptedAreHeld'
  BY <1>1 DEF IInv, AcceptedAreHeld, Holds
<1>11. ServedByChild'
  BY <1>1 DEF IInv, ServedByChild, Places, At
<1>12. ParentClosesItsCopy'
  BY <1>1 DEF IInv, ParentClosesItsCopy, Excused, Holds, At
<1>13. DropsAreAccountable'
  BY <1>1 DEF IInv, DropsAreAccountable, Excused, At
<1>14. QED  BY <1>2, <1>3, <1>4, <1>5, <1>6, <1>7, <1>8, <1>9, <1>10, <1>11, <1>12, <1>13 DEF IInv

LEMMA ForkFailsStep ==
  ASSUME IInv, TypeOK', NEW p \in Procs, ForkFails(p)
  PROVE  IInv'
<1>1. /\ p = Server /\ pc[p] = "fork" /\ At(p, "parentClose")
      /\ \A q \in Children : pc[q] # "unused"
      /\ UNCHANGED <<fds, sock, client, gsock, caught, lstate, queue, conn, calls, hit, signals>>
  <2>1. p = Server
    BY DEF IInv, Places, ForkFails
  <2>2. QED  BY <2>1, GoToEffect DEF IInv, ForkFails, local, kernel
<1>2. HeldAreAccepted' /\ OneConnectionEach' /\ ChildrenDisjoint'
  BY <1>1, QuietTables
<1>3. KernelKnowsHolders'
  BY <1>1 DEF IInv, KernelKnowsHolders, Holds
<1>4. QueueIsExact'
  BY <1>1 DEF IInv, QueueIsExact
<1>5. Places' /\ EndedHoldNothing'
  BY <1>1 DEF IInv, Places, EndedHoldNothing, Alive, At
<1>6. ListenerPlaces' /\ HandlerKnowsSocket'
  BY <1>1 DEF IInv, ListenerPlaces, HandlerKnowsSocket, At
<1>7. ServerTable'
  BY <1>1 DEF IInv, ServerTable, At
<1>8. ClientIsFresh' /\ ForkingAlone'
  BY <1>1 DEF IInv, ClientIsFresh, ForkingAlone, At
<1>9. WaitingAreFresh'
  BY <1>1 DEF IInv, WaitingAreFresh
<1>10. AcceptedAreHeld'
  BY <1>1 DEF IInv, AcceptedAreHeld, Holds
<1>11. ServedByChild'
  BY <1>1 DEF IInv, ServedByChild, Places, At
<1>12. ParentClosesItsCopy'
  BY <1>1 DEF IInv, ParentClosesItsCopy, Excused, Holds, At
<1>13. DropsAreAccountable'
  BY <1>1 DEF IInv, DropsAreAccountable, Excused, At
<1>14. QED  BY <1>2, <1>3, <1>4, <1>5, <1>6, <1>7, <1>8, <1>9, <1>10, <1>11, <1>12, <1>13 DEF IInv

LEMMA HandlerReturnsStep ==
  ASSUME IInv, TypeOK', NEW p \in Procs, HandlerReturns(p)
  PROVE  IInv'
<1>1. /\ p \in Children /\ pc[p] = "handler" /\ At(p, "accept")
      /\ UNCHANGED <<fds, sock, client, gsock, caught, lstate, queue, conn, calls, hit, signals>>
  <2>1. p \in Children
    BY DEF IInv, Places, HandlerReturns
  <2>2. QED  BY <2>1, GoToEffect DEF IInv, HandlerReturns, local, kernel
<1>2. HeldAreAccepted' /\ OneConnectionEach' /\ ChildrenDisjoint'
  BY <1>1, QuietTables
<1>3. KernelKnowsHolders'
  BY <1>1 DEF IInv, KernelKnowsHolders, Holds
<1>4. QueueIsExact'
  BY <1>1 DEF IInv, QueueIsExact
<1>5. Places' /\ EndedHoldNothing'
  BY <1>1 DEF IInv, Places, EndedHoldNothing, Alive, At
<1>6. ListenerPlaces' /\ HandlerKnowsSocket'
  BY <1>1 DEF IInv, ListenerPlaces, HandlerKnowsSocket, At
<1>7. ServerTable'
  BY <1>1 DEF IInv, ServerTable, At
<1>8. ClientIsFresh' /\ ForkingAlone'
  BY <1>1 DEF IInv, ClientIsFresh, ForkingAlone, At
<1>9. WaitingAreFresh'
  BY <1>1 DEF IInv, WaitingAreFresh
<1>10. AcceptedAreHeld'
  BY <1>1 DEF IInv, AcceptedAreHeld, Holds
<1>11. ServedByChild'
  BY <1>1 DEF IInv, ServedByChild, Places, At
<1>12. ParentClosesItsCopy'
  BY <1>1 DEF IInv, ParentClosesItsCopy, Excused, Holds, At
<1>13. DropsAreAccountable'
  BY <1>1 DEF IInv, DropsAreAccountable, Excused, At
<1>14. QED  BY <1>2, <1>3, <1>4, <1>5, <1>6, <1>7, <1>8, <1>9, <1>10, <1>11, <1>12, <1>13 DEF IInv

(* The queue after accept().                                               *)
LEMMA HeadIsQueued ==
  ASSUME TypeOK, QueueIsExact, queue # <<>>
  PROVE  Head(queue) \in Conns /\ conn[Head(queue)] = "queued"
BY DEF TypeOK, QueueIsExact

LEMMA TailIsExact ==
  ASSUME TypeOK, QueueIsExact,
         \/ UNCHANGED <<queue, conn>>
         \/ /\ queue # <<>> /\ queue' = Tail(queue)
            /\ \A c \in Conns : c # Head(queue) => conn'[c] = conn[c]
  PROVE  QueueIsExact'
<1>1. CASE UNCHANGED <<queue, conn>>
  BY <1>1 DEF QueueIsExact
<1>2. CASE /\ queue # <<>> /\ queue' = Tail(queue)
           /\ \A c \in Conns : c # Head(queue) => conn'[c] = conn[c]
  <2>1. queue \in Seq(Conns) /\ Len(queue) \in Nat \ {0}
    BY <1>2 DEF TypeOK
  <2>2. /\ Len(queue') = Len(queue) - 1
        /\ \A i \in 1 .. Len(queue') : /\ queue'[i] = queue[i + 1] /\ i + 1 \in 1 .. Len(queue)
                                       /\ queue[i + 1] \in Conns
    BY <1>2, <2>1
  <2>3. Head(queue) = queue[1] /\ 1 \in 1 .. Len(queue)
    BY <2>1
  <2>4. \A i \in 1 .. Len(queue') : queue'[i] # Head(queue)
    BY <2>2, <2>3 DEF QueueIsExact
  <2>5. \A i \in 1 .. Len(queue') : conn'[queue'[i]] = "queued"
    <3>1. \A i \in 1 .. Len(queue') : conn[queue[i + 1]] = "queued"
      BY <2>2 DEF QueueIsExact
    <3>2. ASSUME NEW i \in 1 .. Len(queue')
          PROVE  conn'[queue'[i]] = "queued"
      <4>1. queue'[i] \in Conns /\ queue'[i] # Head(queue)
        BY <2>2, <2>4
      <4>2. conn[queue'[i]] = "queued"
        BY <2>2, <3>1
      <4>3. conn'[queue'[i]] = conn[queue'[i]]
        BY <1>2, <4>1, Zenon
      <4>4. QED  BY <4>2, <4>3, Zenon
    <3>3. QED  BY <3>2, Zenon
  <2>6. \A i, j \in 1 .. Len(queue') : queue'[i] = queue'[j] => i = j
    BY <2>2 DEF QueueIsExact
  <2>7. QED  BY <2>5, <2>6 DEF QueueIsExact
<1>3. QED  BY <1>1, <1>2

LEMMA AcceptFailsStep ==
  ASSUME IInv, TypeOK', NEW p \in Procs, AcceptFails(p)
  PROVE  IInv'
<1>1. /\ pc[p] = "accept" /\ At(p, "returned")
      /\ \A q \in Procs : q # p => client'[q] = client[q]
      /\ UNCHANGED <<fds, sock, gsock, caught, lstate, calls, hit, signals>>
  <2>1. \A q \in Procs : q # p => client'[q] = client[q]
    BY DEF IInv, TypeOK, AcceptFails
  <2>2. QED  BY <2>1, GoToEffect DEF IInv, AcceptFails, Return
<1>2. \/ UNCHANGED <<queue, conn>>
      \/ /\ queue # <<>> /\ queue' = Tail(queue)
         /\ Head(queue) \in Conns /\ conn[Head(queue)] = "queued"
         /\ \A c \in Conns : conn'[c] = IF c = Head(queue) THEN "reset" ELSE conn[c]
  BY HeadIsQueued, QueueType DEF IInv, AcceptFails, TypeOK
<1>3. HeldAreAccepted' /\ OneConnectionEach' /\ ChildrenDisjoint'
  BY <1>1, <1>2, QuietTables
<1>4. KernelKnowsHolders'
  BY <1>1 DEF IInv, KernelKnowsHolders, Holds
<1>5. QueueIsExact'
  BY <1>1, <1>2, TailIsExact DEF IInv
<1>6. Places' /\ EndedHoldNothing'
  BY <1>1 DEF IInv, Places, EndedHoldNothing, Alive, At
<1>7. ListenerPlaces' /\ HandlerKnowsSocket'
  BY <1>1 DEF IInv, ListenerPlaces, HandlerKnowsSocket, At
<1>8. ServerTable'
  BY <1>1 DEF IInv, ServerTable, At
<1>9. ClientIsFresh' /\ ForkingAlone'
  BY <1>1 DEF IInv, ClientIsFresh, ForkingAlone, At
<1>10. WaitingAreFresh'
  BY <1>1, <1>2 DEF IInv, WaitingAreFresh
<1>11. AcceptedAreHeld'
  BY <1>1, <1>2 DEF IInv, AcceptedAreHeld, Holds
<1>12. ServedByChild'
  BY <1>1 DEF IInv, ServedByChild, Places, At
<1>13. ParentClosesItsCopy'
  BY <1>1 DEF IInv, ParentClosesItsCopy, Excused, Holds, At
<1>14. DropsAreAccountable'
  BY <1>1, <1>2 DEF IInv, DropsAreAccountable, Excused, At
<1>15. QED  BY <1>3, <1>4, <1>5, <1>6, <1>7, <1>8, <1>9, <1>10, <1>11, <1>12, <1>13, <1>14 DEF IInv

LEMMA ConnectStep ==
  ASSUME IInv, TypeOK', NEW c \in Conns, Connect(c)
  PROVE  IInv'
<1>1. /\ conn[c] = "idle"
      /\ UNCHANGED <<pc, fds, sock, client, gsock, caught, lstate, calls, hit, signals>>
  BY DEF Connect, local
<1>2. /\ UNCHANGED queue \/ (queue' = Append(queue, c) /\ conn'[c] = "queued")
      /\ \A d \in Conns : d # c => conn'[d] = conn[d]
  BY DEF IInv, TypeOK, Connect
<1>3. HeldAreAccepted' /\ OneConnectionEach' /\ ChildrenDisjoint'
  BY <1>1, <1>2, QuietTables
<1>4. KernelKnowsHolders'
  BY <1>1 DEF IInv, KernelKnowsHolders, Holds
<1>5. QueueIsExact'
  <2>1. CASE UNCHANGED queue
    BY <1>1, <1>2, <2>1 DEF IInv, QueueIsExact, TypeOK
  <2>2. CASE queue' = Append(queue, c) /\ conn'[c] = "queued"
    <3>1. queue \in Seq(Conns) /\ Len(queue) \in Nat
      BY <1>1 DEF IInv, TypeOK
    <3>2. /\ Len(queue') = Len(queue) + 1 /\ queue'[Len(queue) + 1] = c
          /\ \A i \in 1 .. Len(queue) : queue'[i] = queue[i] /\ queue[i] \in Conns
      BY <2>2, <3>1
    <3>3. \A i \in 1 .. Len(queue') : i \in 1 .. Len(queue) \/ i = Len(queue) + 1
      BY <3>1, <3>2
    <3>4. \A i \in 1 .. Len(queue) : conn[queue[i]] = "queued" /\ queue[i] # c
      BY <1>1 DEF IInv, QueueIsExact
    <3>5. \A i \in 1 .. Len(queue') : conn'[queue'[i]] = "queued"
      BY <1>2, <2>2, <3>2, <3>3, <3>4
    <3>6. \A i, j \in 1 .. Len(queue') : queue'[i] = queue'[j] => i = j
      BY <3>2, <3>3, <3>4 DEF IInv, QueueIsExact
    <3>7. QED  BY <3>5, <3>6 DEF QueueIsExact
  <2>3. QED  BY <1>2, <2>1, <2>2
<1>6. Places' /\ EndedHoldNothing'
  BY <1>1 DEF IInv, Places, EndedHoldNothing, Alive
<1>7. ListenerPlaces' /\ HandlerKnowsSocket'
  BY <1>1 DEF IInv, ListenerPlaces, HandlerKnowsSocket
<1>8. ServerTable'
  BY <1>1 DEF IInv, ServerTable
<1>9. ClientIsFresh' /\ ForkingAlone'
  BY <1>1 DEF IInv, ClientIsFresh, ForkingAlone
<1>10. WaitingAreFresh'
  BY <1>1, <1>2 DEF IInv, WaitingAreFresh
<1>11. AcceptedAreHeld'
  <2>1. conn'[c] \in {"queued", "refused"}
    BY DEF IInv, TypeOK, Connect
  <2>2. QED  BY <1>1, <1>2, <2>1 DEF IInv, AcceptedAreHeld, Holds
<1>12. ServedByChild' /\ ParentClosesItsCopy'
  BY <1>1 DEF IInv, ServedByChild, ParentClosesItsCopy, Excused, Holds
<1>13. DropsAreAccountable'
  <2>1. conn'[c] \in {"queued", "refused"}
    BY DEF IInv, TypeOK, Connect
  <2>2. QED  BY <1>1, <1>2, <2>1 DEF IInv, DropsAreAccountable, Excused
<1>14. QED  BY <1>3, <1>4, <1>5, <1>6, <1>7, <1>8, <1>9, <1>10, <1>11, <1>12, <1>13 DEF IInv

LEMMA ExitStep ==
  ASSUME IInv, TypeOK', NEW p \in Procs, Exit(p)
  PROVE  IInv'
<1>1. /\ Empties(p) /\ Frees
      /\ p = Server => pc'[p] = "gone"
      /\ pc'[p] \in {"zombie", "gone"}
      /\ \A q \in Procs \ {p} : pc'[q] = pc[q] \/ (pc[q] = "zombie" /\ pc'[q] = "gone")
      /\ UNCHANGED <<sock, client, gsock, caught, calls, hit, signals>>
      /\ pc[p] \in {"handler", "returned"}
  BY TerminateEffect DEF IInv, Exit, local
<1>2. QED  BY <1>1, EndStep

LEMMA OpenSocketStep ==
  ASSUME IInv, TypeOK', OpenSocket
  PROVE  IInv'
<1>1. /\ pc[Server] = "socket"
      /\ UNCHANGED <<client, gsock, caught, queue, conn, calls, hit, signals>>
  BY DEF OpenSocket
<1>2. \/ \E f \in Fds : /\ fds[Server][f] = "none" /\ Sets(Server, f, "listener")
                        /\ \A q \in Procs : sock'[q] = IF q = Server THEN f ELSE sock[q]
                        /\ At(Server, "bind")
      \/ UNCHANGED <<fds, sock, lstate>> /\ At(Server, "returned")
  <2>1. CASE /\ \E f \in Fds : /\ IsLowestFree(Server, f)
                               /\ fds' = [fds EXCEPT ![Server][f] = "listener"]
                               /\ sock' = [sock EXCEPT ![Server] = f]
             /\ GoTo(Server, "bind")
    <3>1. PICK f \in Fds : /\ fds[Server][f] = "none"
                           /\ fds' = [fds EXCEPT ![Server][f] = "listener"]
                           /\ sock' = [sock EXCEPT ![Server] = f]
      BY <2>1 DEF IsLowestFree
    <3>2. Sets(Server, f, "listener")
      BY <3>1, SetsEffect DEF IInv
    <3>3. \A q \in Procs : sock'[q] = IF q = Server THEN f ELSE sock[q]
      BY <3>1 DEF IInv, TypeOK
    <3>4. QED  BY <2>1, <3>1, <3>2, <3>3, GoToEffect DEF IInv
  <2>2. CASE UNCHANGED <<fds, sock, lstate>> /\ GoTo(Server, "returned")
    BY <2>2, GoToEffect DEF IInv
  <2>3. QED  BY <2>1, <2>2 DEF OpenSocket, Return
<1>3. HeldAreAccepted' /\ OneConnectionEach' /\ ChildrenDisjoint'
  BY <1>1, <1>2, NoNewConnection, NotConnections DEF IInv, Sets, Plain
<1>4. KernelKnowsHolders'
  BY <1>1, <1>2 DEF IInv, KernelKnowsHolders, Holds, Sets
<1>5. QueueIsExact'
  BY <1>1 DEF IInv, QueueIsExact
<1>6. Places' /\ EndedHoldNothing'
  BY <1>1, <1>2 DEF IInv, Places, EndedHoldNothing, Alive, At, Sets
<1>7. ListenerPlaces' /\ HandlerKnowsSocket'
  BY <1>1, <1>2, SMTT(30) DEF IInv, ListenerPlaces, HandlerKnowsSocket, At, Sets, TypeOK
<1>8. ServerTable'
  BY <1>1, <1>2, NotConnections DEF IInv, ServerTable, At, Sets, Plain
<1>9. ClientIsFresh' /\ ForkingAlone'
  BY <1>1, <1>2 DEF IInv, ClientIsFresh, ForkingAlone, At, Sets, Places
<1>10. WaitingAreFresh'
  BY <1>1 DEF IInv, WaitingAreFresh
<1>11. AcceptedAreHeld'
  BY <1>1, <1>2, NotConnections DEF IInv, AcceptedAreHeld, Holds, Sets, Plain
<1>12. ServedByChild' /\ ParentClosesItsCopy'
  BY <1>1, <1>2 DEF IInv, ServedByChild, ParentClosesItsCopy, Sets, At
<1>13. DropsAreAccountable'
  BY <1>1, <1>2 DEF IInv, DropsAreAccountable, Excused, At
<1>14. QED  BY <1>3, <1>4, <1>5, <1>6, <1>7, <1>8, <1>9, <1>10, <1>11, <1>12, <1>13 DEF IInv

LEMMA OpenFileStep ==
  ASSUME IInv, TypeOK', NEW p \in Procs, OpenFile(p)
  PROVE  IInv'
<1>1. /\ pc[p] \in {"handler", "returned"}
      /\ UNCHANGED <<pc, sock, client, gsock, caught, lstate, queue, conn, calls, hit, signals>>
  BY DEF OpenFile, local, kernel
<1>2. \E f \in Fds : fds[p][f] = "none" /\ Sets(p, f, "file")
  <2>1. PICK f \in Fds : fds[p][f] = "none" /\ fds' = [fds EXCEPT ![p][f] = "file"]
    BY DEF OpenFile, IsLowestFree
  <2>2. QED  BY <2>1, SetsEffect DEF IInv
<1>3. HeldAreAccepted' /\ OneConnectionEach' /\ ChildrenDisjoint'
  BY <1>1, <1>2, NoNewConnection, NotConnections DEF IInv, Sets, Plain
<1>4. KernelKnowsHolders'
  BY <1>1, <1>2 DEF IInv, KernelKnowsHolders, Holds, Sets
<1>5. QueueIsExact'
  BY <1>1 DEF IInv, QueueIsExact
<1>6. Places' /\ EndedHoldNothing'
  BY <1>1, <1>2 DEF IInv, Places, EndedHoldNothing, Alive, Sets
<1>7. ListenerPlaces' /\ HandlerKnowsSocket'
  BY <1>1, <1>2 DEF IInv, ListenerPlaces, HandlerKnowsSocket, Sets
<1>8. ServerTable'
  BY <1>1, <1>2, NotConnections DEF IInv, ServerTable, Places, Sets, Plain
<1>9. ClientIsFresh'
  BY <1>1, <1>2 DEF IInv, ClientIsFresh, Sets
<1>10. ForkingAlone'
  BY <1>1, <1>2, NotConnections DEF IInv, ForkingAlone, ClientIsFresh, Sets, Plain
<1>11. WaitingAreFresh'
  BY <1>1 DEF IInv, WaitingAreFresh
<1>12. AcceptedAreHeld'
  BY <1>1, <1>2, NotConnections DEF IInv, AcceptedAreHeld, Holds, Sets, Plain
<1>13. ServedByChild'
  BY <1>1, <1>2, NotConnections DEF IInv, ServedByChild, Sets, Plain
<1>14. ParentClosesItsCopy'
  BY <1>1, <1>2, NotConnections DEF IInv, ParentClosesItsCopy, Excused, Holds, Sets, Plain
<1>15. DropsAreAccountable'
  BY <1>1 DEF IInv, DropsAreAccountable, Excused
<1>16. QED  BY <1>3, <1>4, <1>5, <1>6, <1>7, <1>8, <1>9, <1>10, <1>11, <1>12, <1>13, <1>14, <1>15 DEF IInv

LEMMA AcceptConnectionStep ==
  ASSUME IInv, TypeOK', NEW p \in Procs, AcceptConnection(p)
  PROVE  IInv'
<1>1. /\ pc[p] = "accept" /\ At(p, "fork")
      /\ queue # <<>> /\ queue' = Tail(queue)
      /\ UNCHANGED <<sock, gsock, caught, lstate, calls, hit, signals>>
  BY GoToEffect DEF IInv, AcceptConnection
<1>2. /\ p = Server /\ fds[p][sock[p]] = "listener" /\ sock[p] \in Fds
      /\ Head(queue) \in Conns /\ conn[Head(queue)] = "queued"
  <2>1. fds[p][sock[p]] = "listener" /\ sock[p] \in Fds
    BY DEF IInv, TypeOK, AcceptConnection, CanAccept
  <2>2. p = Server
    BY <1>1, <2>1 DEF IInv, ListenerPlaces
  <2>3. QED  BY <1>1, <2>1, <2>2, HeadIsQueued DEF IInv
<1>3. PICK f \in Fds : /\ fds[p][f] = "none" /\ Sets(p, f, Head(queue))
                       /\ \A q \in Procs : client'[q] = IF q = p THEN f ELSE client[q]
                       /\ \A c \in Conns : conn'[c] = IF c = Head(queue) THEN "accepted" ELSE conn[c]
  <2>1. PICK f \in Fds : /\ fds[p][f] = "none"
                         /\ fds' = [fds EXCEPT ![p][f] = Head(queue)]
                         /\ client' = [client EXCEPT ![p] = f]
    BY DEF AcceptConnection, IsLowestFree
  <2>2. Sets(p, f, Head(queue))
    BY <2>1, SetsEffect DEF IInv
  <2>3. /\ \A q \in Procs : client'[q] = IF q = p THEN f ELSE client[q]
        /\ \A c \in Conns : conn'[c] = IF c = Head(queue) THEN "accepted" ELSE conn[c]
    BY <1>2, <2>1 DEF IInv, TypeOK, AcceptConnection
  <2>4. QED  BY <2>1, <2>2, <2>3
<1>4. KernelKnowsHolders'
  <2>1. fds'[p][sock[p]] = "listener"
    BY <1>2, <1>3 DEF Sets
  <2>2. QED  BY <1>2, <2>1 DEF KernelKnowsHolders, Holds
<1>5. QueueIsExact'
  BY <1>1, <1>3, TailIsExact DEF IInv
<1>6. HeldAreAccepted' /\ OneConnectionEach' /\ ChildrenDisjoint'
  <2>1. \A g \in Fds : fds[Server][g] \notin Conns
    BY <1>1, <1>2, NotConnections DEF IInv, ServerTable, Plain
  <2>2. HeldAreAccepted'
    BY <1>2, <1>3 DEF IInv, HeldAreAccepted, Sets
  <2>3. OneConnectionEach'
    BY <1>2, <1>3, <2>1 DEF IInv, OneConnectionEach, Sets
  <2>4. ChildrenDisjoint'
    BY <1>2, <1>3 DEF IInv, ChildrenDisjoint, Sets
  <2>5. QED  BY <2>2, <2>3, <2>4
<1>7. Places' /\ EndedHoldNothing'
  BY <1>1, <1>2, <1>3 DEF IInv, Places, EndedHoldNothing, Alive, At, Sets
<1>8. ListenerPlaces'
  BY <1>1, <1>2, <1>3, NotConnections DEF IInv, ListenerPlaces, At, Sets, Plain
<1>9. HandlerKnowsSocket'
  BY <1>1, <1>2 DEF IInv, HandlerKnowsSocket, At
<1>10. ServerTable'
  BY <1>1, <1>2, <1>3 DEF IInv, ServerTable, At, Sets
<1>11. ClientIsFresh'
  BY <1>1, <1>2, <1>3, SMTT(30) DEF IInv, ClientIsFresh, WaitingAreFresh, At, Sets
<1>12. ForkingAlone'
  BY <1>1, <1>2, <1>3, SMTT(30) DEF IInv, ForkingAlone, HeldAreAccepted, At, Sets
<1>13. WaitingAreFresh'
  BY <1>1, <1>3 DEF IInv, WaitingAreFresh
<1>14. AcceptedAreHeld'
  BY <1>1, <1>2, <1>3, NotConnections, SMTT(30) DEF IInv, AcceptedAreHeld, Holds, Sets, Plain
<1>15. ServedByChild' /\ ParentClosesItsCopy'
  BY <1>1, <1>2, <1>3 DEF IInv, ServedByChild, ParentClosesItsCopy, Sets, At
<1>16. DropsAreAccountable'
  BY <1>1, <1>2, <1>3 DEF IInv, DropsAreAccountable, Excused, At
<1>17. QED  BY <1>4, <1>5, <1>6, <1>7, <1>8, <1>9, <1>10, <1>11, <1>12, <1>13, <1>14, <1>15, <1>16 DEF IInv

LEMMA ForkChildStep ==
  ASSUME IInv, TypeOK', NEW p \in Procs, ForkChild(p)
  PROVE  IInv'
<1>1. /\ pc[p] = "fork" /\ p = Server
      /\ UNCHANGED <<lstate, queue, conn, calls, hit, signals>>
  BY DEF IInv, Places, ForkChild, kernel
<1>2. PICK k \in Children :
        /\ pc[k] = "unused" /\ k # p
        /\ \A q \in Procs : pc'[q] = IF q = p THEN "parentClose"
                                     ELSE IF q = k THEN "childClose" ELSE pc[q]
        /\ \A q \in Procs : /\ fds'[q] = fds[IF q = k THEN p ELSE q]
                            /\ sock'[q] = sock[IF q = k THEN p ELSE q]
                            /\ client'[q] = client[IF q = k THEN p ELSE q]
                            /\ gsock'[q] = gsock[IF q = k THEN p ELSE q]
                            /\ caught'[q] = caught[IF q = k THEN p ELSE q]
  <2>1. PICK k \in Children :
          /\ pc[k] = "unused"
          /\ pc' = [pc EXCEPT ![p] = "parentClose", ![k] = "childClose"]
          /\ fds' = [fds EXCEPT ![k] = fds[p]]
          /\ sock' = [sock EXCEPT ![k] = sock[p]]
          /\ client' = [client EXCEPT ![k] = client[p]]
          /\ gsock' = [gsock EXCEPT ![k] = gsock[p]]
          /\ caught' = [caught EXCEPT ![k] = caught[p]]
    BY DEF ForkChild
  <2>2. \A q \in Procs : pc'[q] = IF q = p THEN "parentClose"
                                  ELSE IF q = k THEN "childClose" ELSE pc[q]
    BY <1>1, <2>1 DEF IInv, TypeOK
  <2>3. \A q \in Procs : /\ fds'[q] = fds[IF q = k THEN p ELSE q]
                         /\ sock'[q] = sock[IF q = k THEN p ELSE q]
                         /\ client'[q] = client[IF q = k THEN p ELSE q]
    BY <2>1 DEF IInv, TypeOK
  <2>4. \A q \in Procs : /\ gsock'[q] = gsock[IF q = k THEN p ELSE q]
                         /\ caught'[q] = caught[IF q = k THEN p ELSE q]
    BY <2>1 DEF IInv, TypeOK
  <2>5. QED  BY <1>1, <2>1, <2>2, <2>3, <2>4
<1>3. \A f \in Fds : fds[Server][f] \in Conns =>
        \A q \in Children, g \in Fds : fds[q][g] # fds[Server][f]
  BY <1>1, NotConnections DEF IInv, ForkingAlone, ServerTable, Plain
<1>4. KernelKnowsHolders'
  <2>1. \A q \in Procs, f \in Fds : fds[q][f] = "listener" => fds'[q][f] = "listener"
    BY <1>2 DEF IInv, EndedHoldNothing, Alive
  <2>2. QED  BY <1>1, <2>1 DEF IInv, KernelKnowsHolders, Holds
<1>5. QueueIsExact'
  BY <1>1 DEF IInv, QueueIsExact
<1>6. HeldAreAccepted' /\ OneConnectionEach'
  BY <1>1, <1>2 DEF IInv, HeldAreAccepted, OneConnectionEach
<1>7. ChildrenDisjoint'
  BY <1>1, <1>2, <1>3 DEF IInv, ChildrenDisjoint
<1>8. Places' /\ EndedHoldNothing'
  BY <1>1, <1>2 DEF IInv, Places, EndedHoldNothing, Alive
<1>9. ListenerPlaces' /\ HandlerKnowsSocket'
  BY <1>1, <1>2 DEF IInv, ListenerPlaces, HandlerKnowsSocket
<1>10. ServerTable'
  BY <1>1, <1>2 DEF IInv, ServerTable
<1>11. ClientIsFresh'
  BY <1>1, <1>2 DEF IInv, ClientIsFresh
<1>12. ForkingAlone'
  BY <1>1, <1>2 DEF ForkingAlone
<1>13. WaitingAreFresh'
  BY <1>1 DEF IInv, WaitingAreFresh
<1>14. AcceptedAreHeld'
  <2>1. \A q \in Procs, f \in Fds : fds[q][f] \in Conns => fds'[q][f] = fds[q][f]
    BY <1>2, NotConnections DEF IInv, EndedHoldNothing, Alive, Plain
  <2>2. QED  BY <1>1, <2>1 DEF IInv, AcceptedAreHeld, Holds
<1>15. ServedByChild'
  BY <1>1, <1>2 DEF IInv, ServedByChild
<1>16. ParentClosesItsCopy'
  BY <1>1, <1>2 DEF ParentClosesItsCopy, Holds
<1>17. DropsAreAccountable'
  BY <1>1, <1>2 DEF IInv, DropsAreAccountable, Excused
<1>18. QED  BY <1>4, <1>5, <1>6, <1>7, <1>8, <1>9, <1>10, <1>11, <1>12, <1>13, <1>14, <1>15, <1>16, <1>17 DEF IInv

LEMMA StutterStep == ASSUME IInv, TypeOK', UNCHANGED vars PROVE IInv'
<1>1. UNCHANGED <<pc, fds, sock, client, gsock, caught, lstate, queue, conn, calls, hit, signals>>
  BY DEF vars
<1>2. HeldAreAccepted' /\ OneConnectionEach' /\ ChildrenDisjoint'
  BY <1>1 DEF IInv, HeldAreAccepted, OneConnectionEach, ChildrenDisjoint
<1>3. Places' /\ EndedHoldNothing' /\ QueueIsExact'
  BY <1>1 DEF IInv, Places, EndedHoldNothing, Alive, QueueIsExact
<1>4. ListenerPlaces' /\ HandlerKnowsSocket' /\ KernelKnowsHolders'
  BY <1>1 DEF IInv, ListenerPlaces, HandlerKnowsSocket, KernelKnowsHolders, Holds
<1>5. ServerTable' /\ ClientIsFresh' /\ ForkingAlone' /\ WaitingAreFresh'
  BY <1>1 DEF IInv, ServerTable, ClientIsFresh, ForkingAlone, WaitingAreFresh
<1>6. AcceptedAreHeld' /\ ServedByChild' /\ ParentClosesItsCopy' /\ DropsAreAccountable'
  BY <1>1 DEF IInv, AcceptedAreHeld, ServedByChild, ParentClosesItsCopy, DropsAreAccountable,
              Excused, Holds
<1>7. QED  BY <1>2, <1>3, <1>4, <1>5, <1>6 DEF IInv

LEMMA IInvInit == Init => IInv
<1> SUFFICES ASSUME Init PROVE IInv
  OBVIOUS
<1>1. TypeOK
  BY DEF Init, TypeOK, Locations, Results, Objects, Plain
<1>2. \A p \in Procs, f \in Fds : fds[p][f] \in {"none", "std"} /\ (fds[p][f] # "none" => p = Server /\ f = 0)
  BY DEF Init
<1>3. \A p \in Procs, f \in Fds : fds[p][f] \notin Conns /\ fds[p][f] # "listener"
  BY <1>2, NotConnections DEF Plain
<1>4. Places /\ EndedHoldNothing
  BY <1>2 DEF Init, Places, EndedHoldNothing, Alive
<1>5. ListenerPlaces /\ HandlerKnowsSocket /\ KernelKnowsHolders
  BY <1>3 DEF Init, ListenerPlaces, HandlerKnowsSocket, KernelKnowsHolders
<1>6. QueueIsExact /\ WaitingAreFresh
  BY DEF Init, QueueIsExact, WaitingAreFresh
<1>7. HeldAreAccepted /\ OneConnectionEach /\ ChildrenDisjoint
  BY <1>3 DEF HeldAreAccepted, OneConnectionEach, ChildrenDisjoint
<1>8. ServerTable /\ ClientIsFresh /\ ForkingAlone
  BY <1>2, <1>3 DEF Init, ServerTable, ClientIsFresh, ForkingAlone
<1>9. AcceptedAreHeld /\ ServedByChild /\ ParentClosesItsCopy /\ DropsAreAccountable
  BY <1>3 DEF Init, AcceptedAreHeld, ServedByChild, ParentClosesItsCopy, DropsAreAccountable
<1>10. QED  BY <1>1, <1>4, <1>5, <1>6, <1>7, <1>8, <1>9 DEF IInv

LEMMA IInvStep == IInv /\ [Next]_vars => IInv'
<1> SUFFICES ASSUME IInv, [Next]_vars PROVE IInv'
  OBVIOUS
<1>1. TypeOK'
  BY TypeStep DEF IInv
<1>2. CASE Start
  BY <1>1, <1>2, OpenSocketStep, BindSocketStep, SetSigtermStep, SetSigintStep, ListenStep DEF Start
<1>3. ASSUME NEW p \in Procs, Loop(p) PROVE IInv'
  BY <1>1, <1>3, AcceptConnectionStep, AcceptFailsStep, ForkChildStep, ForkFailsStep,
     ParentCloseStep, ChildCloseStep DEF Loop
<1>4. ASSUME NEW p \in Procs, Application(p) PROVE IInv'
  BY <1>1, <1>4, OpenFileStep, HandlerClosesStep, HandlerReturnsStep, ExitStep DEF Application
<1>5. CASE Environment
  BY <1>1, <1>5, ConnectStep, KillStep, CloseResourcesStep DEF Environment
<1>6. CASE UNCHANGED vars
  BY <1>1, <1>6, StutterStep
<1>7. QED  BY <1>2, <1>3, <1>4, <1>5, <1>6 DEF Next

THEOREM Invariance == Spec => []IInv
BY IInvInit, IInvStep, PTL DEF Spec

-----------------------------------------------------------------------------
(* The properties.                                                         *)

(* A connection is never open in two children, nor two in one child.       *)
THEOREM Isolation == Spec => []ChildIsolation
<1>1. IInv => ChildIsolation
  BY DEF IInv, ChildIsolation, ChildrenDisjoint, OneConnectionEach, Holds
<1>2. QED  BY <1>1, Invariance, PTL

(* After a caught signal, or the end of the server, nobody has the server  *)
(* socket open as soon as no child stands between fork() and               *)
(* close(socket).  Of accepted connections, which hold the local port too, *)
(* it says nothing.                                                        *)
THEOREM ServerSocketIsClosed == Spec => []ServerSocketCloses
<1>1. IInv => ServerSocketCloses
  BY DEF IInv, ServerSocketCloses, KernelKnowsHolders, ListenerPlaces, EndedHoldNothing, Holds, TypeOK
<1>2. QED  BY <1>1, Invariance, PTL

(* A peer that was accepted and not served was the victim of a full        *)
(* process table or of a signal.                                           *)
THEOREM DropsHaveACause == Spec => []DropsAreAccountable
<1>1. IInv => DropsAreAccountable
  BY DEF IInv
<1>2. QED  BY <1>1, Invariance, PTL

(* A server in accept() has only its socket and standard input open.       *)
THEOREM DescriptorsDoNotLeak == Spec => []ServerKeepsDescriptors
<1>1. IInv => ServerKeepsDescriptors
  BY DEF IInv, ServerKeepsDescriptors, ServerTable
<1>2. QED  BY <1>1, Invariance, PTL

LEMMA OnlyChildCloseCalls ==
  ASSUME TypeOK, Places, KernelKnowsHolders, [Next]_vars,
         NEW p \in Procs, pc[p] = "childClose", pc'[p] = "handler"
  PROVE  ChildClose(p)
<1>1. CASE Start
  BY <1>1 DEF Start, OpenSocket, BindSocket, SetSigterm, SetSigint, Listen, Return, GoTo, TypeOK
<1>2. ASSUME NEW q \in Procs, Loop(q) PROVE ChildClose(p)
  <2>1. CASE AcceptConnection(q)
    BY <2>1, GoToEffect DEF AcceptConnection, At
  <2>2. CASE AcceptFails(q)
    BY <2>2, GoToEffect DEF AcceptFails, Return, At
  <2>3. CASE ForkChild(q)
    BY <2>3 DEF ForkChild, TypeOK
  <2>4. CASE ForkFails(q)
    BY <2>4, GoToEffect DEF ForkFails, At
  <2>5. CASE ParentClose(q)
    BY <2>5, GoToEffect DEF ParentClose, At
  <2>6. CASE ChildClose(q)
    BY <2>6, GoToEffect DEF ChildClose, At
  <2>7. QED  BY <1>2, <2>1, <2>2, <2>3, <2>4, <2>5, <2>6 DEF Loop
<1>3. ASSUME NEW q \in Procs, Application(q) PROVE ChildClose(p)
  <2>1. CASE OpenFile(q) \/ HandlerCloses(q)
    BY <2>1 DEF OpenFile, HandlerCloses
  <2>2. CASE HandlerReturns(q)
    BY <2>2, GoToEffect DEF HandlerReturns, At
  <2>3. CASE Exit(q)
    BY <2>3, TerminateEffect DEF Exit
  <2>4. QED  BY <1>3, <2>1, <2>2, <2>3 DEF Application
<1>4. ASSUME NEW c \in Conns, Connect(c) PROVE ChildClose(p)
  BY <1>4 DEF Connect
<1>5. ASSUME NEW q \in Procs, NEW s \in SignalNames, Kill(q, s) PROVE ChildClose(p)
  BY <1>5, TerminateEffect DEF Kill
<1>6. ASSUME NEW q \in Procs, NEW s \in SignalNames, CloseResources(q, s) PROVE ChildClose(p)
  BY <1>6, GoToEffect DEF CloseResources, Return, At
<1>7. CASE UNCHANGED vars
  BY <1>7 DEF vars
<1>8. QED  BY <1>1, <1>2, <1>3, <1>4, <1>5, <1>6, <1>7 DEF Next, Environment

(* The handler gets every connection at most once, and open.               *)
THEOREM HandlerCalledOnce == Spec => HandlerGetsFreshConnection
<1>1. ASSUME IInv, [Next]_vars, NEW p \in Procs, pc[p] = "childClose", pc'[p] = "handler"
      PROVE  \E c \in Conns : /\ Holds(p, c) /\ calls[c] = 0
                              /\ calls' = [calls EXCEPT ![c] = 1]
  <2>1. ChildClose(p)
    BY <1>1, OnlyChildCloseCalls DEF IInv
  <2>2. Sets(p, sock[p], "none")
    <3>1. sock[p] \in Fds
      BY <1>1 DEF IInv, TypeOK
    <3>2. QED  BY <1>1, <2>1, <3>1, CloseEffect DEF IInv, ChildClose
  <2>3. QED  BY <1>1, <2>1, <2>2, HandlerCall DEF IInv, Holds
<1>2. IInv /\ [Next]_vars =>
        [\A p \in Procs : pc[p] = "childClose" /\ pc'[p] = "handler" =>
           \E c \in Conns : /\ Holds(p, c)
                            /\ calls[c] = 0
                            /\ calls' = [calls EXCEPT ![c] = 1]]_vars
  BY <1>1
<1>3. QED  BY <1>2, Invariance, PTL DEF Spec, HandlerGetsFreshConnection

-----------------------------------------------------------------------------
(* The server implements the service.                                      *)

(* What ConnectionService sees: the arguments of its INSTANCE.             *)
StatusOf(c) ==
  CASE conn[c] = "queued" -> "waiting"
    [] conn[c] = "accepted" -> IF calls[c] = 0 THEN "accepted" ELSE "serving"
    [] conn[c] = "closed" -> IF calls[c] = 0 THEN "dropped" ELSE "done"
    [] OTHER -> conn[c]

PhaseNow == CASE lstate = "listening" -> "open"
              [] lstate = "closed" -> "over"
              [] OTHER -> "new"

(* What IInv does not say of the server socket: it is not there before     *)
(* socket() is called, and is not closed while a process has it.           *)
SocketIsLive ==
  /\ pc[Server] = "socket" => lstate = "none"
  /\ \A p \in Procs : Holds(p, "listener") => lstate \in {"open", "listening"}

ServiceStep == [Service!Next]_(Service!vars)

(* Descriptors were closed, and with the last one the server socket.       *)
Closing(freed) ==
  /\ freed => lstate # "none"
  /\ lstate' = IF freed THEN "closed" ELSE lstate
  /\ queue' = IF freed THEN <<>> ELSE queue
  /\ \A c \in Conns :
       \/ conn'[c] = IF freed /\ conn[c] = "queued" THEN "reset" ELSE conn[c]
       \/ /\ conn[c] = "accepted" /\ conn'[c] = "closed"
          /\ \A q \in Procs, f \in Fds : fds'[q][f] # c
  /\ freed => \A q \in Procs, f \in Fds : fds'[q][f] # "listener"

LEMMA ReleaseIsClosing ==
  ASSUME TypeOK, NEW tables \in [Procs -> [Fds -> Objects]], Release(tables)
  PROVE  fds' = tables /\ \E freed \in BOOLEAN : Closing(freed)
<1> DEFINE freed == lstate # "none" /\ Holders("listener", tables) = {}
<1>1. fds' = tables /\ freed \in BOOLEAN
  BY DEF Release
<1>2. freed => \A q \in Procs, f \in Fds : fds'[q][f] # "listener"
  BY <1>1 DEF Holders
<1>3. \A c \in Conns :
        \/ conn'[c] = IF freed /\ conn[c] = "queued" THEN "reset" ELSE conn[c]
        \/ /\ conn[c] = "accepted" /\ conn'[c] = "closed"
           /\ \A q \in Procs, f \in Fds : fds'[q][f] # c
  BY <1>1 DEF Release, Holders
<1>4. Closing(freed)
  BY <1>2, <1>3 DEF Release, Closing
<1> QED
  BY <1>1, <1>4

LEMMA CloseIsClosing ==
  ASSUME TypeOK, NEW p \in Procs, NEW fd \in Fds \cup {NoFd}, Close(p, fd)
  PROVE  Sets(p, fd, "none") /\ \E freed \in BOOLEAN : Closing(freed)
<1> DEFINE tables == [fds EXCEPT ![p][fd] = "none"]
<1>1. tables \in [Procs -> [Fds -> Objects]]
  BY DEF TypeOK, Objects, Plain
<1>2. Release(tables)
  BY DEF Close
<1>3. fds' = tables /\ \E freed \in BOOLEAN : Closing(freed)
  <2> HIDE DEF tables
  <2> QED  BY <1>1, <1>2, ReleaseIsClosing
<1> QED
  BY <1>3, SetsEffect

LEMMA TerminateIsClosing ==
  ASSUME TypeOK, NEW p \in Procs, Terminate(p)
  PROVE  Empties(p) /\ \E freed \in BOOLEAN : Closing(freed)
<1> DEFINE tables == [fds EXCEPT ![p] = [f \in Fds |-> "none"]]
<1>1. tables \in [Procs -> [Fds -> Objects]]
  BY DEF TypeOK, Objects, Plain
<1>2. \A q \in Procs, f \in Fds : tables[q][f] = IF q = p THEN "none" ELSE fds[q][f]
  BY DEF TypeOK
<1>3. Release(tables)
  BY DEF Terminate
<1>4. fds' = tables /\ \E freed \in BOOLEAN : Closing(freed)
  <2> HIDE DEF tables
  <2> QED  BY <1>1, <1>3, ReleaseIsClosing
<1>5. Empties(p)
  <2> HIDE DEF tables
  <2> QED  BY <1>2, <1>4 DEF Empties
<1> QED
  BY <1>4, <1>5

(* The steps of the service, said of what it sees.                         *)
LEMMA MovesIs ==
  ASSUME NEW c \in Conns, NEW from, NEW to, NEW stop \in BOOLEAN,
         StatusOf(c) = from,
         \A d \in Conns : StatusOf(d)' = IF d = c THEN to
                                         ELSE IF stop /\ StatusOf(d) = "waiting"
                                         THEN "reset" ELSE StatusOf(d),
         queue' = IF stop THEN <<>> ELSE queue,
         PhaseNow' = IF stop THEN "over" ELSE PhaseNow
  PROVE  Service!Moves(c, from, to, stop)
BY DEF Service!Moves, StatusOf, PhaseNow

LEMMA NothingIsSeen ==
  ASSUME \A c \in Conns : StatusOf(c)' = StatusOf(c), queue' = queue,
         PhaseNow' = PhaseNow
  PROVE  ServiceStep
BY DEF ServiceStep, Service!vars, StatusOf, PhaseNow

(* Where a single process loses descriptors, a single connection ends: a   *)
(* process has one at most.                                                *)
LEMMA OneEnds ==
  ASSUME IInv, NEW p \in Procs,
         \A q \in Procs, f \in Fds : q # p => fds'[q][f] = fds[q][f],
         NEW c \in Conns, conn[c] = "accepted", \A q \in Procs, f \in Fds : fds'[q][f] # c,
         NEW d \in Conns, conn[d] = "accepted", \A q \in Procs, f \in Fds : fds'[q][f] # d
  PROVE  c = d
<1>1. /\ \E f \in Fds : fds[p][f] = c
      /\ \E f \in Fds : fds[p][f] = d
  BY DEF IInv, AcceptedAreHeld, Holds
<1> QED
  BY <1>1 DEF IInv, OneConnectionEach

LEMMA ClosingStep ==
  ASSUME IInv, NEW p \in Procs, NEW freed \in BOOLEAN, Closing(freed),
         \A q \in Procs, f \in Fds : q # p => fds'[q][f] = fds[q][f],
         calls' = calls
  PROVE  ServiceStep
<1>1. /\ queue' = IF freed THEN <<>> ELSE queue
      /\ PhaseNow' = IF freed THEN "over" ELSE PhaseNow
  BY DEF Closing, PhaseNow
<1> DEFINE Ends(c) == conn[c] = "accepted" /\ conn'[c] = "closed"
           Kept(c) == IF freed /\ StatusOf(c) = "waiting" THEN "reset" ELSE StatusOf(c)
<1>2. ASSUME NEW c \in Conns, ~Ends(c)
      PROVE  StatusOf(c)' = Kept(c)
  <2>1. conn'[c] = IF freed /\ conn[c] = "queued" THEN "reset" ELSE conn[c]
    BY <1>2 DEF Closing
  <2>2. conn[c] \in {"idle", "queued", "accepted", "closed", "reset", "refused"}
    BY DEF IInv, TypeOK
  <2> QED
    BY <2>1, <2>2 DEF StatusOf
<1>3. ASSUME NEW c \in Conns, Ends(c)
      PROVE  ServiceStep
  <2>1. \A d \in Conns : d # c => ~Ends(d)
    <3> SUFFICES ASSUME NEW d \in Conns, d # c, Ends(d)
                 PROVE  FALSE
      OBVIOUS
    <3>1. /\ \A q \in Procs, f \in Fds : fds'[q][f] # c
          /\ \A q \in Procs, f \in Fds : fds'[q][f] # d
      BY <1>3 DEF Closing
    <3> QED
      BY <1>3, <3>1, OneEnds
  <2>2. CASE calls[c] = 0
    <3>1. StatusOf(c) = "accepted" /\ StatusOf(c)' = "dropped"
      BY <1>3, <2>2 DEF StatusOf
    <3>2. \A d \in Conns : StatusOf(d)' = IF d = c THEN "dropped" ELSE Kept(d)
      BY <1>2, <2>1, <3>1
    <3>3. Service!Moves(c, "accepted", "dropped", freed)
      BY <1>1, <3>1, <3>2, MovesIs
    <3> QED
      BY <3>3 DEF ServiceStep, Service!Next, Service!Drop
  <2>3. CASE calls[c] # 0
    <3>1. StatusOf(c) = "serving" /\ StatusOf(c)' = "done"
      BY <1>3, <2>3 DEF StatusOf
    <3>2. \A d \in Conns : StatusOf(d)' = IF d = c THEN "done" ELSE Kept(d)
      BY <1>2, <2>1, <3>1
    <3>3. Service!Moves(c, "serving", "done", freed)
      BY <1>1, <3>1, <3>2, MovesIs
    <3> QED
      BY <3>3 DEF ServiceStep, Service!Next, Service!Finish
  <2> QED
    BY <2>2, <2>3
<1>4. CASE \A c \in Conns : ~Ends(c)
  <2>1. \A c \in Conns : StatusOf(c)' = Kept(c)
    BY <1>2, <1>4
  <2>2. CASE freed
    <3>1. Service!Stop
      BY <1>1, <2>1, <2>2 DEF Service!Stop, StatusOf, PhaseNow
    <3> QED
      BY <3>1 DEF ServiceStep, Service!Next
  <2>3. CASE ~freed
    BY <1>1, <2>1, <2>3, NothingIsSeen
  <2> QED
    BY <2>2, <2>3
<1> QED
  BY <1>3, <1>4

(* accept() takes the first of the backlog.                                *)
LEMMA AcceptIs ==
  ASSUME IInv, queue # <<>>, queue' = Tail(queue), NEW s \in {"accepted", "reset"},
         conn' = [conn EXCEPT ![Head(queue)] = s], UNCHANGED <<lstate, calls>>
  PROVE  ServiceStep
<1> DEFINE h == Head(queue)
<1>1. h \in Conns /\ conn[h] = "queued" /\ calls[h] = 0
  BY QueueType, HeadIsQueued DEF IInv, WaitingAreFresh
<1>2. conn \in [Conns -> {"idle", "queued", "accepted", "closed", "reset", "refused"}]
  BY DEF IInv, TypeOK
<1> HIDE DEF h
<1>3. \A d \in Conns : conn'[d] = IF d = h THEN s ELSE conn[d]
  BY <1>2 DEF h
<1>4. \A d \in Conns : StatusOf(d)' = IF d = h THEN s ELSE StatusOf(d)
  BY <1>1, <1>3 DEF StatusOf
<1> DEFINE before == [c \in Conns |-> StatusOf(c)]
<1>5. before' = [before EXCEPT ![h] = s]
  BY <1>1, <1>4
<1>6. PhaseNow' = PhaseNow
  BY DEF PhaseNow
<1>7. Service!Accept
  BY <1>5, <1>6 DEF Service!Accept, StatusOf, PhaseNow, h
<1> QED
  BY <1>7 DEF ServiceStep, Service!Next

LEMMA ChildCloseServes ==
  ASSUME IInv, NEW p \in Procs, ChildClose(p)
  PROVE  ServiceStep
<1>1. /\ Sets(p, sock[p], "none") /\ sock[p] \in Fds
      /\ \E freed \in BOOLEAN : Closing(freed)
  BY CloseIsClosing DEF IInv, TypeOK, ChildClose
<1>2. PICK freed \in BOOLEAN : Closing(freed)
  BY <1>1
<1> DEFINE c == fds[p][client[p]]
<1>3. /\ client[p] \in Fds \ {sock[p]} /\ c \in Conns /\ calls[c] = 0
      /\ fds'[p][client[p]] = c
      /\ \A d \in Conns : calls'[d] = IF d = c THEN 1 ELSE calls[d]
  BY <1>1, HandlerCall DEF IInv
<1>4. conn[c] = "accepted"
  BY <1>3 DEF IInv, HeldAreAccepted
<1>5. ASSUME NEW d \in Conns, conn[d] = "accepted"
      PROVE  \E q \in Procs, f \in Fds : fds'[q][f] = d
  <2>1. PICK q \in Procs, f \in Fds : fds[q][f] = d
    BY <1>5 DEF IInv, AcceptedAreHeld, Holds
  <2>2. CASE q = p /\ f = sock[p]
    BY <1>3, <2>1, <2>2 DEF IInv, OneConnectionEach
  <2>3. CASE ~(q = p /\ f = sock[p])
    BY <1>1, <2>1, <2>3 DEF Sets
  <2> QED
    BY <2>2, <2>3
<1>6. \A d \in Conns :
        conn'[d] = IF freed /\ conn[d] = "queued" THEN "reset" ELSE conn[d]
  BY <1>2, <1>5 DEF Closing
<1>7. /\ queue' = IF freed THEN <<>> ELSE queue
      /\ PhaseNow' = IF freed THEN "over" ELSE PhaseNow
  BY <1>2 DEF Closing, PhaseNow
<1>8. \A d \in Conns : conn[d] \in {"idle", "queued", "accepted", "closed", "reset", "refused"}
  BY DEF IInv, TypeOK
<1> HIDE DEF c
<1>9. StatusOf(c) = "accepted"
  BY <1>3, <1>4 DEF StatusOf
<1>10. \A d \in Conns :
         StatusOf(d)' = IF d = c THEN "serving"
                        ELSE IF freed /\ StatusOf(d) = "waiting" THEN "reset"
                        ELSE StatusOf(d)
  BY <1>3, <1>4, <1>6, <1>8 DEF StatusOf
<1>11. Service!Moves(c, "accepted", "serving", freed)
  BY <1>3, <1>7, <1>9, <1>10, MovesIs
<1> QED
  BY <1>3, <1>11 DEF ServiceStep, Service!Next, Service!Serve

LEMMA ConnectShows ==
  ASSUME IInv, NEW c \in Conns, Connect(c)
  PROVE  ServiceStep
<1>1. /\ conn[c] = "idle" /\ UNCHANGED <<lstate, calls>>
      /\ conn \in [Conns -> {"idle", "queued", "accepted", "closed", "reset", "refused"}]
  BY DEF Connect, IInv, TypeOK
<1>2. CASE lstate = "listening"
  <2>1. /\ Len(queue) < Backlog /\ queue' = Append(queue, c)
        /\ \A d \in Conns : conn'[d] = IF d = c THEN "queued" ELSE conn[d]
    BY <1>1, <1>2 DEF Connect
  <2>2. /\ StatusOf(c) = "idle" /\ PhaseNow = "open" /\ PhaseNow' = PhaseNow
        /\ \A d \in Conns : StatusOf(d)' = IF d = c THEN "waiting" ELSE StatusOf(d)
    BY <1>1, <1>2, <2>1 DEF StatusOf, PhaseNow
  <2>3. Service!Arrive(c)
    BY <2>1, <2>2 DEF Service!Arrive, StatusOf, PhaseNow
  <2> QED
    BY <2>3 DEF ServiceStep, Service!Next
<1>3. CASE lstate # "listening"
  <2>1. queue' = queue /\ \A d \in Conns : conn'[d] = IF d = c THEN "refused" ELSE conn[d]
    BY <1>1, <1>3 DEF Connect
  <2>2. /\ StatusOf(c) = "idle" /\ PhaseNow # "open" /\ PhaseNow' = PhaseNow
        /\ \A d \in Conns : StatusOf(d)' = IF d = c THEN "refused" ELSE StatusOf(d)
    BY <1>1, <1>3, <2>1 DEF StatusOf, PhaseNow
  <2>3. Service!Moves(c, "idle", "refused", FALSE)
    BY <2>1, <2>2, MovesIs
  <2>4. Service!Refuse(c)
    BY <2>2, <2>3 DEF Service!Refuse, PhaseNow
  <2> QED
    BY <2>4 DEF ServiceStep, Service!Next
<1> QED
  BY <1>2, <1>3

LEMMA QuietIsUnseen ==
  ASSUME UNCHANGED <<lstate, queue, conn, calls>>
  PROVE  ServiceStep
BY NothingIsSeen DEF StatusOf, PhaseNow

LEMMA ListenOpens ==
  ASSUME IInv, SocketIsLive, Listen
  PROVE  ServiceStep
<1>1. UNCHANGED <<queue, conn, calls>>
  BY DEF Listen
<1>2. CASE lstate' = lstate
  BY <1>1, <1>2, QuietIsUnseen
<1>3. CASE lstate' # lstate
  <2>1. lstate' = "listening" /\ Holds(Server, "listener")
    BY <1>3 DEF Listen, Holds, IInv, TypeOK
  <2>2. lstate = "open"
    BY <1>3, <2>1 DEF SocketIsLive
  <2>3. PhaseNow = "new" /\ PhaseNow' = "open"
    BY <2>1, <2>2 DEF PhaseNow
  <2>4. \A c \in Conns : StatusOf(c)' = StatusOf(c)
    BY <1>1 DEF StatusOf
  <2>5. Service!Open
    BY <1>1, <2>3, <2>4 DEF Service!Open, PhaseNow, StatusOf
  <2> QED
    BY <2>5 DEF ServiceStep, Service!Next
<1> QED
  BY <1>2, <1>3

(* Every step of the server is a step of the service or none.              *)
LEMMA ServiceSimulated ==
  ASSUME IInv, SocketIsLive, [Next]_vars
  PROVE  ServiceStep
<1> USE DEF kernel
<1>1. CASE OpenSocket
  <2>1. UNCHANGED <<queue, conn, calls>> /\ (lstate' = lstate \/ lstate' = "open")
    BY <1>1 DEF OpenSocket
  <2>2. lstate = "none"
    BY <1>1 DEF OpenSocket, SocketIsLive
  <2>3. PhaseNow' = PhaseNow /\ \A c \in Conns : StatusOf(c)' = StatusOf(c)
    BY <2>1, <2>2 DEF PhaseNow, StatusOf
  <2> QED
    BY <2>1, <2>3, NothingIsSeen
<1>2. CASE BindSocket \/ SetSigterm \/ SetSigint
  BY <1>2, QuietIsUnseen DEF BindSocket, SetSigterm, SetSigint
<1>3. CASE Listen
  BY <1>3, ListenOpens
<1>4. ASSUME NEW p \in Procs, Loop(p)
      PROVE  ServiceStep
  <2>1. CASE AcceptConnection(p)
    <3>1. /\ queue # <<>> /\ queue' = Tail(queue) /\ UNCHANGED <<lstate, calls>>
          /\ conn' = [conn EXCEPT ![Head(queue)] = "accepted"]
      BY <2>1 DEF AcceptConnection
    <3> QED
      BY <3>1, AcceptIs
  <2>2. CASE AcceptFails(p)
    <3>1. CASE UNCHANGED <<queue, conn>>
      BY <2>2, <3>1, QuietIsUnseen DEF AcceptFails
    <3>2. CASE ~UNCHANGED <<queue, conn>>
      <4>1. /\ queue # <<>> /\ queue' = Tail(queue) /\ UNCHANGED <<lstate, calls>>
            /\ conn' = [conn EXCEPT ![Head(queue)] = "reset"]
        BY <2>2, <3>2 DEF AcceptFails
      <4> QED
        BY <4>1, AcceptIs
    <3> QED
      BY <3>1, <3>2
  <2>3. CASE ForkChild(p) \/ ForkFails(p)
    BY <2>3, QuietIsUnseen DEF ForkChild, ForkFails
  <2>4. CASE ParentClose(p)
    <3>1. Close(p, client[p]) /\ client[p] \in Fds \cup {NoFd} /\ calls' = calls
      BY <2>4 DEF ParentClose, IInv, TypeOK
    <3>2. /\ \A q \in Procs, f \in Fds : q # p => fds'[q][f] = fds[q][f]
          /\ \E freed \in BOOLEAN : Closing(freed)
      BY <3>1, CloseIsClosing DEF IInv, Sets
    <3> QED
      BY <3>1, <3>2, ClosingStep
  <2>5. CASE ChildClose(p)
    BY <2>5, ChildCloseServes
  <2> QED
    BY <1>4, <2>1, <2>2, <2>3, <2>4, <2>5 DEF Loop
<1>5. ASSUME NEW p \in Procs, Terminate(p), calls' = calls
      PROVE  ServiceStep
  <2>1. /\ \A q \in Procs, f \in Fds : q # p => fds'[q][f] = fds[q][f]
        /\ \E freed \in BOOLEAN : Closing(freed)
    BY <1>5, TerminateIsClosing DEF IInv, Empties
  <2> QED
    BY <1>5, <2>1, ClosingStep
<1>6. ASSUME NEW p \in Procs, Application(p)
      PROVE  ServiceStep
  <2>1. CASE OpenFile(p) \/ HandlerReturns(p)
    BY <2>1, QuietIsUnseen DEF OpenFile, HandlerReturns
  <2>2. CASE HandlerCloses(p)
    <3>1. Close(p, client[p]) /\ client[p] \in Fds \cup {NoFd} /\ calls' = calls
      BY <2>2 DEF HandlerCloses, IInv, TypeOK
    <3>2. /\ \A q \in Procs, f \in Fds : q # p => fds'[q][f] = fds[q][f]
          /\ \E freed \in BOOLEAN : Closing(freed)
      BY <3>1, CloseIsClosing DEF IInv, Sets
    <3> QED
      BY <3>1, <3>2, ClosingStep
  <2>3. CASE Exit(p)
    BY <1>5, <2>3 DEF Exit
  <2> QED
    BY <1>6, <2>1, <2>2, <2>3 DEF Application
<1>7. ASSUME NEW p \in Procs, NEW s \in SignalNames, CloseResources(p, s)
      PROVE  ServiceStep
  <2>1. Close(p, gsock[p]) /\ gsock[p] \in Fds \cup {NoFd} /\ calls' = calls
    BY <1>7 DEF CloseResources, IInv, TypeOK
  <2>2. /\ \A q \in Procs, f \in Fds : q # p => fds'[q][f] = fds[q][f]
        /\ \E freed \in BOOLEAN : Closing(freed)
    BY <2>1, CloseIsClosing DEF IInv, Sets
  <2> QED
    BY <2>1, <2>2, ClosingStep
<1>8. CASE Environment
  <2>1. ASSUME NEW p \in Procs, NEW s \in SignalNames, Kill(p, s)
        PROVE  ServiceStep
    BY <1>5, <2>1 DEF Kill
  <2> QED
    BY <1>7, <1>8, <2>1, ConnectShows DEF Environment
<1>9. CASE UNCHANGED vars
  BY <1>9, QuietIsUnseen DEF vars
<1> QED
  BY <1>1, <1>2, <1>3, <1>4, <1>6, <1>8, <1>9 DEF Next, Start

(* The strengthening is inductive beside IInv.                             *)
LEMMA LiveKeeps ==
  ASSUME SocketIsLive, pc'[Server] = "socket" => pc[Server] = "socket",
         \A q \in Procs, f \in Fds : fds'[q][f] = "listener" =>
           \E r \in Procs, g \in Fds : fds[r][g] = "listener",
         lstate' = lstate \/ \E freed \in BOOLEAN : Closing(freed)
  PROVE  SocketIsLive'
<1>1. CASE lstate' = lstate
  BY <1>1 DEF SocketIsLive, Holds
<1>2. ASSUME NEW freed \in BOOLEAN, Closing(freed)
      PROVE  SocketIsLive'
  BY <1>2 DEF SocketIsLive, Holds, Closing
<1> QED
  BY <1>1, <1>2

LEMMA LiveClose ==
  ASSUME IInv, SocketIsLive, NEW p \in Procs, NEW fd \in Fds \cup {NoFd}, Close(p, fd),
         pc'[Server] = "socket" => pc[Server] = "socket"
  PROVE  SocketIsLive'
<1>1. Sets(p, fd, "none") /\ \E freed \in BOOLEAN : Closing(freed)
  BY CloseIsClosing DEF IInv
<1>2. \A q \in Procs, f \in Fds : fds'[q][f] = "listener" => fds[q][f] = "listener"
  BY <1>1 DEF Sets
<1> QED
  BY <1>1, <1>2, LiveKeeps

LEMMA LiveTerminate ==
  ASSUME IInv, SocketIsLive, NEW p \in Procs, Terminate(p)
  PROVE  SocketIsLive'
<1>1. Empties(p) /\ \E freed \in BOOLEAN : Closing(freed)
  BY TerminateIsClosing DEF IInv
<1>2. \A q \in Procs, f \in Fds : fds'[q][f] = "listener" => fds[q][f] = "listener"
  BY <1>1 DEF Empties
<1>3. pc'[Server] = "socket" => pc[Server] = "socket"
  BY TerminateEffect DEF IInv
<1> QED
  BY <1>1, <1>2, <1>3, LiveKeeps

LEMMA LiveStart ==
  ASSUME IInv, SocketIsLive, Start
  PROVE  SocketIsLive'
<1> USE DEF IInv, local, kernel, Return, GoTo
<1>1. pc \in [Procs -> Locations]
  BY DEF TypeOK
<1>2. CASE OpenSocket
  <2>1. pc'[Server] # "socket" /\ lstate = "none"
    BY <1>1, <1>2 DEF OpenSocket, SocketIsLive
  <2>2. lstate' = "open" \/ UNCHANGED <<fds, lstate>>
    BY <1>2 DEF OpenSocket
  <2> QED
    BY <2>1, <2>2 DEF SocketIsLive, Holds
<1>3. CASE BindSocket \/ SetSigterm \/ SetSigint
  BY <1>1, <1>3 DEF BindSocket, SetSigterm, SetSigint, SocketIsLive, Holds
<1>4. CASE Listen
  BY <1>1, <1>4 DEF Listen, SocketIsLive, Holds
<1> QED
  BY <1>2, <1>3, <1>4 DEF Start

LEMMA LiveLoop ==
  ASSUME IInv, SocketIsLive, NEW p \in Procs, Loop(p)
  PROVE  SocketIsLive'
<1>1. CASE AcceptConnection(p)
  <2>1. PICK f \in Fds : fds' = [fds EXCEPT ![p][f] = Head(queue)]
    BY <1>1 DEF AcceptConnection
  <2>2. Head(queue) # "listener"
    BY <1>1, HeadIsQueued, NotConnections DEF AcceptConnection, IInv, Plain
  <2>3. \A q \in Procs, g \in Fds : fds'[q][g] = "listener" => fds[q][g] = "listener"
    BY <2>1, <2>2, SetsEffect DEF IInv, Sets
  <2>4. lstate' = lstate /\ (pc'[Server] = "socket" => pc[Server] = "socket")
    BY <1>1, GoToEffect DEF AcceptConnection, IInv, At
  <2> QED
    BY <2>3, <2>4, LiveKeeps
<1>2. CASE AcceptFails(p) \/ ForkFails(p)
  <2>1. UNCHANGED <<fds, lstate>> /\ (pc'[Server] = "socket" => pc[Server] = "socket")
    BY <1>2, GoToEffect DEF AcceptFails, ForkFails, Return, kernel, IInv, At
  <2> QED
    BY <2>1 DEF SocketIsLive, Holds
<1>3. CASE ForkChild(p)
  <2>1. PICK k \in Children :
          /\ pc' = [pc EXCEPT ![p] = "parentClose", ![k] = "childClose"]
          /\ fds' = [fds EXCEPT ![k] = fds[p]]
    BY <1>3 DEF ForkChild
  <2>2. lstate' = lstate
    BY <1>3 DEF ForkChild, kernel
  <2>3. \A q \in Procs : fds'[q] = fds[q] \/ fds'[q] = fds[p]
    BY <2>1 DEF IInv, TypeOK
  <2>4. pc'[Server] = "socket" => pc[Server] = "socket"
    BY <2>1 DEF IInv, TypeOK
  <2> QED
    BY <2>2, <2>3, <2>4, LiveKeeps
<1>4. CASE ParentClose(p)
  <2>1. Close(p, client[p]) /\ client[p] \in Fds \cup {NoFd}
    BY <1>4 DEF ParentClose, IInv, TypeOK
  <2>2. pc'[Server] = "socket" => pc[Server] = "socket"
    BY <1>4, GoToEffect DEF ParentClose, IInv, At
  <2> QED
    BY <2>1, <2>2, LiveClose
<1>5. CASE ChildClose(p)
  <2>1. Close(p, sock[p]) /\ sock[p] \in Fds \cup {NoFd}
    BY <1>5 DEF ChildClose, IInv, TypeOK
  <2>2. pc'[Server] = "socket" => pc[Server] = "socket"
    BY <1>5, GoToEffect DEF ChildClose, IInv, At
  <2> QED
    BY <2>1, <2>2, LiveClose
<1> QED
  BY <1>1, <1>2, <1>3, <1>4, <1>5 DEF Loop

LEMMA LiveApplication ==
  ASSUME IInv, SocketIsLive, NEW p \in Procs, Application(p)
  PROVE  SocketIsLive'
<1>1. CASE OpenFile(p)
  <2>1. PICK f \in Fds : fds' = [fds EXCEPT ![p][f] = "file"]
    BY <1>1 DEF OpenFile
  <2>2. \A q \in Procs, g \in Fds : fds'[q][g] = "listener" => fds[q][g] = "listener"
    BY <2>1, SetsEffect DEF IInv, Sets
  <2>3. lstate' = lstate /\ pc' = pc
    BY <1>1 DEF OpenFile, kernel
  <2> QED
    BY <2>2, <2>3, LiveKeeps
<1>2. CASE HandlerCloses(p)
  <2>1. Close(p, client[p]) /\ client[p] \in Fds \cup {NoFd} /\ pc' = pc
    BY <1>2 DEF HandlerCloses, IInv, TypeOK
  <2> QED
    BY <2>1, LiveClose
<1>3. CASE HandlerReturns(p)
  <2>1. UNCHANGED <<fds, lstate>> /\ (pc'[Server] = "socket" => pc[Server] = "socket")
    BY <1>3, GoToEffect DEF HandlerReturns, kernel, IInv, At
  <2> QED
    BY <2>1 DEF SocketIsLive, Holds
<1>4. CASE Exit(p)
  BY <1>4, LiveTerminate DEF Exit
<1> QED
  BY <1>1, <1>2, <1>3, <1>4 DEF Application

LEMMA LiveEnvironment ==
  ASSUME IInv, SocketIsLive, Environment
  PROVE  SocketIsLive'
<1>1. ASSUME NEW c \in Conns, Connect(c)
      PROVE  SocketIsLive'
  BY <1>1 DEF Connect, SocketIsLive, Holds
<1>2. ASSUME NEW p \in Procs, NEW s \in SignalNames, Kill(p, s)
      PROVE  SocketIsLive'
  BY <1>2, LiveTerminate DEF Kill
<1>3. ASSUME NEW p \in Procs, NEW s \in SignalNames, CloseResources(p, s)
      PROVE  SocketIsLive'
  <2>1. Close(p, gsock[p]) /\ gsock[p] \in Fds \cup {NoFd}
    BY <1>3 DEF CloseResources, IInv, TypeOK
  <2>2. pc'[Server] = "socket" => pc[Server] = "socket"
    BY <1>3, GoToEffect DEF CloseResources, Return, IInv, At
  <2> QED
    BY <2>1, <2>2, LiveClose
<1> QED
  BY <1>1, <1>2, <1>3 DEF Environment

LEMMA LiveStep ==
  ASSUME IInv, SocketIsLive, [Next]_vars
  PROVE  SocketIsLive'
<1>1. CASE UNCHANGED vars
  BY <1>1 DEF vars, SocketIsLive, Holds
<1> QED
  BY <1>1, LiveStart, LiveLoop, LiveApplication, LiveEnvironment DEF Next

LEMMA LiveInit == Init => SocketIsLive
<1> SUFFICES ASSUME Init PROVE SocketIsLive
  OBVIOUS
<1>1. \A p \in Procs, f \in Fds : fds[p][f] \in {"none", "std"}
  BY DEF Init
<1> QED
  BY <1>1 DEF Init, SocketIsLive, Holds

LEMMA ServiceStarts == Init => Service!Init
BY DEF Init, Service!Init

(* Whatever processes, descriptors and signals do, the server is the       *)
(* service that ConnectionService states: connections are accepted in the  *)
(* order in which they came, each is handed to the handler once at most,   *)
(* and one step ends one connection at most (server.c:100-116).            *)
THEOREM ServiceIsImplemented == Spec => ImplementsService
<1>1. Init => Service!Init /\ SocketIsLive
  BY LiveInit, ServiceStarts
<1>2. IInv /\ SocketIsLive /\ [Next]_vars => SocketIsLive'
  BY LiveStep
<1>3. IInv /\ SocketIsLive /\ [Next]_vars => [Service!Next]_(Service!vars)
  BY ServiceSimulated DEF ServiceStep
<1> QED
  BY <1>1, <1>2, <1>3, Invariance, PTL DEF Spec, ImplementsService, Service!Spec
=============================================================================
