------------------------------ MODULE ForkServer ------------------------------
(***************************************************************************)
(* libnpmnetwork/server.c: a process opens a server socket, installs a     *)
(* handler for SIGTERM and SIGINT, and forks one child per accepted        *)
(* connection.  Parent and children run the same accept loop, share the    *)
(* kernel's open sockets and keep their own descriptor tables and their    *)
(* own copy of the global g_serverSocket.  A signal may reach any process  *)
(* between any two of its steps.                                           *)
(*                                                                         *)
(* The kernel (descriptor numbers, reference counts of open sockets, the   *)
(* backlog, the process table) and the request handler are not part of     *)
(* src/libnpmnetwork: they are modelled by what server.c relies on.        *)
(***************************************************************************)
EXTENDS Integers, Sequences, FiniteSets

CONSTANTS
  Server,      (* the process that calls create_new_server                 *)
  Children,    (* the process-table slots that fork() can fill             *)
  Conns,       (* the connections that peers may open                      *)
  MaxFd,       (* the highest descriptor number of a process               *)
  Backlog,     (* params->queue: connections the kernel keeps for accept() *)
  MaxSignals   (* bound on the signals sent to all processes               *)

ASSUME ServerAssumption == Server \notin Children

ASSUME BoundsAssumption ==
  /\ MaxFd \in Nat
  /\ Backlog \in Nat \ {0}
  /\ MaxSignals \in Nat

(* What a descriptor can refer to.  "std" stands for what the process      *)
(* inherited, "file" for anything the handler or the application opened.   *)
Plain == {"none", "std", "listener", "file"}

ASSUME ConnsAssumption == Conns \cap Plain = {}

VARIABLES
  pc,         (* where each process is in server.c                         *)
  ret,        (* what create_new_server returned in each process           *)
  fds,        (* the descriptor table of each process                      *)
  sock,       (* the local `socket` of each process                        *)
  client,     (* the local `client` of each process                        *)
  gsock,      (* g_serverSocket of each process                            *)
  caught,     (* the signals for which close_resources is installed        *)
  lstate,     (* kernel: state of the server socket                        *)
  queue,      (* kernel: connections waiting for accept()                  *)
  conn,       (* kernel: state of each connection                          *)
  calls,      (* history: calls of the request handler for each connection *)
  hit,        (* history: the processes that ran close_resources           *)
  signals     (* signals still to be sent                                  *)

local == <<sock, client, gsock, caught>>
kernel == <<lstate, queue, conn>>
vars == <<pc, ret, fds, sock, client, gsock, caught, lstate, queue, conn,
          calls, hit, signals>>

Procs == {Server} \cup Children
Fds == 0 .. MaxFd
NoFd == -1
Objects == Plain \cup Conns
SignalNames == {"TERM", "INT", "KILL"}   \* "KILL": no handler can catch it

Locations == {"unused", "socket", "bind", "sigterm", "sigint", "listen",
              "accept", "fork", "parentClose", "childClose", "handler",
              "returned", "zombie", "gone"}
Results == {"none", "ok", "ERR_CANNOT_BIND_SOCKET", "ERR_CANNOT_CREATE_SOCKET"}

Alive(p) == pc[p] \notin {"unused", "zombie", "gone"}

-----------------------------------------------------------------------------
(* The kernel.                                                             *)

(* A new descriptor is the lowest number that is not in use.               *)
IsLowestFree(p, f) ==
  /\ fds[p][f] = "none"
  /\ \A g \in Fds : g < f => fds[p][g] # "none"

Holders(o, tables) == {p \in Procs : \E f \in Fds : tables[p][f] = o}

(* The descriptor tables become `tables`.  A connection nobody refers to   *)
(* any more is closed; when the server socket goes, so do the connections  *)
(* that wait in its backlog.                                               *)
Release(tables) ==
  LET freed == lstate # "none" /\ Holders("listener", tables) = {}
  IN /\ fds' = tables
     /\ lstate' = IF freed THEN "closed" ELSE lstate
     /\ queue' = IF freed THEN <<>> ELSE queue
     /\ conn' = [c \in Conns |->
                   IF conn[c] = "accepted" /\ Holders(c, tables) = {}
                     THEN "closed"
                   ELSE IF freed /\ conn[c] = "queued" THEN "reset"
                   ELSE conn[c]]

(* close(fd): closing a free descriptor is EBADF and changes nothing.      *)
Close(p, fd) == Release([fds EXCEPT ![p][fd] = "none"])

(* A process ends and its descriptors with it.  server.c never waits for   *)
(* its children: an ended child keeps its slot until the server has ended. *)
Terminate(p) ==
  /\ Release([fds EXCEPT ![p] = [f \in Fds |-> "none"]])
  /\ pc' = [q \in Procs |->
              IF q = p THEN IF p = Server \/ pc[Server] = "gone"
                              THEN "gone" ELSE "zombie"
              ELSE IF p = Server /\ pc[q] = "zombie" THEN "gone"
              ELSE pc[q]]

(* A peer connects.  A full backlog makes it wait.                         *)
Connect(c) ==
  /\ conn[c] = "idle"
  /\ \/ /\ lstate = "listening"
        /\ Len(queue) < Backlog
        /\ queue' = Append(queue, c)
        /\ conn' = [conn EXCEPT ![c] = "queued"]
     \/ /\ lstate # "listening"
        /\ conn' = [conn EXCEPT ![c] = "refused"]
        /\ UNCHANGED queue
  /\ UNCHANGED <<pc, ret, fds, local, lstate, calls, hit, signals>>

-----------------------------------------------------------------------------
(* create_new_server and open_server_socket.                               *)

GoTo(p, l) == pc' = [pc EXCEPT ![p] = l]

(* create_new_server returns r in process p.                               *)
Return(p, r) == GoTo(p, "returned") /\ ret' = [ret EXCEPT ![p] = r]

OpenSocket ==
  /\ pc[Server] = "socket"
  /\ \/ /\ \E f \in Fds : /\ IsLowestFree(Server, f)
                          /\ fds' = [fds EXCEPT ![Server][f] = "listener"]
                          /\ sock' = [sock EXCEPT ![Server] = f]
        /\ lstate' = "open"
        /\ GoTo(Server, "bind")
        /\ UNCHANGED ret
     \/ Return(Server, "ERR_CANNOT_CREATE_SOCKET") /\ UNCHANGED <<fds, sock, lstate>>
  /\ UNCHANGED <<client, gsock, caught, queue, conn, calls, hit, signals>>

(* bind(), and the test `socket > 0` of the caller.  When bind() fails the *)
(* socket stays open; descriptor 0 is returned as the result.              *)
BindSocket ==
  /\ pc[Server] = "bind"
  /\ \/ sock[Server] > 0 /\ GoTo(Server, "sigterm") /\ UNCHANGED ret
     \/ sock[Server] = 0 /\ Return(Server, "ok")
     \/ Return(Server, "ERR_CANNOT_BIND_SOCKET")
  /\ UNCHANGED <<fds, local, kernel, calls, hit, signals>>

(* set_sigterm_handler: one step per sigaction().                          *)
(* Mutant: g_serverSocket is not assigned.                                 *)
SetSigtermForgetsSocket ==
  /\ pc[Server] = "sigterm"
  /\ caught' = [caught EXCEPT ![Server] = @ \cup {"TERM"}]
  /\ GoTo(Server, "sigint")
  /\ UNCHANGED <<ret, fds, sock, client, gsock, kernel, calls, hit, signals>>

SetSigterm ==
  /\ pc[Server] = "sigterm"
  /\ gsock' = [gsock EXCEPT ![Server] = sock[Server]]
  /\ caught' = [caught EXCEPT ![Server] = @ \cup {"TERM"}]
  /\ GoTo(Server, "sigint")
  /\ UNCHANGED <<ret, fds, sock, client, kernel, calls, hit, signals>>

SetSigint ==
  /\ pc[Server] = "sigint"
  /\ caught' = [caught EXCEPT ![Server] = @ \cup {"INT"}]
  /\ GoTo(Server, "listen")
  /\ UNCHANGED <<ret, fds, sock, client, gsock, kernel, calls, hit, signals>>

-----------------------------------------------------------------------------
(* listen_and_accept.                                                      *)

(* The result of listen() is not looked at.                                *)
Listen ==
  /\ pc[Server] = "listen"
  /\ \/ fds[Server][sock[Server]] = "listener" /\ lstate' = "listening"
     \/ UNCHANGED lstate
  /\ GoTo(Server, "accept")
  /\ UNCHANGED <<ret, fds, local, queue, conn, calls, hit, signals>>

(* accept() needs a listening socket and a descriptor for the result.      *)
CanAccept(p) ==
  /\ fds[p][sock[p]] = "listener"
  /\ lstate = "listening"
  /\ \E f \in Fds : fds[p][f] = "none"

AcceptConnection(p) ==
  /\ pc[p] = "accept"
  /\ CanAccept(p)
  /\ queue # <<>>
  /\ \E f \in Fds : /\ IsLowestFree(p, f)
                    /\ fds' = [fds EXCEPT ![p][f] = Head(queue)]
                    /\ client' = [client EXCEPT ![p] = f]
  /\ conn' = [conn EXCEPT ![Head(queue)] = "accepted"]
  /\ queue' = Tail(queue)
  /\ GoTo(p, "fork")
  /\ UNCHANGED <<ret, sock, gsock, caught, lstate, calls, hit, signals>>

(* Mutant: the failure of accept() becomes the result.                     *)
AcceptFailsIsReturned(p) ==
  /\ pc[p] = "accept"
  /\ ~CanAccept(p)
  /\ client' = [client EXCEPT ![p] = NoFd]
  /\ Return(p, "ERR_CANNOT_ACCEPT")
  /\ UNCHANGED <<fds, sock, gsock, caught, kernel, calls, hit, signals>>

(* accept() = -1 ends the loop, whatever the reason: the socket cannot     *)
(* accept, or the connection was aborted by its peer while it waited.      *)
AcceptFails(p) ==
  /\ pc[p] = "accept"
  /\ \/ ~CanAccept(p) /\ UNCHANGED <<queue, conn>>
     \/ /\ CanAccept(p)
        /\ queue # <<>>
        /\ conn' = [conn EXCEPT ![Head(queue)] = "reset"]
        /\ queue' = Tail(queue)
  /\ client' = [client EXCEPT ![p] = NoFd]
  /\ Return(p, "ok")
  /\ UNCHANGED <<fds, sock, gsock, caught, lstate, calls, hit, signals>>

(* Mutant: the parent calls the handler too.                               *)
ForkChildServesTwice(p) ==
  /\ pc[p] = "fork"
  /\ \E q \in Children :
       /\ pc[q] = "unused"
       /\ pc' = [pc EXCEPT ![p] = "childClose", ![q] = "childClose"]
       /\ fds' = [fds EXCEPT ![q] = fds[p]]
       /\ sock' = [sock EXCEPT ![q] = sock[p]]
       /\ client' = [client EXCEPT ![q] = client[p]]
       /\ gsock' = [gsock EXCEPT ![q] = gsock[p]]
       /\ caught' = [caught EXCEPT ![q] = caught[p]]
  /\ UNCHANGED <<ret, kernel, calls, hit, signals>>

(* fork(): the child starts with a copy of everything the parent has.      *)
ForkChild(p) ==
  /\ pc[p] = "fork"
  /\ \E q \in Children :
       /\ pc[q] = "unused"
       /\ pc' = [pc EXCEPT ![p] = "parentClose", ![q] = "childClose"]
       /\ fds' = [fds EXCEPT ![q] = fds[p]]
       /\ sock' = [sock EXCEPT ![q] = sock[p]]
       /\ client' = [client EXCEPT ![q] = client[p]]
       /\ gsock' = [gsock EXCEPT ![q] = gsock[p]]
       /\ caught' = [caught EXCEPT ![q] = caught[p]]
  /\ UNCHANGED <<ret, kernel, calls, hit, signals>>

(* Mutant: fork() is tried again for as long as it fails.                  *)
ForkFailsRetries(p) ==
  /\ pc[p] = "fork"
  /\ \A q \in Children : pc[q] # "unused"
  /\ UNCHANGED vars

(* fork() = -1 takes the branch of the parent.                             *)
ForkFails(p) ==
  /\ pc[p] = "fork"
  /\ \A q \in Children : pc[q] # "unused"
  /\ GoTo(p, "parentClose")
  /\ UNCHANGED <<ret, fds, local, kernel, calls, hit, signals>>

(* Mutant: the parent keeps the connection open.                           *)
ParentCloseKeepsClient(p) ==
  /\ pc[p] = "parentClose"
  /\ GoTo(p, "accept")
  /\ UNCHANGED <<ret, fds, local, kernel, calls, hit, signals>>

ParentClose(p) ==
  /\ pc[p] = "parentClose"
  /\ Close(p, client[p])
  /\ GoTo(p, "accept")
  /\ UNCHANGED <<ret, local, calls, hit, signals>>

(* Mutant: the child closes the connection instead of the server socket.   *)
ChildClosesClient(p) ==
  /\ pc[p] = "childClose"
  /\ Close(p, client[p])
  /\ calls' = [c \in Conns |-> IF fds'[p][client[p]] = c THEN calls[c] + 1
                               ELSE calls[c]]
  /\ GoTo(p, "handler")
  /\ UNCHANGED <<ret, local, hit, signals>>

(* The child closes the server socket and calls handler(client).           *)
ChildClose(p) ==
  /\ pc[p] = "childClose"
  /\ Close(p, sock[p])
  /\ calls' = [c \in Conns |-> IF fds'[p][client[p]] = c THEN calls[c] + 1
                               ELSE calls[c]]
  /\ GoTo(p, "handler")
  /\ UNCHANGED <<ret, local, hit, signals>>

-----------------------------------------------------------------------------
(* The request handler and the application around create_new_server.       *)

OpenFile(p) ==
  /\ pc[p] \in {"handler", "returned"}
  /\ \E f \in Fds : /\ IsLowestFree(p, f)
                    /\ fds' = [fds EXCEPT ![p][f] = "file"]
  /\ UNCHANGED <<pc, ret, local, kernel, calls, hit, signals>>

HandlerCloses(p) ==
  /\ pc[p] = "handler"
  /\ fds[p][client[p]] \in Conns
  /\ Close(p, client[p])
  /\ UNCHANGED <<pc, ret, local, calls, hit, signals>>

(* The child goes back to accept(), on a descriptor it has closed.         *)
HandlerReturns(p) ==
  /\ pc[p] = "handler"
  /\ GoTo(p, "accept")
  /\ UNCHANGED <<ret, fds, local, kernel, calls, hit, signals>>

Exit(p) ==
  /\ pc[p] \in {"handler", "returned"}
  /\ Terminate(p)
  /\ UNCHANGED <<ret, local, calls, hit, signals>>

-----------------------------------------------------------------------------
(* Signals.                                                                *)

(* The default action of a signal that is not caught.                      *)
Kill(p, s) ==
  /\ Alive(p) /\ signals > 0
  /\ s \notin caught[p]
  /\ Terminate(p)
  /\ signals' = signals - 1
  /\ UNCHANGED <<ret, local, calls, hit>>

(* close_resources runs in p between two of its steps.  sa_flags is 0: an  *)
(* accept() that was blocked returns -1 (EINTR) and the loop ends.         *)
CloseResources(p, s) ==
  /\ Alive(p) /\ signals > 0
  /\ s \in caught[p]
  /\ Close(p, gsock[p])
  /\ \/ UNCHANGED <<pc, ret, client>>
     \/ /\ pc[p] = "accept" /\ CanAccept(p) /\ queue = <<>>
        /\ client' = [client EXCEPT ![p] = NoFd]
        /\ Return(p, "ok")
  /\ hit' = hit \cup {p}
  /\ signals' = signals - 1
  /\ UNCHANGED <<sock, gsock, caught, calls>>

-----------------------------------------------------------------------------
(* The server starts with or without an open standard input.               *)
Init ==
  /\ pc = [p \in Procs |-> IF p = Server THEN "socket" ELSE "unused"]
  /\ ret = [p \in Procs |-> "none"]
  /\ \E stdin \in {"std", "none"} :
       fds = [p \in Procs |-> [f \in Fds |->
                IF p = Server /\ f = 0 THEN stdin ELSE "none"]]
  /\ sock = [p \in Procs |-> 0]
  /\ client = [p \in Procs |-> 0]
  /\ gsock = [p \in Procs |-> 0]
  /\ caught = [p \in Procs |-> {}]
  /\ lstate = "none"
  /\ queue = <<>>
  /\ conn = [c \in Conns |-> "idle"]
  /\ calls = [c \in Conns |-> 0]
  /\ hit = {}
  /\ signals = MaxSignals

Start == OpenSocket \/ BindSocket \/ SetSigterm \/ SetSigint \/ Listen

Loop(p) == \/ AcceptConnection(p) \/ AcceptFails(p)
           \/ ForkChild(p) \/ ForkFails(p)
           \/ ParentClose(p) \/ ChildClose(p)

Application(p) == OpenFile(p) \/ HandlerCloses(p) \/ HandlerReturns(p) \/ Exit(p)

Environment == \/ \E c \in Conns : Connect(c)
               \/ \E p \in Procs, s \in SignalNames : Kill(p, s) \/ CloseResources(p, s)

Next == Start \/ (\E p \in Procs : Loop(p) \/ Application(p)) \/ Environment

Spec == Init /\ [][Next]_vars

(* The scheduler runs every process; the handler and the application       *)
(* around the server are assumed to come to an end.  Nothing is assumed of *)
(* peers and signals.                                                      *)
Fairness == /\ WF_vars(Start)
            /\ \A p \in Procs : WF_vars(Loop(p)) /\ WF_vars(HandlerReturns(p) \/ Exit(p))

FairSpec == Spec /\ Fairness

-----------------------------------------------------------------------------
(* Properties.                                                             *)

TypeOK ==
  /\ pc \in [Procs -> Locations]
  /\ ret \in [Procs -> Results]
  /\ fds \in [Procs -> [Fds -> Objects]]
  /\ sock \in [Procs -> Fds]
  /\ client \in [Procs -> Fds \cup {NoFd}]
  /\ gsock \in [Procs -> Fds]
  /\ caught \in [Procs -> SUBSET {"TERM", "INT"}]
  /\ lstate \in {"none", "open", "listening", "closed"}
  /\ queue \in Seq(Conns) /\ Len(queue) <= Backlog
  /\ conn \in [Conns -> {"idle", "queued", "accepted", "closed", "reset", "refused"}]
  /\ calls \in [Conns -> Nat]
  /\ hit \subseteq Procs
  /\ signals \in 0 .. MaxSignals

Holds(p, o) == \E f \in Fds : fds[p][f] = o

(* A connection is open in one child at most, and a child has one          *)
(* connection at most: the parent has closed its copy of a connection      *)
(* before it forks again (server.c:107-115), whatever signals arrive.      *)
ChildIsolation ==
  /\ \A c \in Conns : \A p, q \in Children : Holds(p, c) /\ Holds(q, c) => p = q
  /\ \A p \in Children : \A c, d \in Conns : Holds(p, c) /\ Holds(p, d) => c = d

(* handler(client) is called with an open connection for which the handler *)
(* was never called before, in any process (server.c:104-111).             *)
HandlerGetsFreshConnection ==
  [][\A p \in Procs : pc[p] = "childClose" /\ pc'[p] = "handler" =>
       \E c \in Conns : /\ Holds(p, c)
                        /\ calls[c] = 0
                        /\ calls' = [calls EXCEPT ![c] = 1]]_vars

(* The server socket is closed, so that nobody listens any more, as soon   *)
(* as the server has caught a signal or ended and no child is between      *)
(* fork() and its close(socket) (server.c:109, 130-134).  The port may be  *)
(* in use for longer: server.c:78-83 does not set SO_REUSEADDR, and the    *)
(* connections that children still have open keep bind() from succeeding.  *)
ServerSocketCloses ==
  /\ Server \in hit \/ ~Alive(Server)
  /\ \A q \in Children : pc[q] # "childClose"
  => lstate \in {"none", "closed"}

(* A peer that was accepted and never served was the victim of a full      *)
(* process table or of a signal, never of the order in which parent and    *)
(* child close their descriptors (server.c:107-115).                       *)
Excused == (\A q \in Children : pc[q] # "unused") \/ signals < MaxSignals

DropsAreAccountable ==
  \A c \in Conns : conn[c] = "closed" /\ calls[c] = 0 => Excused

(* A server in accept() has nothing open but standard input and the server *)
(* socket: whatever was accepted, forked and killed before, accept() does  *)
(* not run out of descriptors (server.c:104-114).                          *)
ServerKeepsDescriptors ==
  pc[Server] = "accept" =>
    \A f \in Fds : fds[Server][f] # "none" => f = 0 \/ f = sock[Server]

(* A caught signal ends the accept loop of the server: close_resources     *)
(* wakes accept() or makes the next one fail (server.c:104, 130-134).      *)
SignalEndsServer == Server \in hit ~> pc[Server] \in {"returned", "gone"}

(* Every accepted peer sees the end of its connection once handlers end:   *)
(* no process keeps a copy of the descriptor (server.c:109-114).           *)
AcceptedConnectionEnds == \A c \in Conns : conn[c] = "accepted" ~> conn[c] = "closed"

(* No peer waits in the backlog for ever.                                  *)
QueuedPeerIsAnswered == \A c \in Conns : conn[c] = "queued" ~> conn[c] # "queued"

(* Violated: "Return negative int if the server cannot be started"         *)
(* (server.h:41-42).  create_new_server returns 0 for a socket that never  *)
(* listened: on descriptor 0, or because listen() failed (server.c:54-62,  *)
(* 100).  No signal came, and the socket did not go away meanwhile.        *)
NotStartedIsNegative == ret[Server] = "ok" /\ hit = {} => lstate # "open"

(* Violated: a request handler "to handle any incoming client connection"  *)
(* (README.md:58-59).  A child that has ended is never waited for          *)
(* (server.c:107-115): fork() fails, and the peer is dropped, while not a  *)
(* single child is running.                                                *)
IncomingConnectionsAreHandled ==
  [][ForkFails(Server) => \E q \in Children : Alive(q)]_vars

(* Violated: "catching termination signal to cleanup" (server.c:41).       *)
(* close_resources uses a descriptor number that the process may have      *)
(* closed and used again: it closes a file of the handler or the           *)
(* application (server.c:109, 133).                                        *)
SignalOnlyCleansUp ==
  [][\A p \in Procs : Holds(p, "file") /\ ~Holds(p, "file")' => ~Alive(p)']_vars

(* What ConnectionService shows of a state of the server.                  *)
Service == INSTANCE ConnectionService WITH
  status <- [c \in Conns |->
               CASE conn[c] = "queued" -> "waiting"
                 [] conn[c] = "accepted" -> IF calls[c] = 0 THEN "accepted" ELSE "serving"
                 [] conn[c] = "closed" -> IF calls[c] = 0 THEN "dropped" ELSE "done"
                 [] OTHER -> conn[c]],
  waiting <- queue,
  phase <- CASE lstate = "listening" -> "open"
             [] lstate = "closed" -> "over"
             [] OTHER -> "new"

(* The server implements the service: first come first accepted, at most   *)
(* one call per connection, at most one connection ended by a step.        *)
ImplementsService == Service!Spec

-----------------------------------------------------------------------------
(* The inductive invariant behind the safety properties, in named parts.   *)

(* Only the server starts and forks, only children call the handler.       *)
Places ==
  /\ pc[Server] \notin {"unused", "childClose", "handler", "zombie"}
  /\ \A q \in Children : pc[q] \in {"unused", "childClose", "handler", "accept",
                                  "returned", "zombie", "gone"}

EndedHoldNothing == \A p \in Procs : ~Alive(p) => \A f \in Fds : fds[p][f] = "none"

(* The server socket is at `socket`, and in a child only until close().    *)
ListenerPlaces ==
  \A p \in Procs, f \in Fds : fds[p][f] = "listener" =>
    /\ f = sock[p]
    /\ p # Server => pc[p] = "childClose"
    /\ p = Server => pc[p] # "socket" /\ Server \notin hit

(* The handler is installed for the socket that g_serverSocket names.      *)
HandlerKnowsSocket ==
  /\ \A p \in Procs : caught[p] # {} => gsock[p] = sock[p]
  /\ pc[Server] = "sigint" => gsock[Server] = sock[Server]
  /\ pc[Server] = "socket" => caught[Server] = {} /\ Server \notin hit

KernelKnowsHolders ==
  lstate \notin {"none", "closed"} => \E p \in Procs : Holds(p, "listener")

QueueIsExact ==
  /\ \A i \in 1 .. Len(queue) : conn[queue[i]] = "queued"
  /\ \A i, j \in 1 .. Len(queue) : queue[i] = queue[j] => i = j

HeldAreAccepted ==
  \A p \in Procs, f \in Fds : fds[p][f] \in Conns => conn[fds[p][f]] = "accepted"

OneConnectionEach ==
  \A p \in Procs : \A f, g \in Fds : fds[p][f] \in Conns /\ fds[p][g] \in Conns => f = g

ChildrenDisjoint ==
  \A p, q \in Children : \A f, g \in Fds :
    fds[p][f] \in Conns /\ fds[p][f] = fds[q][g] => p = q

(* What the server has open, until it has returned.                        *)
ServerTable ==
  /\ \A f \in Fds : fds[Server][f] # "none" =>
       \/ f \in {0, sock[Server]} /\ fds[Server][f] \notin Conns
       \/ f = client[Server] /\ pc[Server] \in {"fork", "parentClose"}
       \/ pc[Server] = "returned" /\ fds[Server][f] \notin Conns
  /\ pc[Server] = "socket" => sock[Server] = 0

(* Around fork() the connection is at `client`, away from `socket`, and    *)
(* has not been handled yet.                                               *)
ClientIsFresh ==
  \A p \in Procs : pc[p] \in {"fork", "childClose"} =>
    /\ client[p] \in Fds \ {sock[p]}
    /\ fds[p][client[p]] \in Conns
    /\ calls[fds[p][client[p]]] = 0

ForkingAlone ==
  pc[Server] = "fork" =>
    \A q \in Children, f \in Fds : fds[q][f] # fds[Server][client[Server]]

WaitingAreFresh == \A c \in Conns : conn[c] \in {"idle", "queued"} => calls[c] = 0

AcceptedAreHeld ==
  \A c \in Conns : conn[c] = "accepted" => \E p \in Procs : Holds(p, c)

(* Who is answerable for a connection that nobody has handled.             *)
ServedByChild ==
  \A q \in Children, f \in Fds :
    fds[q][f] \in Conns /\ pc[q] # "childClose" => calls[fds[q][f]] > 0

ParentClosesItsCopy ==
  pc[Server] = "parentClose" =>
    \A c \in Conns : Holds(Server, c) /\ calls[c] = 0 =>
      Excused \/ \E q \in Children : Holds(q, c)

IInv ==
  /\ TypeOK /\ Places /\ EndedHoldNothing
  /\ ListenerPlaces /\ HandlerKnowsSocket /\ KernelKnowsHolders
  /\ QueueIsExact /\ HeldAreAccepted /\ OneConnectionEach /\ ChildrenDisjoint
  /\ ServerTable /\ ClientIsFresh /\ ForkingAlone /\ WaitingAreFresh
  /\ AcceptedAreHeld /\ ServedByChild /\ ParentClosesItsCopy /\ DropsAreAccountable
=============================================================================
