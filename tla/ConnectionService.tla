-------------------------- MODULE ConnectionService --------------------------
(***************************************************************************)
(* What the server of libnpmnetwork promises its peers, with no process,   *)
(* descriptor or signal in sight: connections wait in the order in which   *)
(* they arrived, each is handed to the request handler at most once, and   *)
(* one step of the server ends at most one accepted connection.            *)
(***************************************************************************)
EXTENDS Naturals, Sequences

CONSTANTS
  Conns,    (* the connections that peers may open                          *)
  Backlog   (* how many may wait                                            *)

VARIABLES
  status,   (* how far each connection has come                             *)
  waiting,  (* the connections that wait, in order of arrival               *)
  phase     (* "new", then "open" to peers, and "over" for good             *)

vars == <<status, waiting, phase>>

(* "serving": the handler was called; "done": and the peer has seen the    *)
(* end of the connection; "dropped": it ended without a call.              *)
Statuses == {"idle", "waiting", "accepted", "serving", "done", "dropped",
             "refused", "reset"}

(* The connection c goes from one status to another; `stop`: the service   *)
(* is closed in the same step, and all that wait are turned away.          *)
Moves(c, from, to, stop) ==
  /\ status[c] = from
  /\ status' = [d \in Conns |-> IF d = c THEN to
                                ELSE IF stop /\ status[d] = "waiting" THEN "reset"
                                ELSE status[d]]
  /\ waiting' = IF stop THEN <<>> ELSE waiting
  /\ phase' = IF stop THEN "over" ELSE phase

Init == /\ status = [c \in Conns |-> "idle"]
        /\ waiting = <<>>
        /\ phase = "new"

Open == phase = "new" /\ phase' = "open" /\ UNCHANGED <<status, waiting>>

Arrive(c) ==
  /\ phase = "open" /\ status[c] = "idle" /\ Len(waiting) < Backlog
  /\ status' = [status EXCEPT ![c] = "waiting"]
  /\ waiting' = Append(waiting, c)
  /\ UNCHANGED phase

Refuse(c) == phase # "open" /\ Moves(c, "idle", "refused", FALSE)

(* The first that waits is accepted, or found to have left.                *)
Accept ==
  /\ waiting # <<>>
  /\ \E s \in {"accepted", "reset"} : status' = [status EXCEPT ![Head(waiting)] = s]
  /\ waiting' = Tail(waiting)
  /\ UNCHANGED phase

Serve(c, stop)  == c \in Conns /\ Moves(c, "accepted", "serving", stop)
Finish(c, stop) == c \in Conns /\ Moves(c, "serving", "done", stop)
Drop(c, stop)   == c \in Conns /\ Moves(c, "accepted", "dropped", stop)

(* The service is closed for good.                                         *)
Stop == /\ status' = [d \in Conns |-> IF status[d] = "waiting" THEN "reset"
                                     ELSE status[d]]
        /\ waiting' = <<>>
        /\ phase' = "over"

Next == \/ Open \/ Accept \/ Stop
        \/ \E c \in Conns : \/ Arrive(c) \/ Refuse(c)
                            \/ \E stop \in BOOLEAN : Serve(c, stop) \/ Finish(c, stop)
                                                      \/ Drop(c, stop)

Spec == Init /\ [][Next]_vars
=============================================================================
