-------------------------------- MODULE Server --------------------------------
(***************************************************************************)
(* The server's side of networking (networking/server.cpp): the table of   *)
(* connections, the polling thread that keeps it up to date from status    *)
(* callbacks, and its user, who starts, stops and kicks.                   *)
(***************************************************************************)
EXTENDS Sockets

CONSTANT MaxStarts   \* bound: calls of start

ASSUME ServerAssumption == MaxStarts \in Nat

VARIABLES
  table,       \* the keys of Server::connections
  srunning,    \* Server::running
  suser, sthread, sbatch,    \* as in Connection
  starts,
  kicked       \* (history) the handles that were kicked

server == <<table, srunning, suser, sthread, sbatch, starts, kicked>>

InitServer ==
  /\ table = {} /\ srunning = FALSE /\ suser = "free" /\ sthread = "none" /\ sbatch = <<>>
  /\ starts = 0 /\ kicked = {}

(* Server::start.  The manager finds a server by its listen socket, and    *)
(* stop never takes it out: callbacks of an earlier socket find it too.    *)
(* When there is no listen socket, that is all; that CreatePollGroup fails *)
(* after it, and leaves the socket open, is left out.                      *)
Start ==
  /\ suser = "free" /\ ~srunning /\ sthread = "none" /\ starts < MaxStarts
  /\ starts' = starts + 1
  /\ \/ listening' = TRUE /\ srunning' = TRUE /\ sthread' = "loop"
     \/ UNCHANGED <<listening, srunning, sthread>>
  /\ UNCHANGED <<near, far, posted, table, suser, sbatch, kicked>>

(* Server::stop, to the join and after it.  Closing the listen socket      *)
(* closes what is left of its connections.                                 *)
Stop ==
  /\ suser = "free" /\ suser' = "stopping" /\ srunning' = FALSE
  /\ UNCHANGED <<sockets, table, sthread, sbatch, starts, kicked>>

Stopped ==
  /\ suser = "stopping" /\ sthread \in {"none", "done"}
  /\ far' = [h \in Handles |-> Closed(far[h])] /\ listening' = FALSE
  /\ table' = {} /\ suser' = "free" /\ sthread' = "none"
  /\ UNCHANGED <<near, posted, srunning, sbatch, starts, kicked>>

CloseFar(h) == SetFar(h, "None") /\ UNCHANGED posted

(* Server::kick_client leaves the entry in the table.                      *)
Kick(h) ==
  /\ suser = "free" /\ h \in table \ kicked /\ kicked' = kicked \cup {h}
  /\ CloseFar(h)
  /\ UNCHANGED <<table, srunning, suser, sthread, sbatch, starts>>

----------------------------------------------------------------------------
(* Server::thread_loop; a round without callbacks changes nothing.         *)
PollServer ==
  /\ sthread = "loop"
  /\ \/ ~srunning /\ sthread' = "done" /\ UNCHANGED <<sockets, sbatch>>
     \/ /\ srunning /\ posted[Server] # <<>> /\ sthread' = "dispatching"
        /\ sbatch' = posted[Server] /\ posted' = [posted EXCEPT ![Server] = <<>>]
        /\ UNCHANGED <<near, far, listening>>
  /\ UNCHANGED <<table, srunning, suser, starts, kicked>>

(* Mutant: the entry is looked at, and stays.                              *)
DropNothing(info) == table

(* A connection that ends.  The code looks up, and uses, the entry of one  *)
(* that was connected, and leaves that of any other where it is.           *)
Drop(info) == IF info.old = "Connected" THEN table \ {info.conn} ELSE table

SAfter == IF Len(sbatch) = 1 THEN "loop" ELSE "dispatching"

Ended(info) ==
  /\ info.new = "Lost"
  /\ IF info.old = "Connected" /\ info.conn \notin table
     THEN sthread' = "crashed" /\ UNCHANGED <<sockets, table>>
     ELSE table' = Drop(info) /\ sthread' = SAfter /\ CloseFar(info.conn)

(* A new connection; the client may have given up by now.                  *)
Accept(info) ==
  /\ info.new = "Connecting"
  /\ IF far[info.conn] = "Connecting"
     THEN /\ far' = [far EXCEPT ![info.conn] = "Accepted"] /\ table' = table \cup {info.conn}
          /\ UNCHANGED <<near, posted, listening>>
     ELSE CloseFar(info.conn) /\ UNCHANGED table
  /\ sthread' = SAfter

(* Server::on_status_changed                                               *)
DispatchServer ==
  /\ sthread = "dispatching" /\ sbatch' = Tail(sbatch)
  /\ Ended(Head(sbatch)) \/ Accept(Head(sbatch))
  /\ UNCHANGED <<srunning, suser, starts, kicked>>

ServerThread == PollServer \/ DispatchServer
NextServer == Start \/ Stop \/ Stopped \/ ServerThread \/ \E h \in Handles : Kick(h)

----------------------------------------------------------------------------
ServerTypeOK ==
  /\ table \subseteq Handles /\ srunning \in BOOLEAN /\ suser \in {"free", "stopping"}
  /\ sthread \in {"none", "loop", "dispatching", "done", "crashed"}
  /\ sbatch \in Seq(Callbacks) /\ starts \in 0..MaxStarts /\ kicked \subseteq Handles

(* server.cpp:126: PORTAL_ASSERT(connection != connections.end(), "Client  *)
(* not found in server"), before the entry is used.                        *)
ClientIsFound == sthread # "crashed"
===============================================================================
