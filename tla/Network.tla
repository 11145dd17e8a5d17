-------------------------------- MODULE Network --------------------------------
(***************************************************************************)
(* Client programs and a server program over the library's connections.    *)
(***************************************************************************)
EXTENDS Connection, Server

vars == <<sockets, connections, server>>

Init == InitSockets /\ InitConnections /\ InitServer

Next ==
  \/ NextSockets /\ UNCHANGED <<connections, server>>
  \/ NextConnections /\ UNCHANGED server
  \/ NextServer /\ UNCHANGED connections

(* Threads run, calls go on once they have begun, and the library notices  *)
(* in the end that a peer is gone.  Nobody has to call anything.  (Stopped *)
(* waits for the server's thread to end, so the two share a condition; so  *)
(* do the handles, of which there are finitely many.)                      *)
Fairness ==
  /\ \A c \in Clients : /\ WF_vars(ThreadStep(c) /\ UNCHANGED server)
                        /\ WF_vars(UserStep(c) /\ UNCHANGED server)
  /\ WF_vars((ServerThread \/ Stopped) /\ UNCHANGED connections)
  /\ WF_vars((\E h \in Handles : Noticed(h)) /\ UNCHANGED <<connections, server>>)

Spec == Init /\ [][Next]_vars
FairSpec == Spec /\ Fairness

----------------------------------------------------------------------------
TypeOK ==
  /\ near \in [Handles -> Ends] /\ far \in [Handles -> Ends]
  /\ posted \in [Clients \cup {Server} -> Seq(Callbacks)] /\ listening \in BOOLEAN
  /\ ConnectionsTypeOK /\ ServerTypeOK

(* A client that leaves, or whose program ends, leaves the server's table  *)
(* too, unless it was kicked: the server hears of it, finds the entry and  *)
(* removes it, or is stopped and forgets everybody.                        *)
ClientsLeave ==
  \A h \in Handles :
    h \in table /\ far[h] = "Connected" /\ near[h] = "None" ~> h \notin table \/ h \in kicked
================================================================================
