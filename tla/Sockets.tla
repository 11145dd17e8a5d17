------------------------------- MODULE Sockets -------------------------------
(***************************************************************************)
(* What the networking module uses of GameNetworkingSockets: connections   *)
(* with two ends, one at a client program and one at the server program,   *)
(* and a queue of status callbacks in each program.  When one end is       *)
(* closed, the other hears of it later or runs into a timeout.  A callback *)
(* waits in the queue until a thread of the program calls RunCallbacks,    *)
(* and is dispatched then whatever has happened to its connection          *)
(* meanwhile.  A program that closes an end of its own gets a callback     *)
(* with the state None.  Left out are callbacks whose handlers only record *)
(* or report a state and that find their object: the server's None and     *)
(* Connected, a client's Connecting and Connected.  One of these that      *)
(* comes too late is followed by the None of the same connection.          *)
(***************************************************************************)
EXTENDS Naturals, Sequences

CONSTANTS
  Clients,       \* client programs, with one Connection each
  Server,        \* the server program
  Invalid,       \* k_HSteamNetConnection_Invalid
  MaxConnects    \* bound: calls of connect per client

ASSUME SocketsAssumption ==
  MaxConnects \in Nat /\ Server \notin Clients /\ Invalid \notin Clients \X (1..MaxConnects)

VARIABLES
  near,        \* near[h]: the end of h at its client; "Connecting" stays when it is
               \* Connected, which only the client's user wants to know
  far,         \* far[h]: its end at the server; "Accepted" is Connecting to the API,
               \* "Lost" ClosedByPeer or ProblemDetectedLocally, which are handled alike
  posted,      \* posted[p]: the callbacks that wait in program p
  listening    \* the listen socket is open

sockets == <<near, far, posted, listening>>

Handles == Clients \X (1..MaxConnects)
ClientOf(h) == h[1]
Ends == {"Unused", "Connecting", "Accepted", "Connected", "Lost", "None"}
Callbacks == [conn : Handles, old : Ends, new : {"Connecting", "Lost", "None"}]
Open == {"Connecting", "Accepted", "Connected"}
Closed(end) == IF end = "Unused" THEN end ELSE "None"

InitSockets ==
  /\ near = [h \in Handles |-> "Unused"] /\ far = [h \in Handles |-> "Unused"]
  /\ posted = [p \in Clients \cup {Server} |-> <<>>] /\ listening = FALSE

Told(program, h, old, new) ==
  posted' = [posted EXCEPT ![program] = Append(@, [conn |-> h, old |-> old, new |-> new])]

(* What the state was before, the client's handler only reports.           *)
ToldClient(h, new) == Told(ClientOf(h), h, "None", new)

SetNear(h, new) == near' = [near EXCEPT ![h] = new] /\ UNCHANGED <<far, listening>>
SetFar(h, new) == far' = [far EXCEPT ![h] = new] /\ UNCHANGED <<near, listening>>

(* A packet of the client reaches the server; the server is sure of the    *)
(* client it has accepted.                                                 *)
Arrive(h) ==
  /\ near[h] = "Connecting" /\ far[h] = "Unused" /\ listening
  /\ SetFar(h, "Connecting") /\ Told(Server, h, "None", "Connecting")
Establish(h) ==
  far[h] = "Accepted" /\ near[h] # "None" /\ SetFar(h, "Connected") /\ UNCHANGED posted

(* The peer has closed its end, or nothing is heard of it; when it has, it *)
(* is bound to be noticed.                                                 *)
NearLost(h) == near[h] \in Open /\ SetNear(h, "Lost") /\ ToldClient(h, "Lost")
FarLost(h) == far[h] \in Open /\ SetFar(h, "Lost") /\ Told(Server, h, far[h], "Lost")
Noticed(h) == near[h] = "None" /\ FarLost(h)

NextSockets == \E h \in Handles : Arrive(h) \/ Establish(h) \/ NearLost(h) \/ FarLost(h)
==============================================================================
