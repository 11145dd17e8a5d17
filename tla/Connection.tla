------------------------------ MODULE Connection ------------------------------
(***************************************************************************)
(* The client's side of networking (networking/connection.cpp): a          *)
(* Connection, its polling thread, and the ConnectionManager that finds    *)
(* the Connection a status callback is for.                                *)
(*                                                                         *)
(* connect goes on when running is false, and on_connection_error sets it  *)
(* to false first of all: the user may be inside of connect while the old  *)
(* polling thread is still closing the connection it has lost.  The two    *)
(* share handle, running and the manager, and every access is a step.      *)
(* Once the old thread is gone, or before there is one, disconnect and the *)
(* join have the Connection to themselves.                                 *)
(***************************************************************************)
EXTENDS Sockets

VARIABLES
  handle,       \* Connection::connection
  running,
  registered,   \* registered[c]: handles the manager maps to the Connection
  user,         \* where the user's thread is; "gone" when the program has died
  thread,       \* where the polling thread is
  batch,        \* the callbacks RunCallbacks has taken and is dispatching
  early,        \* (history) connect was called while the old thread was not done
  passed        \* (history) an assertion that does not hold was passed: the build has none

connections == <<handle, running, registered, user, thread, batch, early, passed>>

InitConnections ==
  /\ handle = [c \in Clients |-> Invalid] /\ running = [c \in Clients |-> FALSE]
  /\ registered = [c \in Clients |-> {}] /\ user = [c \in Clients |-> "free"]
  /\ thread = [c \in Clients |-> "none"] /\ batch = [c \in Clients |-> <<>>]
  /\ early = [c \in Clients |-> FALSE] /\ passed = [c \in Clients |-> FALSE]

(* Mutant: the polling thread is not told.                                 *)
StopNothing(c) == UNCHANGED running

StopLoop(c) == running' = [running EXCEPT ![c] = FALSE]

UserGoes(c, from, to) == user[c] = from /\ user' = [user EXCEPT ![c] = to]
ThreadGoes(c, to) == thread' = [thread EXCEPT ![c] = to]
Joinable(c) == thread[c] \in {"none", "done"}

(* The library knows the handle, and the end is not closed.                *)
HoldsEnd(c) == handle[c] \in {h \in Handles : near[h] # "None"}

(* Mutant: the end stays open, as when the handle is reset before.         *)
LeaveOpen(c) == UNCHANGED sockets

(* CloseConnection, of the handle as it is now.                            *)
CloseEnd(c) ==
  IF HoldsEnd(c)
  THEN SetNear(handle[c], "None") /\ ToldClient(handle[c], "None")
  ELSE UNCHANGED sockets

(* Mutant: the manager keeps the connection.                               *)
KeepEntry(c) == UNCHANGED registered

(* ConnectionManager::remove_connection                                    *)
RemoveEntry(c) == registered' = [registered EXCEPT ![c] = @ \ {handle[c]}]

Forget(c) == handle' = [handle EXCEPT ![c] = Invalid]

----------------------------------------------------------------------------
Unused(c) == {h \in Handles : ClientOf(h) = c /\ near[h] = "Unused"}

(* Mutant: that there is no connection goes unnoticed.                     *)
GoOnWithout(c) == Forget(c) /\ UserGoes(c, "free", "registering") /\ UNCHANGED sockets

(* ConnectByIPAddress fails.                                               *)
ReturnWithout(c) == Forget(c) /\ UNCHANGED <<sockets, user>>

(* Connection::connect, to ConnectByIPAddress.                             *)
Connect(c) ==
  /\ user[c] = "free" /\ ~running[c] /\ early' = [early EXCEPT ![c] = @ \/ ~Joinable(c)]
  /\ \/ \E h \in Unused(c) :
          /\ \A i \in Unused(c) : h[2] <= i[2]
          /\ handle' = [handle EXCEPT ![c] = h] /\ SetNear(h, "Connecting") /\ UNCHANGED posted
          /\ UserGoes(c, "free", "checking")
     \/ ReturnWithout(c)
  /\ UNCHANGED <<running, registered, thread, batch, passed>>

(* The test for Invalid, and what follows, read the member again: an old   *)
(* thread may have reset it.                                               *)
Check(c) ==
  /\ UserGoes(c, "checking", IF handle[c] = Invalid THEN "free" ELSE "registering")
  /\ UNCHANGED <<sockets, handle, running, registered, thread, batch, early, passed>>

(* ConnectionManager::add_connection throws when it has the key.           *)
Register(c) ==
  /\ UserGoes(c, "registering", IF handle[c] \in registered[c] THEN "free" ELSE "starting")
  /\ registered' = [registered EXCEPT ![c] = @ \cup {handle[c]}]
  /\ UNCHANGED <<sockets, handle, running, thread, batch, early, passed>>

SetRunning(c) ==
  /\ UserGoes(c, "starting", "joining") /\ running' = [running EXCEPT ![c] = TRUE]
  /\ UNCHANGED <<sockets, handle, registered, thread, batch, early, passed>>

(* The join of the old polling thread, if there is one, and the new one.   *)
Joined(c) ==
  /\ Joinable(c) /\ UserGoes(c, "joining", "free") /\ ThreadGoes(c, "loop")
  /\ UNCHANGED <<sockets, handle, running, registered, batch, early, passed>>

(* Connection::disconnect, to the join and after it; the destructor is a   *)
(* disconnect too.                                                         *)
Disconnect(c) ==
  /\ UserGoes(c, "free", "leaving") /\ StopLoop(c)
  /\ UNCHANGED <<sockets, handle, registered, thread, batch, early, passed>>

Left(c) ==
  /\ Joinable(c) /\ UserGoes(c, "leaving", "free") /\ ThreadGoes(c, "none")
  /\ CloseEnd(c) /\ RemoveEntry(c) /\ Forget(c)
  /\ UNCHANGED <<running, batch, early, passed>>

UserStep(c) == Check(c) \/ Register(c) \/ SetRunning(c) \/ Joined(c) \/ Left(c)

----------------------------------------------------------------------------
(* The program dies with what it has in memory; its peers run into a       *)
(* timeout.                                                                *)
Die(c, where) ==
  /\ ThreadGoes(c, where) /\ user' = [user EXCEPT ![c] = "gone"]
  /\ near' = [h \in Handles |-> IF ClientOf(h) = c THEN Closed(near[h]) ELSE near[h]]
  /\ posted' = [posted EXCEPT ![c] = <<>>] /\ batch' = [batch EXCEPT ![c] = <<>>]
  /\ Forget(c) /\ registered' = [registered EXCEPT ![c] = {}]
  /\ UNCHANGED <<far, listening, running>>

(* Connection::thread_loop.  Receiving on a handle that is closed here     *)
(* answers a negative count: the code sets running to false and uses the   *)
(* message that was never received.  A round without callbacks changes     *)
(* nothing.                                                                *)
Poll(c) ==
  /\ thread[c] = "loop"
  /\ \/ /\ ~running[c] /\ ThreadGoes(c, "done")
        /\ UNCHANGED <<sockets, handle, registered, user, batch>>
     \/ running[c] /\ ~HoldsEnd(c) /\ Die(c, "crashed")
     \/ /\ running[c] /\ HoldsEnd(c) /\ posted[c] # <<>>
        /\ ThreadGoes(c, "dispatching")
        /\ batch' = [batch EXCEPT ![c] = posted[c]] /\ posted' = [posted EXCEPT ![c] = <<>>]
        /\ UNCHANGED <<near, far, listening, handle, registered, user>>
  /\ UNCHANGED <<running, early, passed>>

(* ConnectionManager::get_connection                                       *)
IsFor(c, conn) == conn \in registered[c]

NextCallback(c) ==
  /\ ThreadGoes(c, IF Len(batch[c]) = 1 THEN "loop" ELSE "dispatching")
  /\ batch' = [batch EXCEPT ![c] = Tail(@)]

(* on_status_changed_callback and on_status_changed, for one callback.  A  *)
(* callback whose connection has been removed meets PORTAL_ASSERT, which   *)
(* stops the program or, in a build without, is not there.                 *)
Dispatch(c) ==
  /\ thread[c] = "dispatching"
  /\ LET info == Head(batch[c])
         found == IsFor(c, info.conn) IN
     \/ /\ found /\ info.new = "Lost" /\ StopLoop(c) /\ ThreadGoes(c, "failing")
        /\ UNCHANGED <<sockets, handle, registered, user, batch, passed>>
     \/ /\ found /\ info.new # "Lost" /\ NextCallback(c)
        /\ UNCHANGED <<sockets, handle, registered, user, running, passed>>
     \/ ~found /\ ~passed[c] /\ Die(c, "trapped") /\ UNCHANGED passed
     \/ /\ ~found /\ passed' = [passed EXCEPT ![c] = TRUE] /\ NextCallback(c)
        /\ UNCHANGED <<sockets, handle, registered, user, running>>
  /\ UNCHANGED early

(* on_connection_error, after running; the handle may be another by now.   *)
CloseLost(c) ==
  /\ thread[c] = "failing" /\ ThreadGoes(c, "removing") /\ CloseEnd(c)
  /\ UNCHANGED <<handle, running, registered, user, batch, early, passed>>

RemoveLost(c) ==
  /\ thread[c] = "removing" /\ ThreadGoes(c, "resetting") /\ RemoveEntry(c)
  /\ UNCHANGED <<sockets, handle, running, user, batch, early, passed>>

ResetLost(c) ==
  /\ thread[c] = "resetting" /\ Forget(c) /\ NextCallback(c)
  /\ UNCHANGED <<sockets, running, registered, user, early, passed>>

ThreadStep(c) == Poll(c) \/ Dispatch(c) \/ CloseLost(c) \/ RemoveLost(c) \/ ResetLost(c)
NextConnections == \E c \in Clients : Connect(c) \/ Disconnect(c) \/ UserStep(c) \/ ThreadStep(c)

----------------------------------------------------------------------------
(* The invalid handle gets into the manager only by way of an early        *)
(* connect, whose handle the old thread resets.                            *)
ConnectionsTypeOK ==
  /\ handle \in [Clients -> Handles \cup {Invalid}] /\ running \in [Clients -> BOOLEAN]
  /\ registered \in [Clients -> SUBSET (Handles \cup {Invalid})]
  /\ user \in [Clients -> {"free", "checking", "registering", "starting", "joining", "leaving", "gone"}]
  /\ thread \in [Clients -> {"none", "loop", "dispatching", "failing", "removing", "resetting", "done",
                             "crashed", "trapped"}]
  /\ batch \in [Clients -> Seq(Callbacks)]
  /\ early \in [Clients -> BOOLEAN] /\ passed \in [Clients -> BOOLEAN]
  /\ \A c \in Clients : Invalid \in registered[c] => early[c]

(* No connection is leaked, and none is closed under the polling thread:   *)
(* whatever order errors, disconnect and connect come in, an end that is   *)
(* open in the library belongs to a Connection that has its handle and     *)
(* that callbacks find as soon as there is a thread to dispatch any.  Not  *)
(* so after an early connect: the old thread may close the new connection  *)
(* for its own, or forget its handle and leave it open (245-247).          *)
OpenIsOwned ==
  \A h \in Handles :
    LET c == ClientOf(h) IN
    near[h] \in Open /\ ~early[c] =>
      handle[c] = h /\ (registered[c] = {h} \/ user[c] \in {"checking", "registering"})

(* A polling thread receives only on a connection that this program has    *)
(* not closed, on pain of using a message it does not have (137-147).  An  *)
(* early connect breaks it: it sets running for the old thread (50), which *)
(* then polls once more with the handle it has just reset.                 *)
PollsOpenHandle == \A c \in Clients : thread[c] = "crashed" => early[c]

(* A polling thread stops itself only for the connection it polls: an      *)
(* event of an earlier connection that is still in the queue when the user *)
(* connects again does not end the new one, early connects aside.  (In a   *)
(* build with assertions it ends the program instead.)                     *)
NoStaleEvent ==
  [][\A c \in Clients :
       running[c] /\ ~running'[c] /\ user'[c] = user[c] /\ ~early[c] =>
         handle[c] # Invalid /\ near[handle[c]] = "Lost"]_<<sockets, connections>>

(* disconnect returns, unless the program dies first: its join ends,       *)
(* because the polling thread sees running within one round of its loop.   *)
DisconnectReturns == \A c \in Clients : user[c] = "leaving" ~> user[c] # "leaving"
===============================================================================
