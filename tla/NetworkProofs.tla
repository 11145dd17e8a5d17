----------------------------- MODULE NetworkProofs -----------------------------
(***************************************************************************)
(* The safety properties of Network, proved for all sets of clients, and   *)
(* any number of connects and starts.                                      *)
(*                                                                         *)
(* The argument: a Connection that was never used early (connect while its *)
(* old polling thread is in its last round) has a handle exactly as long   *)
(* as the manager knows it and the library holds its end, up to the places *)
(* between the two where its only active thread is (Located).  In the      *)
(* first part of connect there is no polling thread, and while there is    *)
(* one that runs, the user changes running and nothing else.  A callback   *)
(* about a lost end was posted when the end was lost, and a lost end never *)
(* opens again.                                                            *)
(***************************************************************************)
EXTENDS Network, TLAPS

(* The end the Connection has the handle of is open, or just lost.         *)
Fresh(c) == handle[c] \in Handles /\ near[handle[c]] \in Open \cup {"Lost"}
Owns(c) == Fresh(c) /\ registered[c] = {handle[c]}
HandleClosed(c) == handle[c] \in Handles /\ near[handle[c]] = "None"
Idle(c) == handle[c] = Invalid /\ registered[c] = {}

InConnect(c) == user[c] \in {"checking", "registering", "starting", "joining"}
InError(c) == thread[c] \in {"failing", "removing", "resetting"}
Gone(c) == user[c] = "gone"

(* What the places of the user and of the polling thread say.              *)
Located(c) ==
  /\ InConnect(c) => Joinable(c)
  /\ user[c] = "checking" => Idle(c) \/ (Fresh(c) /\ registered[c] = {})
  /\ user[c] = "registering" => Fresh(c) /\ registered[c] = {}
  /\ user[c] = "starting" => Owns(c)
  /\ user[c] = "joining" => Owns(c) /\ running[c]
  /\ running[c] => user[c] = "joining" \/ (user[c] = "free" /\ Owns(c) /\ thread[c] \in {"loop", "dispatching"})
  /\ thread[c] = "failing" => Owns(c)
  /\ thread[c] = "removing" => HandleClosed(c) /\ registered[c] = {handle[c]}
  /\ thread[c] = "resetting" => HandleClosed(c) /\ registered[c] = {}
  /\ user[c] = "free" /\ ~running[c] /\ ~InError(c) => Idle(c)
  /\ user[c] = "leaving" /\ ~InError(c) => Idle(c) \/ Owns(c)

OwnHandle(c) == handle[c] # Invalid => ClientOf(handle[c]) = c
GoneIsOver(c) ==
  /\ Gone(c) <=> thread[c] \in {"crashed", "trapped"}
  /\ Gone(c) => \A h \in Handles : ClientOf(h) = c => near[h] \notin Open
NoCrash(c) == thread[c] = "crashed" => early[c]
OpenHasHandle(c) == \A h \in Handles : ClientOf(h) = c /\ near[h] \in Open => early[c] \/ handle[c] = h
BatchInHand(c) == thread[c] = "dispatching" \/ InError(c) => batch[c] # <<>>

LostStays(q) == \A n \in DOMAIN q : q[n].new = "Lost" => near[q[n].conn] \in {"Lost", "None"}
LostIsLost(c) == LostStays(posted[c]) /\ LostStays(batch[c])

Held(c) ==
  /\ OwnHandle(c) /\ GoneIsOver(c) /\ (early[c] \/ Gone(c) \/ Located(c)) /\ NoCrash(c)
  /\ OpenHasHandle(c) /\ BatchInHand(c)
ServerPolled == sthread = "dispatching" => sbatch # <<>>

IInv ==
  /\ TypeOK /\ ServerPolled
  /\ \A c \in Clients : Held(c) /\ LostIsLost(c)

USE SocketsAssumption, ServerAssumption

-----------------------------------------------------------------------------
LEMMA Appended ==
  ASSUME NEW S, NEW q \in Seq(S), NEW e \in S
  PROVE  /\ Append(q, e) \in Seq(S)
         /\ DOMAIN Append(q, e) = DOMAIN q \cup {Len(q) + 1}
         /\ Append(q, e)[Len(q) + 1] = e
         /\ \A n \in DOMAIN q : Append(q, e)[n] = q[n] /\ n # Len(q) + 1
OBVIOUS

LEMMA Removed ==
  ASSUME NEW S, NEW q \in Seq(S), q # <<>>
  PROVE  /\ Tail(q) \in Seq(S) /\ Head(q) = q[1] /\ 1 \in DOMAIN q /\ Head(q) \in S
         /\ Len(q) # 1 => Tail(q) # <<>>
         /\ \A n \in DOMAIN Tail(q) : n + 1 \in DOMAIN q /\ Tail(q)[n] = q[n + 1]
<1>1. Len(q) \in Nat /\ Len(q) # 0 /\ DOMAIN q = 1..Len(q)
  OBVIOUS
<1>2. Tail(q) \in Seq(S) /\ Len(Tail(q)) = Len(q) - 1 /\ Head(q) = q[1] /\ 1 \in DOMAIN q
  BY <1>1
<1>3. \A n \in DOMAIN Tail(q) : n + 1 \in DOMAIN q /\ Tail(q)[n] = q[n + 1]
  BY <1>1, <1>2
<1>4. q[1] \in S
  BY <1>1
<1>5. Len(<<>>) = 0
  OBVIOUS
<1>6. Tail(q) = <<>> => Len(Tail(q)) = 0
  BY <1>5, Zenon
<1> QED  BY <1>1, <1>2, <1>3, <1>4, <1>6

LEMMA HandleOfClient == \A h \in Handles : ClientOf(h) \in Clients /\ h # Invalid
BY DEF Handles, ClientOf

(* A callback is posted to one program.                                    *)
LEMMA Posted ==
  ASSUME posted \in [Clients \cup {Server} -> Seq(Callbacks)],
         NEW p \in Clients \cup {Server}, NEW h \in Handles, NEW old \in Ends,
         NEW new \in {"Connecting", "Lost", "None"}, Told(p, h, old, new)
  PROVE  /\ posted' \in [Clients \cup {Server} -> Seq(Callbacks)]
         /\ \A q \in Clients \cup {Server} : q # p => posted'[q] = posted[q]
         /\ \A n \in DOMAIN posted'[p] :
              \/ posted'[p][n].conn = h /\ posted'[p][n].new = new
              \/ n \in DOMAIN posted[p] /\ posted'[p][n] = posted[p][n]
<1> DEFINE e == [conn |-> h, old |-> old, new |-> new]
<1>1. e \in Callbacks /\ e.conn = h /\ e.new = new
  BY DEF Callbacks
<1>2. posted' = [posted EXCEPT ![p] = Append(posted[p], e)]
  BY DEF Told
<1> HIDE DEF e
<1>3. posted[p] \in Seq(Callbacks)
  OBVIOUS
<1>4. posted'[p] = Append(posted[p], e) /\ posted'[p] \in Seq(Callbacks)
  BY <1>1, <1>2, <1>3, Appended
<1>5. posted' \in [Clients \cup {Server} -> Seq(Callbacks)]
  BY <1>2, <1>4
<1>6. \A q \in Clients \cup {Server} : q # p => posted'[q] = posted[q]
  BY <1>2
<1> QED  BY <1>1, <1>3, <1>4, <1>5, <1>6, Appended

LEMMA Initial == Init => IInv
<1> SUFFICES ASSUME Init PROVE IInv
  OBVIOUS
<1> USE DEF Init, InitSockets, InitConnections, InitServer
<1>1. TypeOK
  <2>1. \A S : <<>> \in Seq(S)
    OBVIOUS
  <2>2. ConnectionsTypeOK
    BY <2>1 DEF ConnectionsTypeOK
  <2>3. ServerTypeOK
    <3>1. sbatch \in Seq(Callbacks) /\ starts \in 0..MaxStarts
      BY <2>1
    <3> QED  BY <3>1 DEF ServerTypeOK
  <2> QED  BY <2>1, <2>2, <2>3 DEF TypeOK, Ends
<1>2. ServerPolled
  BY DEF ServerPolled
<1>3. ASSUME NEW c \in Clients PROVE Held(c)
  BY DEF Held, OwnHandle, GoneIsOver, Gone, Located, InConnect, InError, Joinable, Idle, NoCrash, OpenHasHandle, Open,
         BatchInHand
<1>4. \A c \in Clients : LostIsLost(c)
  <2>1. \A c \in Clients : posted[c] = <<>> /\ batch[c] = <<>>
    OBVIOUS
  <2>2. DOMAIN <<>> = {}
    OBVIOUS
  <2> QED  BY <2>1, <2>2 DEF LostIsLost, LostStays
<1> QED  BY <1>1, <1>2, <1>3, <1>4 DEF IInv

-----------------------------------------------------------------------------
LEMMA Types ==
  ASSUME IInv
  PROVE  /\ TypeOK /\ ConnectionsTypeOK /\ ServerTypeOK
         /\ near \in [Handles -> Ends] /\ posted \in [Clients \cup {Server} -> Seq(Callbacks)]
         /\ \A h \in Handles : ClientOf(h) \in Clients /\ h # Invalid
         /\ Server \notin Clients
BY HandleOfClient DEF IInv, TypeOK

(* A queue that holds nothing but old callbacks and others than losses.    *)
LEMMA StillLost ==
  ASSUME IInv, NEW c \in Clients, NEW q, NEW r \in {posted[c], batch[c]},
         \A i \in Handles : near[i] \in {"Lost", "None"} => near'[i] \in {"Lost", "None"},
         \A n \in DOMAIN q : \/ q[n].new = "Lost" => near'[q[n].conn] = "Lost"
                             \/ \E m \in DOMAIN r : q[n] = r[m]
  PROVE  \A n \in DOMAIN q : q[n].new = "Lost" => near'[q[n].conn] \in {"Lost", "None"}
<1> SUFFICES ASSUME NEW n \in DOMAIN q, q[n].new = "Lost", NEW m \in DOMAIN r, q[n] = r[m]
             PROVE  near'[q[n].conn] \in {"Lost", "None"}
  OBVIOUS
<1>1. r \in Seq(Callbacks) /\ LostStays(r)
  BY DEF IInv, TypeOK, ConnectionsTypeOK, LostIsLost
<1>2. r[m] \in Callbacks
  BY <1>1
<1>3. r[m].conn \in Handles /\ near[r[m].conn] \in {"Lost", "None"}
  BY <1>1, <1>2 DEF LostStays, Callbacks
<1> QED  BY <1>3

LEMMA QueuesKept ==
  ASSUME IInv, NEW c \in Clients, posted'[c] = posted[c], batch'[c] = batch[c],
         \A i \in Handles : near[i] \in {"Lost", "None"} => near'[i] \in {"Lost", "None"}
  PROVE  LostIsLost(c)'
<1>1. \A n \in DOMAIN posted'[c] : posted'[c][n].new = "Lost" => near'[posted'[c][n].conn] \in {"Lost", "None"}
  BY StillLost
<1>2. \A n \in DOMAIN batch'[c] : batch'[c][n].new = "Lost" => near'[batch'[c][n].conn] \in {"Lost", "None"}
  BY StillLost
<1> QED  BY <1>1, <1>2 DEF LostIsLost, LostStays

(* Held says nothing of another client.                                    *)
Same(c) ==
  /\ handle'[c] = handle[c] /\ running'[c] = running[c] /\ registered'[c] = registered[c]
  /\ user'[c] = user[c] /\ thread'[c] = thread[c] /\ batch'[c] = batch[c] /\ early'[c] = early[c]
  /\ \A h \in Handles : ClientOf(h) = c => near'[h] = near[h]

LEMMA SameHeld ==
  ASSUME IInv, NEW c \in Clients, Same(c)
  PROVE  Held(c)'
<1> USE DEF Same
<1>1. Held(c) /\ handle[c] \in Handles \cup {Invalid}
  BY DEF IInv, TypeOK, ConnectionsTypeOK
<1>2. handle[c] \in Handles => ClientOf(handle[c]) = c /\ near'[handle[c]] = near[handle[c]]
  BY <1>1, HandleOfClient DEF Held, OwnHandle
<1>3. Located(c) => Located(c)'
  BY <1>2 DEF Located, Joinable, InConnect, InError, Idle, Fresh, Owns, HandleClosed
<1>4. OwnHandle(c)' /\ NoCrash(c)' /\ BatchInHand(c)' /\ (early[c] \/ Gone(c) \/ Located(c))'
  BY <1>1, <1>3 DEF Held, OwnHandle, NoCrash, BatchInHand, InError, Gone
<1>5. GoneIsOver(c)' /\ OpenHasHandle(c)'
  BY <1>1 DEF Held, GoneIsOver, Gone, OpenHasHandle
<1> QED  BY <1>4, <1>5 DEF Held

(* A step of one client.                                                   *)
LEMMA OneClient ==
  ASSUME IInv, NEW c \in Clients, TypeOK', UNCHANGED server,
         \A d \in Clients : d # c => Same(d) /\ posted'[d] = posted[d],
         \A i \in Handles : near[i] \in {"Lost", "None"} => near'[i] \in {"Lost", "None"},
         Held(c)', LostIsLost(c)'
  PROVE  IInv'
<1>1. ServerPolled'
  BY DEF IInv, ServerPolled, server
<1>2. ASSUME NEW d \in Clients, d # c PROVE Held(d)' /\ LostIsLost(d)'
  <2>1. Same(d) /\ posted'[d] = posted[d] /\ batch'[d] = batch[d]
    BY <1>2 DEF Same
  <2> QED  BY <2>1, SameHeld, QueuesKept
<1> QED  BY <1>1, <1>2 DEF IInv

-----------------------------------------------------------------------------
(* What the library does.                                                  *)
LEMMA SocketsKeep == IInv /\ NextSockets /\ UNCHANGED <<connections, server>> => IInv'
<1> SUFFICES ASSUME IInv, NextSockets, UNCHANGED <<connections, server>> PROVE IInv'
  OBVIOUS
<1> USE DEF connections, server, sockets
<1> PICK h \in Handles : Arrive(h) \/ Establish(h) \/ NearLost(h) \/ FarLost(h)
  BY DEF NextSockets
<1> DEFINE p == ClientOf(h)
<1>t. /\ near \in [Handles -> Ends] /\ far \in [Handles -> Ends]
      /\ posted \in [Clients \cup {Server} -> Seq(Callbacks)] /\ listening \in BOOLEAN
  BY DEF IInv, TypeOK
<1>c. p \in Clients /\ Server \notin Clients
  BY HandleOfClient
<1>1. /\ near' \in [Handles -> Ends] /\ far' \in [Handles -> Ends] /\ listening' \in BOOLEAN
      /\ \A i \in Handles : i # h => near'[i] = near[i]
      /\ near'[h] = near[h] \/ (near[h] \in Open /\ near'[h] = "Lost")
  BY <1>t DEF Arrive, Establish, NearLost, FarLost, SetNear, SetFar, Ends
<1>2. /\ posted' \in [Clients \cup {Server} -> Seq(Callbacks)]
      /\ \A c \in Clients : \A n \in DOMAIN posted'[c] :
           \/ near'[posted'[c][n].conn] = "Lost"
           \/ n \in DOMAIN posted[c] /\ posted'[c][n] = posted[c][n]
  <2>1. CASE Arrive(h)
    <3>1. Told(Server, h, "None", "Connecting") /\ "None" \in Ends
      BY <2>1 DEF Arrive, Ends
    <3>2. /\ posted' \in [Clients \cup {Server} -> Seq(Callbacks)]
          /\ \A q \in Clients \cup {Server} : q # Server => posted'[q] = posted[q]
      BY <3>1, <1>t, Posted
    <3> QED  BY <3>2, <1>c
  <2>2. CASE Establish(h)
    BY <2>2, <1>t DEF Establish
  <2>3. CASE NearLost(h)
    <3>1. near'[h] = "Lost" /\ Told(p, h, "None", "Lost") /\ "None" \in Ends
      BY <2>3, <1>t DEF NearLost, SetNear, ToldClient, Ends
    <3>2. /\ posted' \in [Clients \cup {Server} -> Seq(Callbacks)]
          /\ \A q \in Clients \cup {Server} : q # p => posted'[q] = posted[q]
          /\ \A n \in DOMAIN posted'[p] :
               \/ posted'[p][n].conn = h
               \/ n \in DOMAIN posted[p] /\ posted'[p][n] = posted[p][n]
      BY <1>c, <3>1, <1>t, Posted
    <3> QED  BY <3>1, <3>2
  <2>4. CASE FarLost(h)
    <3>1. Told(Server, h, far[h], "Lost") /\ far[h] \in Ends
      BY <2>4, <1>t DEF FarLost
    <3>2. /\ posted' \in [Clients \cup {Server} -> Seq(Callbacks)]
          /\ \A q \in Clients \cup {Server} : q # Server => posted'[q] = posted[q]
      BY <3>1, <1>t, Posted
    <3> QED  BY <3>2, <1>c
  <2> QED  BY <2>1, <2>2, <2>3, <2>4
<1>3. TypeOK' /\ ServerPolled'
  BY <1>1, <1>2 DEF IInv, TypeOK, ConnectionsTypeOK, ServerTypeOK, ServerPolled
<1>4. \A i \in Handles : /\ near[i] \in {"Lost", "None"} => near'[i] = near[i]
                         /\ near'[i] = near[i] \/ (near[i] \in Open /\ near'[i] = "Lost")
  BY <1>1 DEF Open
<1>5. ASSUME NEW c \in Clients PROVE Held(c)'
  <2>1. Held(c) /\ handle[c] \in Handles \cup {Invalid}
    BY DEF IInv, TypeOK, ConnectionsTypeOK
  <2>2. Located(c) => Located(c)'
    BY <2>1, <1>4 DEF Located, Joinable, InConnect, InError, Idle, Fresh, Owns, HandleClosed, Open
  <2>3. OwnHandle(c)' /\ NoCrash(c)' /\ BatchInHand(c)' /\ (early[c] \/ Gone(c) \/ Located(c))'
    BY <2>1, <2>2 DEF Held, OwnHandle, NoCrash, BatchInHand, InError, Gone
  <2>4. GoneIsOver(c)' /\ OpenHasHandle(c)'
    BY <2>1, <1>4 DEF Held, GoneIsOver, Gone, OpenHasHandle, Open
  <2> QED  BY <2>3, <2>4 DEF Held
<1>6. ASSUME NEW c \in Clients PROVE LostIsLost(c)'
  <2>1. \A n \in DOMAIN posted'[c] : posted'[c][n].new = "Lost" => near'[posted'[c][n].conn] \in {"Lost", "None"}
    BY <1>2, <1>4, StillLost
  <2>2. \A n \in DOMAIN batch'[c] : batch'[c][n].new = "Lost" => near'[batch'[c][n].conn] \in {"Lost", "None"}
    BY <1>4, StillLost
  <2> QED  BY <2>1, <2>2 DEF LostIsLost, LostStays
<1> QED  BY <1>3, <1>5, <1>6 DEF IInv

-----------------------------------------------------------------------------
(* The user's thread.                                                      *)
LEMMA ConnectKeeps ==
  ASSUME IInv, NEW c \in Clients, Connect(c), UNCHANGED server
  PROVE  IInv'
<1> USE DEF sockets, server, Connect
<1>t. /\ TypeOK /\ ConnectionsTypeOK /\ ServerTypeOK /\ near \in [Handles -> Ends] /\ Held(c)
      /\ \A h \in Handles : ClientOf(h) \in Clients /\ h # Invalid
  BY Types DEF IInv
<1>1. /\ user[c] = "free" /\ ~running[c] /\ ~Gone(c) /\ early' = [early EXCEPT ![c] = @ \/ ~Joinable(c)]
      /\ early'[c] = (early[c] \/ ~Joinable(c))
      /\ UNCHANGED <<running, registered, thread, batch, passed, far, posted, listening>>
  BY <1>t DEF ConnectionsTypeOK, SetNear, Gone, ReturnWithout
<1>2. early'[c] \/ Idle(c)
  BY <1>1, <1>t DEF Held, Located, Joinable, InError
<1>3. CASE ReturnWithout(c)
  <2>1. handle' = [handle EXCEPT ![c] = Invalid] /\ UNCHANGED <<near, user>>
    BY <1>3 DEF ReturnWithout, Forget
  <2>2. TypeOK'
    BY <1>t, <1>1, <2>1 DEF TypeOK, ConnectionsTypeOK, ServerTypeOK
  <2>3. \A d \in Clients : d # c => Same(d) /\ posted'[d] = posted[d]
    BY <1>t, <1>1, <2>1 DEF Same, ConnectionsTypeOK
  <2>4. handle'[c] = Invalid /\ registered'[c] = registered[c] /\ thread'[c] = thread[c]
    BY <1>t, <1>1, <2>1 DEF ConnectionsTypeOK
  <2>5. early'[c] \/ Located(c)'
    BY <1>1, <1>2, <1>t, <2>1, <2>4 DEF Held, Located, Joinable, InConnect, InError, Idle
  <2>6. Held(c)'
    BY <1>1, <1>2, <1>t, <2>1, <2>4, <2>5
       DEF Held, OwnHandle, GoneIsOver, Gone, NoCrash, OpenHasHandle, BatchInHand, InError, Idle
  <2>7. LostIsLost(c)'
    BY <1>1, <2>1, QueuesKept
  <2> QED  BY <2>1, <2>2, <2>3, <2>6, <2>7, OneClient
<1>4. ASSUME NEW h \in Unused(c), handle' = [handle EXCEPT ![c] = h], SetNear(h, "Connecting"),
             UserGoes(c, "free", "checking")
      PROVE  IInv'
  <2>1. h \in Handles /\ ClientOf(h) = c /\ near[h] = "Unused" /\ h # Invalid
    BY <1>4, <1>t DEF Unused
  <2>2. /\ near' \in [Handles -> Ends] /\ near'[h] = "Connecting"
        /\ \A i \in Handles : i # h => near'[i] = near[i]
        /\ user' = [user EXCEPT ![c] = "checking"]
    BY <1>4, <1>t, <2>1 DEF SetNear, Ends, UserGoes
  <2>3. TypeOK'
    BY <1>t, <1>1, <1>4, <2>1, <2>2 DEF TypeOK, ConnectionsTypeOK, ServerTypeOK
  <2>4. \A d \in Clients : d # c => Same(d) /\ posted'[d] = posted[d]
    BY <1>t, <1>1, <1>4, <2>1, <2>2 DEF Same, ConnectionsTypeOK
  <2>5. /\ handle'[c] = h /\ registered'[c] = registered[c] /\ thread'[c] = thread[c] /\ user'[c] = "checking"
        /\ running'[c] = running[c] /\ batch'[c] = batch[c]
    BY <1>t, <1>1, <1>4, <2>2 DEF ConnectionsTypeOK
  <2>6. early'[c] \/ Located(c)'
    <3> SUFFICES ASSUME ~early'[c] PROVE Located(c)'
      OBVIOUS
    <3>1. Joinable(c)' /\ registered'[c] = {} /\ ~running'[c]
      BY <1>1, <1>2, <2>5 DEF Joinable, Idle
    <3>2. Fresh(c)'
      BY <2>1, <2>2, <2>5 DEF Fresh, Open
    <3> QED  BY <3>1, <3>2, <2>5 DEF Located, InConnect, InError, Joinable
  <2>7. OpenHasHandle(c)'
    BY <1>2, <1>1, <1>t, <2>1, <2>2, <2>5 DEF Held, OpenHasHandle, Idle
  <2>8. Held(c)'
    BY <1>1, <1>t, <2>1, <2>5, <2>6, <2>7 DEF Held, OwnHandle, GoneIsOver, Gone, NoCrash, BatchInHand, InError
  <2>9. \A i \in Handles : near[i] \in {"Lost", "None"} => near'[i] \in {"Lost", "None"}
    BY <2>1, <2>2
  <2>10. LostIsLost(c)'
    BY <1>1, <2>9, QueuesKept
  <2> QED  BY <2>3, <2>4, <2>8, <2>9, <2>10, OneClient
<1> QED  BY <1>3, <1>4

(* The rest of connect, and disconnect up to the join.                     *)
LEMMA CallKeeps ==
  ASSUME IInv, NEW c \in Clients, Check(c) \/ Register(c) \/ SetRunning(c) \/ Joined(c) \/ Disconnect(c),
         UNCHANGED server
  PROVE  IInv'
<1> USE DEF sockets, server
<1> DEFINE Here == Check(c) \/ Register(c) \/ SetRunning(c) \/ Joined(c) \/ Disconnect(c)
<1>t. /\ TypeOK /\ ConnectionsTypeOK /\ ServerTypeOK /\ near \in [Handles -> Ends] /\ Held(c)
      /\ \A h \in Handles : ClientOf(h) \in Clients /\ h # Invalid
  BY Types DEF IInv
<1>1. /\ UNCHANGED <<near, far, posted, listening, handle, batch, early, passed>>
      /\ user' \in [Clients -> {"free", "checking", "registering", "starting", "joining", "leaving", "gone"}]
      /\ running' \in [Clients -> BOOLEAN] /\ user[c] # "gone" /\ user'[c] # "gone"
      /\ thread' = thread \/ (thread[c] \in {"none", "done"} /\ thread' = [thread EXCEPT ![c] = "loop"])
      /\ registered' = registered
           \/ (user[c] = "registering" /\ registered' = [registered EXCEPT ![c] = @ \cup {handle[c]}])
      /\ \A d \in Clients : d # c => user'[d] = user[d] /\ running'[d] = running[d]
  BY <1>t DEF Check, Register, SetRunning, Joined, Disconnect, UserGoes, ThreadGoes, Joinable, StopLoop,
              ConnectionsTypeOK
<1>2. registered' \in [Clients -> SUBSET (Handles \cup {Invalid})]
      /\ \A d \in Clients : Invalid \in registered'[d] => early[d]
  <2>1. user[c] = "registering" => early[c] \/ handle[c] # Invalid
    BY <1>t DEF Held, Located, Gone, Fresh
  <2>2. \A d \in Clients : Invalid \in registered[d] => early[d]
    BY <1>t DEF ConnectionsTypeOK
  <2>3. registered' \in [Clients -> SUBSET (Handles \cup {Invalid})]
    <3>1. /\ registered \in [Clients -> SUBSET (Handles \cup {Invalid})]
          /\ registered[c] \cup {handle[c]} \in SUBSET (Handles \cup {Invalid})
      BY <1>t DEF ConnectionsTypeOK
    <3> QED  BY <1>1, <3>1
  <2>4. ASSUME NEW d \in Clients, Invalid \in registered'[d] PROVE early[d]
    <3>1. Invalid \in registered[d] \/ (d = c /\ user[c] = "registering" /\ handle[c] = Invalid)
      BY <1>1, <1>t, <2>4 DEF ConnectionsTypeOK
    <3> QED  BY <2>1, <2>2, <3>1
  <2> QED  BY <2>3, <2>4
<1>3. ConnectionsTypeOK'
  BY <1>1, <1>2, <1>t DEF ConnectionsTypeOK
<1>4. TypeOK'
  BY <1>1, <1>3, <1>t DEF TypeOK, ServerTypeOK
<1>5. \A d \in Clients : d # c => Same(d) /\ posted'[d] = posted[d]
  BY <1>1, <1>t DEF Same, ConnectionsTypeOK
<1>6. Located(c) => Located(c)'
  <2> USE DEF Located, UserGoes, ThreadGoes, Joinable, InConnect, InError, Idle, Fresh, Owns, HandleClosed,
              ConnectionsTypeOK
  <2>1. CASE Check(c)
    BY <1>t, <2>1 DEF Check
  <2>2. CASE Register(c)
    BY <1>t, <2>2 DEF Register
  <2>3. CASE SetRunning(c)
    BY <1>t, <2>3 DEF SetRunning
  <2>4. CASE Joined(c)
    BY <1>t, <2>4 DEF Joined
  <2>5. CASE Disconnect(c)
    BY <1>t, <2>5 DEF Disconnect, StopLoop
  <2> QED  BY <2>1, <2>2, <2>3, <2>4, <2>5
<1>7. Held(c)'
  BY <1>1, <1>6, <1>t
     DEF Held, OwnHandle, GoneIsOver, Gone, NoCrash, OpenHasHandle, BatchInHand, InError, ConnectionsTypeOK
<1>8. LostIsLost(c)'
  BY <1>1, QueuesKept
<1> QED  BY <1>1, <1>4, <1>5, <1>7, <1>8, OneClient

(* CloseConnection closes the end the Connection has the handle of.        *)
LEMMA Closing ==
  ASSUME IInv, NEW c \in Clients, CloseEnd(c)
  PROVE  /\ near' \in [Handles -> Ends] /\ posted' \in [Clients \cup {Server} -> Seq(Callbacks)]
         /\ UNCHANGED <<far, listening>>
         /\ \A d \in Clients : d # c => posted'[d] = posted[d]
         /\ \A n \in DOMAIN posted'[c] : \/ posted'[c][n].new = "None"
                                         \/ n \in DOMAIN posted[c] /\ posted'[c][n] = posted[c][n]
         /\ \A i \in Handles : i # handle[c] => near'[i] = near[i]
         /\ handle[c] \in Handles => near'[handle[c]] = "None"
         /\ \A i \in Handles : near[i] \in {"Lost", "None"} => near'[i] \in {"Lost", "None"}
<1> USE DEF sockets
<1>t. /\ near \in [Handles -> Ends] /\ posted \in [Clients \cup {Server} -> Seq(Callbacks)]
      /\ handle[c] # Invalid => ClientOf(handle[c]) = c
      /\ \A h \in Handles : ClientOf(h) \in Clients /\ h # Invalid
      /\ handle[c] \in Handles \cup {Invalid}
  BY Types DEF IInv, Held, OwnHandle, ConnectionsTypeOK
<1>1. CASE HoldsEnd(c)
  <2>1. /\ handle[c] \in Handles /\ ClientOf(handle[c]) = c
        /\ near' = [near EXCEPT ![handle[c]] = "None"] /\ UNCHANGED <<far, listening>>
        /\ Told(c, handle[c], "None", "None") /\ "None" \in Ends
    BY <1>1, <1>t DEF CloseEnd, HoldsEnd, SetNear, ToldClient, Ends
  <2>2. /\ near' \in [Handles -> Ends] /\ near'[handle[c]] = "None"
        /\ \A i \in Handles : i # handle[c] => near'[i] = near[i]
    BY <1>t, <2>1
  <2>3. /\ posted' \in [Clients \cup {Server} -> Seq(Callbacks)]
        /\ \A q \in Clients \cup {Server} : q # c => posted'[q] = posted[q]
        /\ \A n \in DOMAIN posted'[c] :
             \/ posted'[c][n].new = "None"
             \/ n \in DOMAIN posted[c] /\ posted'[c][n] = posted[c][n]
    BY <1>t, <2>1, Posted
  <2> QED  BY <2>1, <2>2, <2>3
<1>2. CASE ~HoldsEnd(c)
  BY <1>2, <1>t DEF CloseEnd, HoldsEnd
<1> QED  BY <1>1, <1>2

LEMMA ClosingQueues ==
  ASSUME IInv, NEW c \in Clients, CloseEnd(c), batch'[c] = batch[c]
  PROVE  LostIsLost(c)'
<1>1. \A n \in DOMAIN posted'[c] : posted'[c][n].new = "Lost" => near'[posted'[c][n].conn] \in {"Lost", "None"}
  BY Closing, StillLost
<1>2. \A n \in DOMAIN batch'[c] : batch'[c][n].new = "Lost" => near'[batch'[c][n].conn] \in {"Lost", "None"}
  BY Closing, StillLost
<1> QED  BY <1>1, <1>2 DEF LostIsLost, LostStays

LEMMA LeftKeeps ==
  ASSUME IInv, NEW c \in Clients, Left(c), UNCHANGED server
  PROVE  IInv'
<1> USE DEF server, Left, UserGoes, ThreadGoes, RemoveEntry, Forget
<1>t. /\ TypeOK /\ ConnectionsTypeOK /\ ServerTypeOK /\ near \in [Handles -> Ends] /\ Held(c)
      /\ \A h \in Handles : ClientOf(h) \in Clients /\ h # Invalid
  BY Types DEF IInv
<1>1. ConnectionsTypeOK'
  BY <1>t DEF ConnectionsTypeOK
<1>2. TypeOK'
  BY <1>t, <1>1, Closing DEF TypeOK, ServerTypeOK
<1>3. /\ handle'[c] = Invalid /\ registered'[c] = registered[c] \ {handle[c]} /\ user'[c] = "free"
      /\ thread'[c] = "none" /\ running'[c] = running[c] /\ early'[c] = early[c] /\ batch'[c] = batch[c]
      /\ user[c] = "leaving" /\ thread[c] \in {"none", "done"}
      /\ \A d \in Clients : d # c =>
           /\ handle'[d] = handle[d] /\ registered'[d] = registered[d] /\ user'[d] = user[d]
           /\ thread'[d] = thread[d] /\ running'[d] = running[d] /\ early'[d] = early[d] /\ batch'[d] = batch[d]
  BY <1>t DEF Joinable, ConnectionsTypeOK
<1>4. \A d \in Clients : d # c => Same(d) /\ posted'[d] = posted[d]
  <2> SUFFICES ASSUME NEW d \in Clients, d # c
               PROVE  posted'[d] = posted[d] /\ \A h \in Handles : ClientOf(h) = d => near'[h] = near[h]
    BY <1>3 DEF Same
  <2>1. \A h \in Handles : ClientOf(h) = d => h # handle[c]
    BY <1>t DEF Held, OwnHandle
  <2> QED  BY <2>1, Closing
<1>5. early[c] \/ Located(c)'
  <2> SUFFICES ASSUME ~early[c] PROVE Located(c)'
    OBVIOUS
  <2>1. ~running[c] /\ (Idle(c) \/ Owns(c))
    BY <1>3, <1>t DEF Held, Located, Gone, InError
  <2>2. Idle(c)' /\ ~running'[c]
    BY <1>3, <2>1 DEF Idle, Owns
  <2> QED  BY <1>3, <2>2 DEF Located, Idle, InError, InConnect
<1>6. OpenHasHandle(c)'
  BY <1>3, <1>t, Closing DEF Held, OpenHasHandle, Open
<1>7. Held(c)'
  BY <1>3, <1>5, <1>6, <1>t DEF Held, OwnHandle, GoneIsOver, Gone, NoCrash, BatchInHand, InError
<1>8. LostIsLost(c)'
  BY <1>3, ClosingQueues
<1> QED  BY <1>2, <1>4, <1>7, <1>8, Closing, OneClient

-----------------------------------------------------------------------------
(* The polling thread.                                                     *)
LEMMA RestOfBatch ==
  ASSUME IInv, NEW c \in Clients, thread[c] = "dispatching" \/ InError(c)
  PROVE  /\ batch[c] \in Seq(Callbacks) /\ Tail(batch[c]) \in Seq(Callbacks)
         /\ Head(batch[c]) = batch[c][1] /\ 1 \in DOMAIN batch[c] /\ Head(batch[c]) \in Callbacks
         /\ Len(batch[c]) # 1 => Tail(batch[c]) # <<>>
         /\ \A n \in DOMAIN Tail(batch[c]) : n + 1 \in DOMAIN batch[c] /\ Tail(batch[c])[n] = batch[c][n + 1]
<1>1. batch[c] \in Seq(Callbacks) /\ batch[c] # <<>>
  BY DEF IInv, TypeOK, ConnectionsTypeOK, Held, BatchInHand
<1> QED  BY <1>1, Removed

(* From one callback to the next, or to the next round.                    *)
LEMMA Nexting ==
  ASSUME IInv, NEW c \in Clients, thread[c] = "dispatching" \/ InError(c), NextCallback(c),
         UNCHANGED <<near, posted>>
  PROVE  /\ thread' \in [Clients -> {"none", "loop", "dispatching", "failing", "removing", "resetting",
                                     "done", "crashed", "trapped"}]
         /\ batch' \in [Clients -> Seq(Callbacks)]
         /\ thread'[c] \in {"loop", "dispatching"} /\ BatchInHand(c)'
         /\ \A d \in Clients : d # c => thread'[d] = thread[d] /\ batch'[d] = batch[d]
         /\ LostIsLost(c)'
<1> DEFINE to == IF Len(batch[c]) = 1 THEN "loop" ELSE "dispatching"
<1>t. ConnectionsTypeOK
  BY Types
<1>1. /\ thread' = [thread EXCEPT ![c] = to] /\ batch' = [batch EXCEPT ![c] = Tail(batch[c])]
      /\ to \in {"loop", "dispatching"} /\ (to = "dispatching" => Len(batch[c]) # 1)
  BY DEF NextCallback, ThreadGoes
<1> HIDE DEF to
<1>2. /\ thread'[c] = to /\ batch'[c] = Tail(batch[c])
      /\ \A d \in Clients : d # c => thread'[d] = thread[d] /\ batch'[d] = batch[d]
  BY <1>1, <1>t DEF ConnectionsTypeOK
<1>3. BatchInHand(c)'
  BY <1>1, <1>2, RestOfBatch DEF BatchInHand, InError
<1>4. LostIsLost(c)'
  <2>1. \A n \in DOMAIN batch'[c] : \E m \in DOMAIN batch[c] : batch'[c][n] = batch[c][m]
    BY <1>2, RestOfBatch
  <2>2. \A n \in DOMAIN batch'[c] : batch'[c][n].new = "Lost" => near'[batch'[c][n].conn] \in {"Lost", "None"}
    BY <2>1, StillLost
  <2>3. \A n \in DOMAIN posted'[c] : posted'[c][n].new = "Lost" => near'[posted'[c][n].conn] \in {"Lost", "None"}
    BY StillLost
  <2> QED  BY <2>2, <2>3 DEF LostIsLost, LostStays
<1>5. /\ thread' \in [Clients -> {"none", "loop", "dispatching", "failing", "removing", "resetting",
                                  "done", "crashed", "trapped"}]
      /\ batch' \in [Clients -> Seq(Callbacks)]
  BY <1>1, <1>t, RestOfBatch DEF ConnectionsTypeOK
<1> QED  BY <1>1, <1>2, <1>3, <1>4, <1>5

LEMMA ErrorKeeps ==
  ASSUME IInv, NEW c \in Clients, CloseLost(c) \/ RemoveLost(c) \/ ResetLost(c), UNCHANGED server
  PROVE  IInv'
<1> USE DEF server, ThreadGoes, RemoveEntry, Forget, InError
<1>t. /\ TypeOK /\ ConnectionsTypeOK /\ ServerTypeOK /\ near \in [Handles -> Ends] /\ Held(c)
      /\ \A h \in Handles : ClientOf(h) \in Clients /\ h # Invalid
  BY Types DEF IInv
<1>g. /\ thread[c] \in {"failing", "removing", "resetting"} /\ ~Gone(c) /\ user'[c] = user[c]
      /\ UNCHANGED <<running, user, early>>
  BY <1>t DEF Held, GoneIsOver, CloseLost, RemoveLost, ResetLost
<1>1. CASE CloseLost(c)
  <2> USE DEF CloseLost
  <2>1. ConnectionsTypeOK'
    BY <1>1, <1>t DEF ConnectionsTypeOK
  <2>2. TypeOK'
    BY <1>1, <1>t, <2>1, Closing DEF TypeOK, ServerTypeOK
  <2>3. /\ thread'[c] = "removing" /\ \A d \in Clients : d # c => thread'[d] = thread[d]
        /\ UNCHANGED <<handle, registered, batch>>
    BY <1>1, <1>t DEF ConnectionsTypeOK
  <2>4. \A d \in Clients : d # c => Same(d) /\ posted'[d] = posted[d]
    <3> SUFFICES ASSUME NEW d \in Clients, d # c
                 PROVE  posted'[d] = posted[d] /\ \A h \in Handles : ClientOf(h) = d => near'[h] = near[h]
      BY <1>1, <1>g, <2>3 DEF Same
    <3>1. \A h \in Handles : ClientOf(h) = d => h # handle[c]
      BY <1>t DEF Held, OwnHandle
    <3> QED  BY <1>1, <3>1, Closing
  <2>5. Located(c) => Located(c)'
    BY <1>1, <1>t, <1>g, <2>3, Closing DEF Located, InConnect, Joinable, Idle, Fresh, Owns, HandleClosed
  <2>6. OpenHasHandle(c)'
    BY <1>1, <1>t, <1>g, <2>3, Closing DEF Held, OpenHasHandle, Open
  <2>7. Held(c)'
    BY <1>1, <1>t, <1>g, <2>3, <2>5, <2>6 DEF Held, OwnHandle, GoneIsOver, Gone, NoCrash, BatchInHand
  <2>8. LostIsLost(c)'
    BY <1>1, ClosingQueues
  <2> QED  BY <1>1, <2>2, <2>4, <2>7, <2>8, Closing, OneClient
<1>2. CASE RemoveLost(c)
  <2> USE DEF RemoveLost, sockets
  <2>1. TypeOK'
    BY <1>2, <1>t DEF TypeOK, ConnectionsTypeOK, ServerTypeOK
  <2>2. /\ thread'[c] = "resetting" /\ registered'[c] = registered[c] \ {handle[c]}
        /\ \A d \in Clients : d # c => thread'[d] = thread[d] /\ registered'[d] = registered[d]
    BY <1>2, <1>t DEF ConnectionsTypeOK
  <2>3. \A d \in Clients : d # c => Same(d) /\ posted'[d] = posted[d]
    BY <1>2, <1>g, <2>2 DEF Same
  <2>4. Located(c) => Located(c)'
    BY <1>2, <1>g, <2>2 DEF Located, InConnect, Joinable, Idle, Fresh, Owns, HandleClosed
  <2>5. Held(c)'
    BY <1>2, <1>t, <1>g, <2>2, <2>4 DEF Held, OwnHandle, GoneIsOver, Gone, NoCrash, BatchInHand, OpenHasHandle
  <2>6. LostIsLost(c)'
    BY <1>2, QueuesKept
  <2> QED  BY <1>2, <2>1, <2>3, <2>5, <2>6, OneClient
<1>3. CASE ResetLost(c)
  <2> USE DEF ResetLost, sockets
  <2>1. TypeOK'
    BY <1>3, <1>t, Nexting DEF TypeOK, ConnectionsTypeOK, ServerTypeOK
  <2>2. handle'[c] = Invalid /\ \A d \in Clients : d # c => handle'[d] = handle[d]
    BY <1>3, <1>t DEF ConnectionsTypeOK
  <2>n. /\ thread'[c] \in {"loop", "dispatching"} /\ BatchInHand(c)' /\ LostIsLost(c)'
        /\ \A d \in Clients : d # c => thread'[d] = thread[d] /\ batch'[d] = batch[d]
    BY <1>3, Nexting
  <2>3. \A d \in Clients : d # c => Same(d) /\ posted'[d] = posted[d]
    BY <1>3, <2>2, <2>n DEF Same
  <2>4. Located(c) => Located(c)'
    BY <1>3, <1>g, <2>2, <2>n DEF Located, InConnect, Joinable, Idle
  <2>5. OpenHasHandle(c)'
    BY <1>3, <1>t, <1>g, <2>2 DEF Held, OpenHasHandle, Located, HandleClosed, Open
  <2>6. Held(c)'
    BY <1>3, <1>t, <1>g, <2>2, <2>n, <2>4, <2>5 DEF Held, OwnHandle, GoneIsOver, Gone, NoCrash
  <2> QED  BY <1>3, <2>1, <2>3, <2>6, <2>n, OneClient
<1> QED  BY <1>1, <1>2, <1>3

LEMMA DieKeeps ==
  ASSUME IInv, NEW c \in Clients, NEW where \in {"crashed", "trapped"}, Die(c, where), UNCHANGED <<early, server>>,
         passed' \in [Clients -> BOOLEAN], where = "crashed" => early[c]
  PROVE  IInv'
<1> USE DEF server, Die, ThreadGoes, Forget
<1>t. /\ TypeOK /\ ConnectionsTypeOK /\ ServerTypeOK /\ near \in [Handles -> Ends] /\ Held(c)
      /\ \A h \in Handles : ClientOf(h) \in Clients /\ h # Invalid
      /\ posted \in [Clients \cup {Server} -> Seq(Callbacks)]
  BY Types DEF IInv
<1>0. <<>> \in Seq(Callbacks) /\ DOMAIN <<>> = {}
  OBVIOUS
<1>1. ConnectionsTypeOK'
  BY <1>t, <1>0 DEF ConnectionsTypeOK
<1>2. near' \in [Handles -> Ends]
  BY <1>t DEF Closed, Ends
<1>3. TypeOK'
  BY <1>t, <1>0, <1>1, <1>2 DEF TypeOK, ServerTypeOK
<1>4. /\ thread'[c] = where /\ Gone(c)' /\ posted'[c] = <<>> /\ batch'[c] = <<>> /\ handle'[c] = Invalid
      /\ \A h \in Handles : ClientOf(h) = c => near'[h] \notin Open
      /\ \A h \in Handles : near'[h] = near[h] \/ near'[h] = "None"
      /\ \A d \in Clients : d # c => Same(d) /\ posted'[d] = posted[d]
  BY <1>t DEF Same, ConnectionsTypeOK, Gone, Closed, Open
<1>5. Held(c)'
  BY <1>4 DEF Held, OwnHandle, GoneIsOver, NoCrash, OpenHasHandle, BatchInHand, InError
<1>6. LostIsLost(c)'
  BY <1>0, <1>4 DEF LostIsLost, LostStays
<1> QED  BY <1>3, <1>4, <1>5, <1>6, OneClient

LEMMA PollKeeps ==
  ASSUME IInv, NEW c \in Clients, Poll(c), UNCHANGED server
  PROVE  IInv'
<1> USE DEF server, sockets, ThreadGoes
<1>t. /\ TypeOK /\ ConnectionsTypeOK /\ ServerTypeOK /\ near \in [Handles -> Ends] /\ Held(c)
      /\ posted \in [Clients \cup {Server} -> Seq(Callbacks)]
  BY Types DEF IInv
<1>g. thread[c] = "loop" /\ ~Gone(c)
  BY <1>t DEF Poll, Held, GoneIsOver
<1>2. CASE running[c] /\ ~HoldsEnd(c) /\ Die(c, "crashed") /\ UNCHANGED <<running, early, passed>>
  <2>1. early[c]
    BY <1>2, <1>g, <1>t DEF Held, Located, InConnect, Joinable, Owns, Fresh, Open, HoldsEnd
  <2>2. passed' \in [Clients -> BOOLEAN]
    BY <1>2, <1>t DEF ConnectionsTypeOK
  <2> QED  BY <1>2, <2>1, <2>2, DieKeeps
<1>3. ASSUME running[c], HoldsEnd(c), posted[c] # <<>>, thread' = [thread EXCEPT ![c] = "dispatching"],
             batch' = [batch EXCEPT ![c] = posted[c]], posted' = [posted EXCEPT ![c] = <<>>],
             UNCHANGED <<near, far, listening, handle, registered, user, running, early, passed>>
      PROVE  IInv'
  <2>1. <<>> \in Seq(Callbacks) /\ DOMAIN <<>> = {}
    OBVIOUS
  <2>2. posted[c] \in Seq(Callbacks) /\ posted' \in [Clients \cup {Server} -> Seq(Callbacks)]
    BY <1>3, <1>t, <2>1
  <2>3. TypeOK'
    BY <1>3, <1>t, <2>2 DEF TypeOK, ConnectionsTypeOK, ServerTypeOK
  <2>4. /\ thread'[c] = "dispatching" /\ batch'[c] = posted[c] /\ posted'[c] = <<>>
        /\ \A d \in Clients : d # c => thread'[d] = thread[d] /\ batch'[d] = batch[d] /\ posted'[d] = posted[d]
    BY <1>3, <1>t DEF ConnectionsTypeOK
  <2>5. Located(c) => Located(c)'
    BY <1>3, <1>g, <2>4 DEF Located, InConnect, InError, Joinable, Idle, Fresh, Owns
  <2>6. Held(c)'
    BY <1>3, <1>t, <1>g, <2>4, <2>5
       DEF Held, OwnHandle, GoneIsOver, Gone, NoCrash, OpenHasHandle, BatchInHand, InError
  <2>7. LostIsLost(c)'
    <3>1. LostIsLost(c) /\ \A i \in Handles : near'[i] = near[i]
      BY <1>3 DEF IInv
    <3> QED  BY <1>3, <2>1, <2>4, <3>1 DEF LostIsLost, LostStays
  <2>8. \A d \in Clients : d # c => Same(d) /\ posted'[d] = posted[d]
    BY <1>3, <2>4 DEF Same
  <2> QED  BY <1>3, <2>3, <2>6, <2>7, <2>8, OneClient
<1>4. ASSUME ~running[c], thread' = [thread EXCEPT ![c] = "done"],
             UNCHANGED <<sockets, handle, registered, user, batch, running, early, passed>>
      PROVE  IInv'
  <2>1. TypeOK'
    BY <1>4, <1>t DEF TypeOK, ConnectionsTypeOK, ServerTypeOK
  <2>2. thread'[c] = "done" /\ \A d \in Clients : d # c => thread'[d] = thread[d]
    BY <1>4, <1>t DEF ConnectionsTypeOK
  <2>3. Located(c) => Located(c)'
    BY <1>4, <1>g, <2>2 DEF Located, InConnect, InError, Joinable, Idle, Fresh, Owns
  <2>4. Held(c)'
    BY <1>4, <1>t, <1>g, <2>2, <2>3
       DEF Held, OwnHandle, GoneIsOver, Gone, NoCrash, OpenHasHandle, BatchInHand, InError
  <2>5. LostIsLost(c)' /\ \A d \in Clients : d # c => Same(d) /\ posted'[d] = posted[d]
    BY <1>4, <2>2, QueuesKept DEF Same
  <2> QED  BY <1>4, <2>1, <2>4, <2>5, OneClient
<1> QED  BY <1>2, <1>3, <1>4 DEF Poll

(* An event ends the connection it is about, which is lost, or none.       *)
LEMMA DispatchKeeps ==
  ASSUME IInv, NEW c \in Clients, Dispatch(c), UNCHANGED server
  PROVE  IInv' /\ (running[c] /\ ~running'[c] => early[c] \/ (handle[c] # Invalid /\ near[handle[c]] = "Lost"))
<1> USE DEF server, sockets
<1> DEFINE info == Head(batch[c])
           found == IsFor(c, info.conn)
<1>t. /\ TypeOK /\ ConnectionsTypeOK /\ ServerTypeOK /\ near \in [Handles -> Ends] /\ Held(c)
      /\ \A h \in Handles : ClientOf(h) \in Clients /\ h # Invalid
  BY Types DEF IInv
<1>g. thread[c] = "dispatching" /\ ~Gone(c) /\ early' = early
  BY <1>t DEF Dispatch, Held, GoneIsOver
<1>b. info = batch[c][1] /\ 1 \in DOMAIN batch[c] /\ info.conn \in Handles
  BY <1>g, RestOfBatch DEF Callbacks
<1> HIDE DEF info
<1>1. ASSUME found, info.new = "Lost", StopLoop(c), ThreadGoes(c, "failing"),
             UNCHANGED <<sockets, handle, registered, user, batch, passed>>
      PROVE  IInv' /\ (running[c] => early[c] \/ (handle[c] # Invalid /\ near[handle[c]] = "Lost"))
  <2>1. near[info.conn] \in {"Lost", "None"}
    BY <1>1, <1>b DEF IInv, LostIsLost, LostStays
  <2>2. Located(c) => Owns(c)
    <3>1. user[c] \notin {"checking", "registering", "starting", "joining", "gone"} \/ ~Located(c)
      BY <1>g DEF Located, InConnect, Joinable, Gone
    <3>2. user[c] \in {"free", "leaving"} \/ ~Located(c)
      BY <1>t, <3>1 DEF ConnectionsTypeOK
    <3> QED  BY <1>1, <1>g, <3>2 DEF IsFor, Located, InError, Idle
  <2>3. Owns(c) => handle[c] # Invalid /\ near[handle[c]] = "Lost"
    BY <1>1, <1>t, <2>1 DEF IsFor, Owns, Fresh, Open
  <2>4. TypeOK'
    BY <1>1, <1>g, <1>t DEF StopLoop, ThreadGoes, TypeOK, ConnectionsTypeOK, ServerTypeOK
  <2>5. /\ thread'[c] = "failing" /\ ~running'[c]
        /\ \A d \in Clients : d # c => thread'[d] = thread[d] /\ running'[d] = running[d]
    BY <1>1, <1>t DEF StopLoop, ThreadGoes, ConnectionsTypeOK
  <2>6. Located(c) => Located(c)'
    BY <1>1, <1>g, <2>2, <2>5 DEF Located, InConnect, InError, Joinable, Owns, Fresh
  <2>7. Held(c)'
    BY <1>1, <1>t, <1>g, <2>5, <2>6
       DEF Held, OwnHandle, GoneIsOver, Gone, NoCrash, OpenHasHandle, BatchInHand, InError
  <2>8. LostIsLost(c)' /\ \A d \in Clients : d # c => Same(d) /\ posted'[d] = posted[d]
    BY <1>1, <1>g, <2>5, QueuesKept DEF Same
  <2>9. IInv'
    BY <1>1, <2>4, <2>7, <2>8, OneClient
  <2> QED  BY <2>2, <2>3, <2>9, <1>t, <1>g DEF Held
<1>2. ASSUME NextCallback(c), UNCHANGED <<sockets, handle, registered, user, running>>,
             passed' \in [Clients -> BOOLEAN]
      PROVE  IInv'
  <2>n. /\ thread'[c] \in {"loop", "dispatching"} /\ BatchInHand(c)' /\ LostIsLost(c)'
        /\ \A d \in Clients : d # c => thread'[d] = thread[d] /\ batch'[d] = batch[d]
    BY <1>2, <1>g, Nexting
  <2>1. TypeOK'
    BY <1>2, <1>t, <1>g, Nexting DEF TypeOK, ConnectionsTypeOK, ServerTypeOK
  <2>2. Located(c) => Located(c)'
    BY <1>2, <1>g, <2>n DEF Located, InConnect, InError, Joinable, Idle, Fresh, Owns
  <2>3. Held(c)'
    BY <1>2, <1>t, <1>g, <2>n, <2>2 DEF Held, OwnHandle, GoneIsOver, Gone, NoCrash, OpenHasHandle
  <2>4. \A d \in Clients : d # c => Same(d) /\ posted'[d] = posted[d]
    BY <1>2, <1>g, <2>n DEF Same
  <2> QED  BY <1>2, <2>1, <2>3, <2>4, <2>n, OneClient
<1>3. CASE Die(c, "trapped") /\ UNCHANGED passed
  <2>1. passed' \in [Clients -> BOOLEAN] /\ running' = running
    BY <1>3, <1>t DEF Die, ConnectionsTypeOK
  <2> QED  BY <1>3, <1>g, <2>1, DieKeeps
<1>4. passed \in [Clients -> BOOLEAN] /\ [passed EXCEPT ![c] = TRUE] \in [Clients -> BOOLEAN]
  BY <1>t DEF ConnectionsTypeOK
<1> QED  BY <1>1, <1>2, <1>3, <1>4 DEF Dispatch, info

-----------------------------------------------------------------------------
LEMMA RestOfServersBatch ==
  ASSUME IInv, sthread = "dispatching"
  PROVE  /\ sbatch \in Seq(Callbacks) /\ Tail(sbatch) \in Seq(Callbacks) /\ Head(sbatch) \in Callbacks
         /\ SAfter \in {"loop", "dispatching"} /\ (SAfter = "dispatching" => Tail(sbatch) # <<>>)
<1>1. sbatch \in Seq(Callbacks) /\ sbatch # <<>>
  BY DEF IInv, TypeOK, ServerTypeOK, ServerPolled
<1>2. SAfter \in {"loop", "dispatching"} /\ (SAfter = "dispatching" => Len(sbatch) # 1)
  BY DEF SAfter
<1> QED  BY <1>1, <1>2, Removed

(* The server touches neither the clients nor their ends.                  *)
LEMMA ServerKeeps == IInv /\ NextServer /\ UNCHANGED connections => IInv'
<1> SUFFICES ASSUME IInv, NextServer, UNCHANGED connections PROVE IInv'
  OBVIOUS
<1> USE DEF connections, sockets, SetFar, CloseFar
<1>t. TypeOK /\ ConnectionsTypeOK /\ ServerTypeOK
  BY DEF IInv, TypeOK
<1>c. ConnectionsTypeOK'
  BY <1>t DEF ConnectionsTypeOK
<1>1. ASSUME near' = near, \A c \in Clients : posted'[c] = posted[c],
             posted' \in [Clients \cup {Server} -> Seq(Callbacks)],
             far' \in [Handles -> Ends], listening' \in BOOLEAN, ServerTypeOK', ServerPolled'
      PROVE  IInv'
  <2>1. TypeOK'
    BY <1>1, <1>t, <1>c DEF TypeOK
  <2>2. ASSUME NEW c \in Clients PROVE Held(c)' /\ LostIsLost(c)'
    BY <1>1, SameHeld, QueuesKept DEF Same
  <2> QED  BY <1>1, <2>1, <2>2 DEF IInv
<1>2. CASE Start
  <2>1. /\ listening' \in BOOLEAN /\ srunning' \in BOOLEAN /\ sthread' \in {"none", "loop"}
        /\ starts' \in 0..MaxStarts /\ UNCHANGED <<near, far, posted, table, suser, sbatch, kicked>>
    <3>1. /\ starts < MaxStarts /\ starts' = starts + 1 /\ sthread = "none"
          /\ UNCHANGED <<near, far, posted, table, suser, sbatch, kicked>>
      BY <1>2 DEF Start
    <3>2. starts' \in 0..MaxStarts
      BY <3>1, <1>t DEF ServerTypeOK
    <3>3. listening \in BOOLEAN /\ srunning \in BOOLEAN
      BY <1>t DEF TypeOK, ServerTypeOK
    <3>4. \/ listening' = TRUE /\ srunning' = TRUE /\ sthread' = "loop"
          \/ listening' = listening /\ srunning' = srunning /\ sthread' = sthread
      BY <1>2 DEF Start
    <3> QED  BY <3>1, <3>2, <3>3, <3>4
  <2> QED  BY <1>1, <2>1, <1>t DEF TypeOK, ServerTypeOK, ServerPolled
<1>3. CASE Stop
  BY <1>1, <1>3, <1>t DEF Stop, IInv, TypeOK, ServerTypeOK, ServerPolled
<1>4. CASE Stopped
  BY <1>1, <1>4, <1>t DEF Stopped, TypeOK, ServerTypeOK, ServerPolled, Closed, Ends
<1>5. CASE \E h \in Handles : Kick(h)
  BY <1>1, <1>5, <1>t DEF Kick, IInv, TypeOK, ServerTypeOK, ServerPolled, Ends
<1>6. CASE PollServer /\ ~srunning
  BY <1>1, <1>6, <1>t DEF PollServer, TypeOK, ServerTypeOK, ServerPolled
<1>7. CASE PollServer /\ srunning
  <2>1. /\ sthread' = "dispatching" /\ sbatch' = posted[Server] /\ posted[Server] # <<>>
        /\ posted' = [posted EXCEPT ![Server] = <<>>]
        /\ UNCHANGED <<near, far, listening, table, srunning, suser, starts, kicked>>
    BY <1>7 DEF PollServer
  <2>2. <<>> \in Seq(Callbacks)
    OBVIOUS
  <2>3. posted' \in [Clients \cup {Server} -> Seq(Callbacks)] /\ posted[Server] \in Seq(Callbacks)
    BY <2>1, <2>2, <1>t DEF TypeOK
  <2>4. TypeOK' /\ ServerPolled'
    BY <2>1, <2>3, <1>t, <1>c DEF TypeOK, ServerTypeOK, ServerPolled
  <2>5. \A c \in Clients : posted'[c] = posted[c]
    BY <2>1, <1>t DEF TypeOK
  <2> QED  BY <1>1, <2>1, <2>3, <2>4, <2>5 DEF TypeOK
<1>8. CASE DispatchServer
  <2>1. /\ Head(sbatch) \in Callbacks /\ Tail(sbatch) \in Seq(Callbacks)
        /\ SAfter \in {"loop", "dispatching"} /\ (SAfter = "dispatching" => Tail(sbatch) # <<>>)
    BY <1>8, RestOfServersBatch DEF DispatchServer
  <2>2. Head(sbatch).conn \in Handles
    BY <2>1 DEF Callbacks
  <2>3. /\ UNCHANGED <<near, posted, listening>> /\ far' \in [Handles -> Ends] /\ table' \subseteq Handles
        /\ sthread' \in {SAfter, "crashed"}
    BY <1>8, <2>2, <1>t DEF DispatchServer, Ended, Accept, Drop, TypeOK, ServerTypeOK, Ends
  <2> QED  BY <1>1, <1>8, <2>1, <2>3, <1>t DEF DispatchServer, TypeOK, ServerTypeOK, ServerPolled
<1> QED  BY <1>2, <1>3, <1>4, <1>5, <1>6, <1>7, <1>8 DEF NextServer, ServerThread

LEMMA Stuttering == IInv /\ UNCHANGED vars => IInv'
<1> SUFFICES ASSUME IInv, UNCHANGED vars PROVE IInv'
  OBVIOUS
<1> USE DEF vars, sockets, connections, server
<1>1. TypeOK' /\ ServerPolled'
  BY DEF IInv, TypeOK, ConnectionsTypeOK, ServerTypeOK, ServerPolled
<1>2. ASSUME NEW c \in Clients PROVE Held(c)' /\ LostIsLost(c)'
  BY SameHeld, QueuesKept DEF Same
<1> QED  BY <1>1, <1>2 DEF IInv

LEMMA Stepwise == IInv /\ [Next]_vars => IInv'
BY Stuttering, SocketsKeep, ServerKeeps, ConnectKeeps, CallKeeps, LeftKeeps, PollKeeps, DispatchKeeps, ErrorKeeps
   DEF Next, NextConnections, UserStep, ThreadStep

(* IInv holds of every behaviour: what the handle, the manager's entry and *)
(* the library's end of a Connection have to do with each other at every   *)
(* place of its user and of its polling thread, as long as nobody calls    *)
(* connect early; and that a loss, once posted, stays one.                 *)
THEOREM InductiveInvariant == Spec => []IInv
BY Initial, Stepwise, PTL DEF Spec

(* The variables keep their types, and the manager never gets the invalid  *)
(* handle as a key, unless connect was called early.                       *)
THEOREM TypeCorrect == Spec => []TypeOK
<1>1. IInv => TypeOK
  BY DEF IInv
<1> QED  BY <1>1, InductiveInvariant, PTL

(* While nobody calls connect early, an end that is open in the library    *)
(* belongs to a Connection that has its handle and, but for the first part *)
(* of connect, is found by callbacks.                                      *)
THEOREM OpenIsAlwaysOwned == Spec => []OpenIsOwned
<1>1. IInv => OpenIsOwned
  <2> SUFFICES ASSUME IInv, NEW h \in Handles, NEW c \in Clients, c = ClientOf(h), near[h] \in Open, ~early[c]
               PROVE  handle[c] = h /\ (registered[c] = {h} \/ user[c] \in {"checking", "registering"})
    BY HandleOfClient DEF OpenIsOwned
  <2>1. handle[c] = h /\ ~Gone(c) /\ Located(c) /\ h # Invalid /\ ConnectionsTypeOK
    BY HandleOfClient, Types DEF IInv, Held, OpenHasHandle, GoneIsOver
  <2>2. ~Idle(c) /\ ~HandleClosed(c)
    BY <2>1 DEF Idle, HandleClosed, Open
  <2>3. Owns(c) \/ user[c] \in {"checking", "registering"}
    BY <2>1, <2>2 DEF Located, Gone, InError, ConnectionsTypeOK
  <2> QED  BY <2>1, <2>3 DEF Owns
<1> QED  BY <1>1, InductiveInvariant, PTL

(* A polling thread that receives on a closed handle, and uses a message   *)
(* it does not have, was set going again by a connect that came early.     *)
THEOREM ClosedIsNeverPolled == Spec => []PollsOpenHandle
<1>1. IInv => PollsOpenHandle
  BY DEF IInv, Held, NoCrash, PollsOpenHandle
<1> QED  BY <1>1, InductiveInvariant, PTL

(* While nobody calls connect early, a polling thread stops itself only    *)
(* for the connection it polls: no event of an earlier connection ends the *)
(* new one.  What such an event does instead depends on the build, and the *)
(* theorem does not say that it is nothing: see Dispatch.                  *)
THEOREM OnlyOwnLossesStop == Spec => NoStaleEvent
<1> DEFINE Stops(c) == running[c] /\ ~running'[c] /\ user'[c] = user[c] /\ ~early[c] =>
                         handle[c] # Invalid /\ near[handle[c]] = "Lost"
<1>1. IInv /\ [Next]_vars => \A c \in Clients : Stops(c)
  <2> SUFFICES ASSUME IInv, [Next]_vars, NEW c \in Clients,
                      running[c], ~running'[c], user'[c] = user[c], ~early[c]
               PROVE  handle[c] # Invalid /\ near[handle[c]] = "Lost"
    OBVIOUS
  <2>1. PICK d \in Clients : (Connect(d) \/ Disconnect(d) \/ UserStep(d) \/ ThreadStep(d)) /\ UNCHANGED server
    BY DEF Next, NextConnections, vars, connections
  <2>2. running \in [Clients -> BOOLEAN] /\ ConnectionsTypeOK
    BY Types DEF ConnectionsTypeOK
  <2>3. ~Connect(d) /\ ~Left(d)
    BY DEF Connect, Left
  <2>4. ~Disconnect(d)
    BY <2>2 DEF Disconnect, StopLoop, UserGoes, ConnectionsTypeOK
  <2>5. ~Check(d) /\ ~Register(d) /\ ~SetRunning(d) /\ ~Joined(d)
    BY <2>2 DEF Check, Register, SetRunning, Joined
  <2>6. ~Poll(d) /\ ~CloseLost(d) /\ ~RemoveLost(d) /\ ~ResetLost(d)
    BY DEF Poll, CloseLost, RemoveLost, ResetLost, Die
  <2>7. Dispatch(d) /\ d = c
    BY <2>1, <2>2, <2>3, <2>4, <2>5, <2>6 DEF ThreadStep, UserStep, Dispatch, StopLoop, Die
  <2> QED  BY <2>1, <2>7, DispatchKeeps
<1> QED  BY <1>1, InductiveInvariant, PTL DEF Spec, NoStaleEvent
================================================================================
