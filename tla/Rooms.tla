------------------------------- MODULE Rooms -------------------------------
(***************************************************************************)
(* The room server and its clients together.                               *)
(***************************************************************************)
EXTENDS RoomServer, RoomClient

rvars == <<net, svars, cvars>>

(* Bound: no CREATE is typed that could ask for more than MaxPorts ports.  *)
CreatesSent(connections) ==
  UNION {{<<k, i>> : i \in {i \in DOMAIN connections[k].requests :
                              connections[k].requests[i][1] = "CREATE"}} :
           k \in DOMAIN connections}
PortsLeft == nextPort + Cardinality(CreatesSent(conn')) <= MaxPorts + 1

RInit == SInit /\ CInit
ServerStep == SNext /\ UNCHANGED cvars
ClientStep == CNext /\ UNCHANGED svars /\ PortsLeft
RNext == ServerStep \/ ClientStep
RSpec == RInit /\ [][RNext]_rvars

(* The threads of the server and the loops of the clients are scheduled.   *)
RFairness ==
  /\ WF_rvars(MainThread /\ UNCHANGED cvars)
  /\ \A t \in Thread : WF_rvars(RoomThread(t) /\ UNCHANGED cvars)
  /\ \A c \in Client : WF_rvars(ClientLoop(c) /\ UNCHANGED svars)
RFairSpec == RSpec /\ RFairness

-----------------------------------------------------------------------------
Requests == ({"CREATE", "JOIN", "DELETE"} \X Room) \cup {<<"TALK">>}
Replies ==
  {<<"welcome">>, <<"reply">>, <<"goodbye">>} \cup
    ({"port"} \X Thread) \cup ({"talk"} \X Nat)

ASSUME UsersAssumption == Texts \in [Client -> SUBSET Requests]

Connection ==
  [client : Client, port : Thread \cup {MasterPort}, srv : {"queued", "open", "closed"},
   here : BOOLEAN, requests : Seq(Requests), replies : Seq(Replies)]
Socket == (DOMAIN conn) \cup {Listener(p) : p \in Thread}
Chamber(S) == [name : Room, port : Thread, members : Seq(S), close : BOOLEAN]

(* The variables have their types.                                         *)
RTypeOK ==
  /\ up \in BOOLEAN
  /\ listening \subseteq Thread \cup {MasterPort}
  /\ conn \in Seq(Connection)
  /\ fds \in Seq(DOMAIN conn)
  /\ rooms \in Seq(Chamber(Socket))
  /\ nextPort \in 1 .. MaxPorts + 1
  /\ serv \in Thread \cup {Freed}
  /\ mpc \in {"select", "scan", "act"}
  /\ mready \subseteq DOMAIN conn
  /\ mi \in Nat
  /\ mreq \in Requests \cup {Empty}
  /\ mfound \in Nat
  /\ tpc \in [Thread -> UsesRooms \cup {"none", "start", "bind", "listen", "wait",
                                        "done"}]
  /\ slavePort \in [Thread -> Thread \cup {MasterPort}]
  /\ slavefd \in [Thread -> Thread \cup {MasterPort}]
  /\ index \in [Thread -> Nat]
  /\ watch \in [Thread -> SUBSET Socket]
  /\ tready \in [Thread -> SUBSET Socket]
  /\ ti \in [Thread -> Nat]
  /\ cpc \in [Client -> {"off", "main", "welcome", "gone"}]
  /\ fd \in [Client -> Nat]
  /\ join \in [Client -> BOOLEAN]
  /\ typed \in [Client -> Nat]
  /\ ahead \in [Client -> 0 .. MaxAhead]

(* Where the server keeps connection k: the main room, or the room at i.   *)
Places(k) ==
  {0 : i \in {i \in DOMAIN fds : fds[i] = k}} \cup
  {i \in DOMAIN rooms : \E j \in DOMAIN rooms[i].members : rooms[i].members[j] = k}

(* A socket is in one list at most, once, and open; the main room listens  *)
(* to those who came to its port, and no room does.  This holds of any     *)
(* rooms, even of threads that use the index of another's: erase and close *)
(* are done by position while lists shrink under the loops.                *)
OneList ==
  /\ \A k \in DOMAIN conn : Cardinality(Places(k)) <= 1
  /\ \A i, j \in DOMAIN fds : fds[i] = fds[j] => i = j
  /\ \A i \in DOMAIN fds :
       conn[fds[i]].port = MasterPort /\ conn[fds[i]].srv = "open"
  /\ \A i \in DOMAIN rooms : \A j \in DOMAIN rooms[i].members :
       LET k == rooms[i].members[j]
       IN  /\ k > 0 => conn[k].port # MasterPort /\ conn[k].srv = "open"
           /\ k < 0 => \E p \in listening : k = Listener(p)
           /\ \A l \in 1 .. j - 1 : rooms[i].members[l] # k

(* A client that waits in a room or in the main room is heard there: its   *)
(* connection is in the list that its port's thread selects from, unless   *)
(* that room is closing or gone.                                           *)
Heard(c) ==
  \/ Places(fd[c]) # {}
  \/ port(c) # MasterPort /\ \A i \in DOMAIN rooms :
       rooms[i].port = port(c) => rooms[i].close
Online(c) == up /\ cpc[c] \in {"main", "welcome"}
EveryoneHeard == \A c \in Client : []<>(Online(c) => Heard(c))

(* A room that was deleted goes: its thread sees the flag, and erases it.  *)
DeletedRoomGoes ==
  \A t \in Thread :
    (\E i \in DOMAIN rooms : rooms[i].port = t /\ rooms[i].close)
      ~> (~up \/ \A i \in DOMAIN rooms : rooms[i].port # t)
=============================================================================
