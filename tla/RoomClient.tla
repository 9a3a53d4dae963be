----------------------------- MODULE RoomClient -----------------------------
(***************************************************************************)
(* The clients of the room server, fbc.cpp: one loop that waits a moment   *)
(* for the server and then looks for a line the user has typed.            *)
(***************************************************************************)
EXTENDS RoomNet

CONSTANTS
  Client,     \* client processes
  Texts,      \* bound: what each client's user types
  MayQuit,    \* bound: the clients that may be ended
  MaxTyped,   \* bound: how many lines are typed at each client
  MaxAhead    \* bound: answers of the main room a user may still wait for

ASSUME RoomClientAssumption ==
  MaxTyped \in [Client -> Nat] /\ MaxAhead \in Nat \ {0}

VARIABLES
  cpc,        \* "off", in the "main" loop, reading the "welcome", or "gone"
  fd,         \* the connection in use
  join,       \* a JOIN was sent to the main room and not answered yet
  typed, ahead

cvars == <<cpc, fd, join, typed, ahead>>

CInit ==
  /\ cpc = [c \in Client |-> "off"]
  /\ fd = [c \in Client |-> 0]
  /\ join = [c \in Client |-> FALSE]
  /\ typed = [c \in Client |-> 0]
  /\ ahead = [c \in Client |-> 0]

(* The variable port: it changes with fd.                                  *)
port(c) == conn[fd[c]].port

(* Client c, whose program has got to `from`.                              *)
At(c, from) == up /\ cpc[c] = from /\ UNCHANGED <<up, listening>>

(* connect_on_port: a connection beside those in cs, which stay open, and  *)
(* the loop goes on at `to`.                                               *)
connect_on_port(c, p, cs, to) ==
  /\ p \in listening
  /\ conn' = Append(cs, Queued(c, p))
  /\ fd' = [fd EXCEPT ![c] = Len(cs) + 1]
  /\ cpc' = [cpc EXCEPT ![c] = to]

(* The process of client c ends.                                           *)
Exit(c) ==
  /\ conn' = [k \in DOMAIN conn |->
                [conn[k] EXCEPT !.here = @ /\ conn[k].client # c]]
  /\ cpc' = [cpc EXCEPT ![c] = "gone"]
  /\ UNCHANGED fd

Start(c) ==
  /\ At(c, "off")
  /\ connect_on_port(c, MasterPort, conn, "main")
  /\ ahead' = [ahead EXCEPT ![c] = 1]
  /\ UNCHANGED <<join, typed>>

(* What cread may return to client c, and the connections after it.        *)
Read(c) ==
  {[msg |-> r.msg, conn |-> [conn EXCEPT ![fd[c]].replies = r.rest]] :
     r \in cread(conn[fd[c]].replies, conn[fd[c]].srv = "closed")}

Received(c) ==
  /\ join' = [join EXCEPT ![c] = FALSE]
  /\ UNCHANGED typed

(* The room is being deleted: back to the main room.                       *)
Rejoin(c) ==
  /\ At(c, "main")
  /\ \E r \in Read(c) :
       /\ r.msg = <<"goodbye">>
       /\ connect_on_port(c, MasterPort, r.conn, "main")
  /\ ahead' = [ahead EXCEPT ![c] = 1]
  /\ Received(c)

(* The answer to a JOIN: on to the room.                                   *)
GoToRoom(c) ==
  /\ At(c, "main")
  /\ join[c]
  /\ \E r \in Read(c) :
       /\ r.msg[1] = "port"
       /\ connect_on_port(c, r.msg[2], r.conn, "welcome")
  /\ ahead' = [ahead EXCEPT ![c] = 0]
  /\ Received(c)

(* No one listens there yet, or any more: exit(1).                         *)
ConnectFails(c) ==
  /\ At(c, "main")
  /\ join[c]
  /\ \E r \in Read(c) : r.msg[1] = "port" /\ r.msg[2] \notin listening
  /\ Exit(c)
  /\ UNCHANGED ahead
  /\ Received(c)

(* Any other message is printed, and ends the wait for a port.             *)
Show(c) ==
  /\ At(c, "main")
  /\ \E r \in Read(c) :
       /\ r.msg # <<"goodbye">>
       /\ ~(join[c] /\ r.msg[1] = "port")
       /\ conn' = r.conn
  /\ ahead' = [ahead EXCEPT ![c] = IF @ > 0 THEN @ - 1 ELSE 0]
  /\ UNCHANGED <<cpc, fd>>
  /\ Received(c)

(* The blocking read that follows the connection to a room.                *)
Welcome(c) ==
  /\ At(c, "welcome")
  /\ \E r \in Read(c) : conn' = r.conn
  /\ cpc' = [cpc EXCEPT ![c] = "main"]
  /\ UNCHANGED <<fd, join, typed, ahead>>

(* A line is typed.  The server's end may be closed; the bytes are then    *)
(* lost.                                                                   *)
Type(c, m) ==
  /\ At(c, "main")
  /\ m \in Texts[c] /\ typed[c] < MaxTyped[c]
  /\ port(c) = MasterPort => ahead[c] < MaxAhead
  /\ conn' = [conn EXCEPT ![fd[c]].requests =
                IF conn[fd[c]].srv = "closed" THEN @ ELSE Append(@, m)]
  /\ join' = [join EXCEPT ![c] = @ \/ (m[1] = "JOIN" /\ port(c) = MasterPort)]
  /\ typed' = [typed EXCEPT ![c] = @ + 1]
  /\ ahead' = [ahead EXCEPT ![c] = IF port(c) = MasterPort THEN @ + 1 ELSE @]
  /\ UNCHANGED <<cpc, fd>>

(* The user ends the client, or a write to a closed connection does.       *)
Quit(c) ==
  /\ c \in MayQuit
  /\ At(c, "main") \/ At(c, "welcome")
  /\ Exit(c)
  /\ UNCHANGED <<join, typed, ahead>>

(* What the program does by itself, and what its user does.                *)
ClientLoop(c) ==
  Rejoin(c) \/ GoToRoom(c) \/ ConnectFails(c) \/ Show(c) \/ Welcome(c)
UserAction(c) == Start(c) \/ Quit(c) \/ \E m \in Texts[c] : Type(c, m)

CNext == \E c \in Client : ClientLoop(c) \/ UserAction(c)
=============================================================================
