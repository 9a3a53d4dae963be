----------------------------- MODULE RoomServer -----------------------------
(***************************************************************************)
(* The room server, oldCode/fbsd.cpp.  The main thread serves the clients  *)
(* that are in no room and starts one thread for each room; they share the *)
(* vector of rooms and the result of getaddrinfo, without a lock.          *)
(*                                                                         *)
(* A step is one turn of a loop or one access to what is shared.  Indices  *)
(* start at 1; a thread is named after the port its room was given.        *)
(***************************************************************************)
EXTENDS RoomNet

CONSTANTS
  Room,       \* names of rooms
  MaxPorts    \* bound: ports that getNextPort gives out

ASSUME RoomServerAssumption == MaxPorts \in Nat

VARIABLES
  fds,        \* connections in the main room (masterfd at the front left out)
  rooms,      \* the vector of rooms
  nextPort,
  serv,       \* the port in the result of getaddrinfo, or Freed
  mpc,        \* the main thread: "select", "scan" a ready set, or "act"
  mready, mi, \* the ready connections, and the position reached in fds
  mreq,       \* the request just read
  mfound,     \* foundChannel, the index that getRoomByName returned
  tpc,        \* what each room thread is about to do
  slavePort,  \* the port it was told to serve
  slavefd,    \* the port its listening socket is bound to
  index,      \* its variable room
  watch,      \* read_fd_set as filled at the top of its loop
  tready, ti  \* the ready connections, and the position reached in members

master == <<mpc, mready, mi, mreq, mfound>>
threads == <<tpc, slavePort, slavefd, index, watch, tready, ti>>
svars == <<fds, rooms, nextPort, serv, master, threads>>

Thread == 1 .. MaxPorts
Freed == -1

(* A listening socket as an element of members: the first of each room,    *)
(* unless a thread has the index of another's.                             *)
Listener(p) == -p

(* The sockets of a set are closed; with a listening socket also the       *)
(* connections that wait there.                                            *)
Close(connections, ks) ==
  /\ listening' = {p \in listening : Listener(p) \notin ks}
  /\ conn' = Closed(connections, ks \cup
                {k \in DOMAIN connections : /\ connections[k].srv = "queued"
                                            /\ Listener(connections[k].port) \in ks})

(* Stages in which a thread refers to the vector of rooms.                 *)
UsesRooms == {"lookup", "loop", "accept", "scan", "goodbye", "erase"}

SInit ==
  /\ up = TRUE /\ listening = {MasterPort} /\ conn = <<>>
  /\ fds = <<>> /\ rooms = <<>> /\ nextPort = 1 /\ serv = Freed
  /\ mpc = "select" /\ mready = {} /\ mi = 1 /\ mreq = Empty /\ mfound = 0
  /\ tpc = [t \in Thread |-> "none"]
  /\ slavePort = [t \in Thread |-> MasterPort]
  /\ slavefd = [t \in Thread |-> MasterPort]
  /\ index = [t \in Thread |-> 0]
  /\ watch = [t \in Thread |-> {}]
  /\ tready = [t \in Thread |-> {}]
  /\ ti = [t \in Thread |-> 2]

NewRoom(name, port) ==
  [name |-> name, port |-> port, members |-> <<>>, close |-> FALSE]

(* The port that nextPort had is the one taken.                            *)
getNextPort == nextPort' = nextPort + 1

(* Both searches run from the front; 0 stands for -1.                      *)
FirstRoom(is) == IF is = {} THEN 0 ELSE Min(is)
getRoomByName(name) == FirstRoom({i \in DOMAIN rooms : rooms[i].name = name})
getRoomByPort(port) == FirstRoom({i \in DOMAIN rooms : rooms[i].port = port})

-----------------------------------------------------------------------------
(* create_master_room: the loop of the main thread.                        *)

MasterStep(from, to) == up /\ mpc = from /\ mpc' = to

(* A connection waits on the master port: it is accepted, and the clients  *)
(* that sent a request wait for the next turn.                             *)
MasterAccept ==
  /\ MasterStep("select", "select")
  /\ \E k \in FirstQueued(MasterPort) :
       /\ conn' = cwrite([conn EXCEPT ![k].srv = "open"], {k}, <<"welcome">>)
       /\ fds' = Append(fds, k)
  /\ UNCHANGED <<up, listening, rooms, nextPort, serv, mready, mi, mreq, mfound,
                 threads>>

MasterSelect ==
  /\ MasterStep("select", "scan")
  /\ FirstQueued(MasterPort) = {}
  /\ mready' = {k \in Range(fds) : Ready(k)}
  /\ mready' # {}
  /\ mi' = 1
  /\ UNCHANGED <<net, fds, rooms, nextPort, serv, mreq, mfound, threads>>

MasterPending == {i \in DOMAIN fds : i >= mi /\ fds[i] \in mready}

(* cread, and the start of process_request: which request it is, the port  *)
(* a CREATE takes before it looks for the name, and the room found.  Of an *)
(* empty message the code reads what lies 8 bytes behind its start.        *)
MasterRead ==
  /\ MasterPending # {}
  /\ MasterStep("scan", "act")
  /\ mi' = Min(MasterPending)
  /\ LET k == fds[Min(MasterPending)]
     IN  \E r \in cread(conn[k].requests, ~conn[k].here) :
           /\ conn' = [conn EXCEPT ![k].requests = r.rest]
           /\ mreq' \in {r.msg} \cup (IF r.msg = Empty THEN {<<"TALK">>} ELSE {})
  /\ IF mreq'[1] = "CREATE" THEN getNextPort ELSE UNCHANGED nextPort
  /\ mfound' = IF Len(mreq') = 2 THEN getRoomByName(mreq'[2]) ELSE 0
  /\ UNCHANGED <<up, listening, fds, rooms, serv, mready, threads>>

MasterScanned ==
  /\ MasterPending = {}
  /\ MasterStep("scan", "select")
  /\ mready' = {} /\ mi' = 1
  /\ UNCHANGED <<net, fds, rooms, nextPort, serv, mreq, mfound, threads>>

(* The request is dealt with, and the scan goes on at the next position,   *)
(* which an erased element has moved.                                      *)
Act(request) ==
  /\ mreq[1] = request
  /\ MasterStep("act", "scan")
  /\ mi' = mi + 1 /\ mreq' = Empty /\ mfound' = 0
  /\ UNCHANGED <<up, listening, nextPort, serv, mready, slavePort, slavefd, index, watch,
                 tready, ti>>

Answer(m) == conn' = cwrite(conn, {fds[mi]}, m)

(* A new room, with the thread that will serve it.                         *)
Create ==
  /\ mfound = 0
  /\ Act("CREATE")
  /\ rooms' = Append(rooms, NewRoom(mreq[2], nextPort - 1))
  /\ tpc' = [tpc EXCEPT ![nextPort - 1] = "start"]
  /\ Answer(<<"reply">>)
  /\ UNCHANGED fds

(* The client is told the port of the room, and no longer listened to.     *)
Join ==
  /\ mfound \in DOMAIN rooms
  /\ Act("JOIN")
  /\ Answer(<<"port", rooms[mfound].port>>)
  /\ fds' = RemoveAt(fds, mi)
  /\ UNCHANGED <<rooms, tpc>>

Delete ==
  /\ mfound \in DOMAIN rooms
  /\ Act("DELETE")
  /\ rooms' = [rooms EXCEPT ![mfound].close = TRUE]
  /\ Answer(<<"reply">>)
  /\ UNCHANGED <<fds, tpc>>

(* Mutated form: who asks for a room that does not exist is erased too.    *)
RefuseErases ==
  /\ mfound = 0 /\ Act("JOIN")
  /\ Answer(<<"reply">>)
  /\ fds' = RemoveAt(fds, mi)
  /\ UNCHANGED <<rooms, tpc>>

(* CREATE of a name that exists, JOIN and DELETE of one that does not, and *)
(* anything else.                                                          *)
Refuse ==
  /\ \/ mfound # 0 /\ Act("CREATE")
     \/ mfound = 0 /\ (Act("JOIN") \/ Act("DELETE"))
     \/ Act("TALK")
  /\ Answer(<<"reply">>)
  /\ UNCHANGED <<fds, rooms, tpc>>

Disconnect ==
  /\ Act(Empty[1])
  /\ conn' = Closed(conn, {fds[mi]})
  /\ fds' = RemoveAt(fds, mi)
  /\ UNCHANGED <<rooms, tpc>>

process_request == Create \/ Join \/ Delete \/ Refuse \/ Disconnect

-----------------------------------------------------------------------------
(* create_slave_room: the thread of a room.                                *)

ThreadStep(t, from, to) ==
  /\ up
  /\ tpc[t] = from
  /\ tpc' = [tpc EXCEPT ![t] = to]
  /\ UNCHANGED <<fds, nextPort, master>>

(* Mutated form: the thread takes the port that will be given out next.    *)
ResolveNext(t) ==
  /\ ThreadStep(t, "start", "bind")
  /\ serv' = nextPort
  /\ slavePort' = [slavePort EXCEPT ![t] = serv']
  /\ UNCHANGED <<net, rooms, slavefd, index, watch, tready, ti>>

(* args points to newPort of process_request, which has returned: it finds *)
(* the port of this room or the one a later CREATE has put in its place.   *)
Resolve(t) ==
  /\ ThreadStep(t, "start", "bind")
  /\ serv' \in {t, nextPort - 1}
  /\ slavePort' = [slavePort EXCEPT ![t] = serv']
  /\ UNCHANGED <<net, rooms, slavefd, index, watch, tready, ti>>

(* socket and bind, to the address that serv points to by now.  (A port    *)
(* that another socket listens on, or freed memory, ends the process.)     *)
Bind(t) ==
  /\ serv \notin listening \cup {Freed}
  /\ ThreadStep(t, "bind", "listen")
  /\ slavefd' = [slavefd EXCEPT ![t] = serv]
  /\ UNCHANGED <<net, rooms, serv, slavePort, index, watch, tready, ti>>

(* freeaddrinfo and listen.                                                *)
Listen(t) ==
  /\ serv # Freed /\ slavefd[t] \notin listening
  /\ ThreadStep(t, "listen", "lookup")
  /\ serv' = Freed
  /\ listening' = listening \cup {slavefd[t]}
  /\ UNCHANGED <<up, conn, rooms, slavePort, slavefd, index, watch, tready, ti>>

(* The room is looked for once; the thread keeps its index.                *)
Lookup(t) ==
  /\ getRoomByPort(slavePort[t]) # 0
  /\ ThreadStep(t, "lookup", "loop")
  /\ index' = [index EXCEPT ![t] = getRoomByPort(slavePort[t])]
  /\ rooms' = [rooms EXCEPT ![index'[t]].members = Append(@, Listener(slavefd[t]))]
  /\ UNCHANGED <<net, serv, slavePort, slavefd, watch, tready, ti>>

(* The room this thread refers to, if there is one at its index.           *)
HasRoom(t) == index[t] \in DOMAIN rooms
Members(t) == rooms[index[t]].members

(* Mutated form: the loop does not look at the flag.                       *)
LoopUnchecked(t) ==
  /\ HasRoom(t)
  /\ ThreadStep(t, "loop", "wait")
  /\ watch' = [watch EXCEPT ![t] = Range(Members(t))]
  /\ UNCHANGED <<net, rooms, serv, slavePort, slavefd, index, tready, ti>>

(* The top of the loop.                                                    *)
Loop(t) ==
  /\ HasRoom(t)
  /\ \/ /\ rooms[index[t]].close
        /\ ThreadStep(t, "loop", "goodbye")
        /\ UNCHANGED watch
     \/ /\ ~rooms[index[t]].close
        /\ ThreadStep(t, "loop", "wait")
        /\ watch' = [watch EXCEPT ![t] = Range(Members(t))]
  /\ UNCHANGED <<net, rooms, serv, slavePort, slavefd, index, tready, ti>>

Incoming(t) ==
  Listener(slavefd[t]) \in watch[t] /\ FirstQueued(slavefd[t]) # {}

(* Someone waits at the listening socket k.                                *)
Knocked(k) == \E p \in listening : k = Listener(p) /\ FirstQueued(p) # {}

(* select reports a connection to accept, or messages to read, or, when    *)
(* there is neither, has waited for a second.                              *)
Select(t) ==
  /\ LET ready == {k \in watch[t] : Ready(k) \/ Knocked(k)}
     IN  \/ /\ Incoming(t)
            /\ ThreadStep(t, "wait", "accept")
            /\ UNCHANGED tready
         \/ /\ ~Incoming(t) /\ ready # {}
            /\ ThreadStep(t, "wait", "scan")
            /\ tready' = [tready EXCEPT ![t] = ready]
         \/ /\ ~Incoming(t) /\ ready = {}
            /\ ThreadStep(t, "wait", "loop")
            /\ UNCHANGED tready
  /\ watch' = [watch EXCEPT ![t] = {}]
  /\ UNCHANGED <<net, rooms, serv, slavePort, slavefd, index, ti>>

Accept(t) ==
  /\ HasRoom(t)
  /\ ThreadStep(t, "accept", "loop")
  /\ \E k \in FirstQueued(slavefd[t]) :
       /\ conn' = cwrite([conn EXCEPT ![k].srv = "open"], {k}, <<"welcome">>)
       /\ rooms' = [rooms EXCEPT ![index[t]].members = Append(@, k)]
  /\ UNCHANGED <<up, listening, serv, slavePort, slavefd, index, watch, tready, ti>>

Pending(t) == {i \in DOMAIN Members(t) : i >= ti[t] /\ Members(t)[i] \in tready[t]}

(* A message of member k goes to every member of the room but k.           *)
Forward(t, k, cs) ==
  cwrite(cs, {Members(t)[i] : i \in 2 .. Len(Members(t))} \ {k}, <<"talk", k>>)

(* What is read from socket k; recv fails on a listening one.              *)
Reads(k) ==
  IF k \in DOMAIN conn THEN cread(conn[k].requests, ~conn[k].here)
                       ELSE {[msg |-> Empty, rest |-> <<>>]}

(* One turn of the scan, with process_slave_request.                       *)
Scan(t) ==
  /\ HasRoom(t) /\ Pending(t) # {}
  /\ ThreadStep(t, "scan", "scan")
  /\ LET i == Min(Pending(t))
         k == Members(t)[i]
     IN  /\ ti' = [ti EXCEPT ![t] = i + 1]
         /\ \E r \in Reads(k) :
              IF r.msg = Empty
              THEN /\ Close(conn, {k})
                   /\ rooms' = [rooms EXCEPT
                                  ![index[t]].members = RemoveAt(@, i)]
              ELSE /\ conn' = Forward(t, k, [conn EXCEPT ![k].requests = r.rest])
                   /\ UNCHANGED <<listening, rooms>>
  /\ UNCHANGED <<up, serv, slavePort, slavefd, index, watch, tready>>

Scanned(t) ==
  /\ HasRoom(t) /\ Pending(t) = {}
  /\ ThreadStep(t, "scan", "loop")
  /\ tready' = [tready EXCEPT ![t] = {}]
  /\ ti' = [ti EXCEPT ![t] = 2]
  /\ UNCHANGED <<net, rooms, serv, slavePort, slavefd, index, watch>>

(* Mutated form: the loop that closes the connections does not erase them. *)
GoodbyeKeeps(t) ==
  /\ HasRoom(t)
  /\ ThreadStep(t, "goodbye", "erase")
  /\ conn' = Closed(conn, {Members(t)[i] : i \in DOMAIN Members(t)})
  /\ UNCHANGED <<up, listening, rooms, serv, slavePort, slavefd, index, watch, tready, ti>>

(* The loop that closes the sockets of a room erases each of them, which   *)
(* moves the next to its place, and goes on behind it: every second stays. *)
EverySecond(m) == [i \in 1 .. Len(m) \div 2 |-> m[2 * i]]

(* The goodbye of a room that is closed.  The first of the sockets is the  *)
(* listening one, and who waits there is cut off.                          *)
Goodbye(t) ==
  /\ HasRoom(t)
  /\ ThreadStep(t, "goodbye", "erase")
  /\ LET m == Members(t)
         told == cwrite(conn, {m[i] : i \in 2 .. Len(m)}, <<"goodbye">>)
     IN  /\ Close(told, {m[i] : i \in {j \in DOMAIN m : j % 2 = 1}})
         /\ rooms' = [rooms EXCEPT ![index[t]].members = EverySecond(@)]
  /\ UNCHANGED <<up, serv, slavePort, slavefd, index, watch, tready, ti>>

(* deleteRoomByName, and the end of the thread.  The rooms behind the      *)
(* erased one move up; the indices of their threads do not.                *)
Erase(t) ==
  /\ HasRoom(t)
  /\ ThreadStep(t, "erase", "done")
  /\ rooms' = RemoveAt(rooms, getRoomByName(rooms[index[t]].name))
  /\ UNCHANGED <<net, serv, slavePort, slavefd, index, watch, tready, ti>>

create_slave_room(t) ==
  \/ Resolve(t) \/ Bind(t) \/ Listen(t) \/ Lookup(t)
  \/ Loop(t) \/ Select(t) \/ Accept(t) \/ Scan(t) \/ Scanned(t)
  \/ Goodbye(t) \/ Erase(t)

-----------------------------------------------------------------------------
(* The end of the process.                                                 *)

(* One thread changes the vector of rooms while another refers to it.      *)
Creating == mpc = "act" /\ mreq[1] = "CREATE" /\ mfound = 0
Race(t) ==
  \/ tpc[t] \in UsesRooms /\ Creating
  \/ tpc[t] = "erase" /\ (mpc \in {"scan", "act"}
                          \/ \E u \in Thread \ {t} : tpc[u] \in UsesRooms)

(* exit(1), or what is undefined: a name or an address in memory that has  *)
(* been given back, an index without a room, a write to a closed socket.   *)
ThreadMayDie(t) ==
  \/ Race(t)
  \/ tpc[t] = "start"
  \/ tpc[t] = "bind" /\ serv \in listening \cup {Freed}
  \/ tpc[t] = "listen" /\ (serv = Freed \/ slavefd[t] \in listening)
  \/ tpc[t] = "lookup" /\ getRoomByPort(slavePort[t]) = 0
  \/ tpc[t] \in UsesRooms \ {"lookup"} /\ ~HasRoom(t)
  \/ /\ tpc[t] \in {"scan", "goodbye"} /\ HasRoom(t)
     /\ \E i \in 2 .. Len(Members(t)) : Broken(Members(t)[i])

MasterMayDie ==
  /\ mpc = "act"
  /\ \/ mfound > Len(rooms)
     \/ mreq # Empty /\ Broken(fds[mi])

Die ==
  /\ up
  /\ up' = FALSE
  /\ UNCHANGED <<listening, conn, svars>>

MainThread ==
  \/ MasterAccept \/ MasterSelect \/ MasterRead \/ MasterScanned
  \/ process_request
  \/ MasterMayDie /\ Die
RoomThread(t) == create_slave_room(t) \/ (ThreadMayDie(t) /\ Die)

SNext == MainThread \/ \E t \in Thread : RoomThread(t)
=============================================================================
