------------------------------ MODULE RoomNet ------------------------------
(***************************************************************************)
(* What lies between the room server (oldCode/fbsd.cpp) and its clients    *)
(* (fbc.cpp): listening sockets, connections, and the reads and writes of  *)
(* common.h.                                                               *)
(*                                                                         *)
(* Ports are counted from MasterPort, which stands for 1024.  Messages are *)
(* tuples that start with their kind; they are short, so that the bytes of *)
(* several of them fit in the 255 that one recv takes.                     *)
(***************************************************************************)
EXTENDS Integers, Sequences, SequencesExt

MasterPort == 0

(* What cread returns when the other end has closed, or on an error.       *)
Empty == <<"">>

VARIABLES
  up,          \* the server process is alive
  listening,   \* the ports it listens on
  conn         \* the connections, in the order they were made

net == <<up, listening, conn>>

(* A connection the server has not accepted yet; `here` tells whether the  *)
(* client's end is open, `srv` what has become of the server's end.        *)
Queued(c, p) ==
  [client |-> c, port |-> p, srv |-> "queued", here |-> TRUE,
   requests |-> <<>>, replies |-> <<>>]

FirstQueued(p) ==
  {k \in DOMAIN conn :
     /\ conn[k].port = p /\ conn[k].srv = "queued"
     /\ \A j \in 1 .. k - 1 : conn[j].port = p => conn[j].srv # "queued"}

(* What recv may take from a queue of messages, and what it leaves.  Each  *)
(* is sent with its terminating NUL, and the buffer is read as one string: *)
(* when several arrive at once all but the first are lost.  Once the other *)
(* end is closed, what was not read may be lost too.                       *)
cread(queue, ended) ==
  {[msg |-> Head(queue), rest |-> SubSeq(queue, n + 1, Len(queue))] :
     n \in DOMAIN queue}
    \cup (IF ended THEN {[msg |-> Empty, rest |-> <<>>]} ELSE {})

(* The server sends m on the connections of a set.                         *)
cwrite(connections, ks, m) ==
  [k \in DOMAIN connections |->
     IF k \in ks /\ connections[k].here
     THEN [connections[k] EXCEPT !.replies = Append(@, m)]
     ELSE connections[k]]

(* The server closes its end of the connections of a set.                  *)
Closed(connections, ks) ==
  [k \in DOMAIN connections |->
     IF k \in ks
     THEN [connections[k] EXCEPT !.srv = "closed", !.requests = <<>>]
     ELSE connections[k]]

(* A select of the server reports k: there is something to read, or the    *)
(* client's end is closed.                                                 *)
Ready(k) == k \in DOMAIN conn /\ (conn[k].requests # <<>> \/ ~conn[k].here)

(* The next send on k may raise SIGPIPE, which nobody handles: the other   *)
(* end is closed, or k is no connection but a listening socket.            *)
Broken(k) == k \in DOMAIN conn => ~conn[k].here
=============================================================================
