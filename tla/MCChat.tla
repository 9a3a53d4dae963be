------------------------------- MODULE MCChat -------------------------------
(***************************************************************************)
(* Instances of ChatServer for TLC.                                        *)
(***************************************************************************)
EXTENDS ChatServer, TLC

CONSTANTS c1, c2, c3, a, b, d

(* Two or three clients, each with a name of its own.                      *)
TwoNames == c1 :> a @@ c2 :> b
ThreeNames == c1 :> a @@ c2 :> b @@ c3 :> d

(* A reader, and two processes of the user it reads.                       *)
TwoOfOne == c1 :> a @@ c2 :> b @@ c3 :> b

(* The commands of the clients.                                            *)
OneJoins   == c1 :> {"JOIN", "LEAVE"} @@ c2 :> {"CHAT"} @@ c3 :> {}
OneLeaves  == c1 :> {"JOIN", "LEAVE"} @@ c2 :> {} @@ c3 :> {}
TwoChat    == c1 :> {"JOIN", "CHAT"} @@ c2 :> {"CHAT"} @@ c3 :> {}
Reading    == c1 :> {"JOIN", "LEAVE", "LIST", "CHAT", "QUIT"} @@ c2 :> {"CHAT", "QUIT"} @@ c3 :> {}
Writing    == c1 :> {"CHAT", "QUIT"} @@ c2 :> {"CHAT"} @@ c3 :> {"LEAVE", "CHAT"}

(* What the server finds at its start: the file of a session in which a    *)
(* and b logged in and joined each other, and b has posted a message; and  *)
(* of one in which it is a who has, twice.  (The ranks of these messages   *)
(* are not those of messages that are typed later.)                        *)
PostOf(n, c, t) == [name |-> n, msg |-> <<c, 10 * t>>, timestamp |-> t]
MutualFile ==
  [timelines |-> <<[name |-> a, subscribed |-> <<b>>, statuses |-> {}],
                   [name |-> b, subscribed |-> <<a>>, statuses |-> {PostOf(b, c2, 1)}]>>,
   counter |-> 11]
BusyFile ==
  [timelines |-> <<[name |-> a, subscribed |-> <<b>>,
                    statuses |-> {PostOf(a, c1, t) : t \in 1..2}],
                   [name |-> b, subscribed |-> <<a>>, statuses |-> {}]>>,
   counter |-> 12]

(* The file of a session in which b joined d and both have posted, and of  *)
(* one in which also a logged in and joined them.                          *)
AuthorsFile ==
  [timelines |-> <<[name |-> b, subscribed |-> <<d>>, statuses |-> {PostOf(b, c2, 1)}],
                   [name |-> d, subscribed |-> <<>>, statuses |-> {PostOf(d, c3, 2)}]>>,
   counter |-> 12]
ThreeFile ==
  [AuthorsFile EXCEPT !.timelines =
     <<[name |-> a, subscribed |-> <<b, d>>, statuses |-> {}]>> \o @]

(* The same, in which a joined b only, and has posted too.                 *)
LeaverFile ==
  [timelines |->
     <<[name |-> a, subscribed |-> <<b>>, statuses |-> {PostOf(a, c1, 3)}]>>
       \o AuthorsFile.timelines,
   counter |-> 13]
=============================================================================
