--------------------------- MODULE MCPersistence ---------------------------
(***************************************************************************)
(* Instances of ChatPersistence for TLC.                                   *)
(***************************************************************************)
EXTENDS ChatPersistence, TLC

CONSTANTS c1, c2, a, b

OwnNames == c1 :> a @@ c2 :> b
Saving == c1 :> {"JOIN"} @@ c2 :> {"LEAVE", "CHAT"}
Posting == c1 :> {} @@ c2 :> {"CHAT"}

(* a and b have logged in before, b joined a and a has posted.             *)
PostOf(i, t) == [name |-> a, msg |-> <<c1, i>>, timestamp |-> t]
Known ==
  [timelines |->
     <<[name |-> a, subscribed |-> <<>>, statuses |-> {PostOf(0, 1), PostOf(1, 2)}],
       [name |-> b, subscribed |-> <<a>>, statuses |-> {}]>>,
   counter |-> 12]

(* Only a has logged in before.                                            *)
OneUser == [Known EXCEPT !.timelines = SubSeq(@, 1, 1)]
=============================================================================
