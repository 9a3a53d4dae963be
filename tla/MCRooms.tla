------------------------------ MODULE MCRooms ------------------------------
(***************************************************************************)
(* Instances of Rooms for TLC.                                             *)
(***************************************************************************)
EXTENDS Rooms

CONSTANTS c1, c2, a, b

Commands(kinds) == kinds \X Room

(* One client opens rooms and enters them; the other does too, talks, and  *)
(* deletes rooms.  Each types two lines.                                   *)
Guests ==
  c1 :> Commands({"CREATE", "JOIN"}) @@
  c2 :> Commands({"CREATE", "JOIN", "DELETE"}) \cup {<<"TALK">>}
Lines22 == c1 :> 2 @@ c2 :> 2

(* One client opens and deletes rooms and never enters one.                *)
Janitor == c1 :> Commands({"CREATE", "DELETE"})
Lines5 == c1 :> 5
=============================================================================
