------------------------------ MODULE ChatBoard ------------------------------
(***************************************************************************)
(* What the chat server is to someone who does not know that it keeps two  *)
(* lists and finds its way in them by index: a board with a page for each  *)
(* user, on which only that user posts, and for each user the set of those *)
(* the user follows.  A command changes what belongs to its caller, and    *)
(* nothing else, at one moment.                                            *)
(***************************************************************************)
EXTENDS Integers

CONSTANTS Name, Stats

VARIABLES
  users,     \* the registered names
  follows,   \* whom each user is subscribed to
  pages      \* the posts on each user's page

board == <<users, follows, pages>>

(* The board may start with what an earlier session left on it.            *)
Init ==
  /\ users \in SUBSET Name
  /\ follows \in [Name -> SUBSET users]
  /\ pages \in [Name -> SUBSET Stats]
  /\ \A n \in Name \ users : follows[n] = {} /\ pages[n] = {}

Register(n) ==
  /\ users' = users \cup {n}
  /\ UNCHANGED <<follows, pages>>

Follow(n, m) ==
  /\ {n, m} \subseteq users /\ n # m
  /\ follows' = [follows EXCEPT ![n] = @ \cup {m}]
  /\ UNCHANGED <<users, pages>>

(* A LEAVE takes at most one name from the caller's list, and empties the  *)
(* caller's page.                                                          *)
Leave(n) ==
  /\ n \in users
  /\ \E kept \in SUBSET follows[n] :
       /\ \A x, y \in follows[n] \ kept : x = y
       /\ follows' = [follows EXCEPT ![n] = kept]
  /\ pages' = [pages EXCEPT ![n] = {}]
  /\ UNCHANGED users

(* A new post goes on its author's page, with a stamp above that of every  *)
(* post there is.  (Named from pages' and not from Stats, which is         *)
(* infinite.)                                                              *)
Post(n) ==
  /\ n \in users
  /\ \E s \in pages'[n] :
       /\ s \in Stats /\ s.name = n
       /\ \A m \in Name : \A t \in pages[m] : s.timestamp > t.timestamp
       /\ pages' = [pages EXCEPT ![n] = @ \cup {s}]
  /\ UNCHANGED <<users, follows>>

Next ==
  \E n \in Name :
    \/ Register(n) \/ Leave(n) \/ Post(n)
    \/ \E m \in Name : Follow(n, m)

Spec == Init /\ [][Next]_board
=============================================================================
