------------------------------ MODULE ChatData ------------------------------
(***************************************************************************)
(* The data of the chat server (framework/route_guide/route_guide_server.cc*)
(* and chatservice.proto) and the loops its handlers run over them, as     *)
(* operators without state.                                                *)
(*                                                                         *)
(* userList is a sequence of names and timelineList a sequence of          *)
(* timelines.  Both are searched from the front, so the order and the      *)
(* possibility of equal names matter and are kept.  The statuses of a      *)
(* timeline are a set: the code only filters them by timestamp and sorts   *)
(* the result, so the order they are stored in is never observed.  Indices *)
(* start at 1 here; index 0 stands for the NULL pointer.                   *)
(***************************************************************************)
EXTENDS Integers, Sequences

NULL == 0

(* A timeline as User() makes it: a name, nothing subscribed, no status.   *)
EmptyTimeline(n) == [name |-> n, subscribed |-> <<>>, statuses |-> {}]

checkUserList(users, username) ==
  \E i \in DOMAIN users : users[i] = username

(* Where a loop that searches from the front and breaks will stop: at the  *)
(* first of the positions, or with the value the variable had before.      *)
FirstOf(positions, default) ==
  IF \E i \in positions : \A j \in positions : i <= j
  THEN CHOOSE i \in positions : \A j \in positions : i <= j
  ELSE default

(* The linear search of getTimelinePointer: an index, or NULL.             *)
getTimelinePointer(timelines, nameX) ==
  FirstOf({i \in DOMAIN timelines : timelines[i].name = nameX}, NULL)

(* Mutated form: the loop that sets temp is forgotten.                     *)
OwnIndexFirst(timelines, username) == 1

(* The variable temp of processSubscription and processUnsubscribe.  It    *)
(* starts at the first timeline and stays there when the caller has none.  *)
OwnIndex(timelines, username) ==
  FirstOf({i \in DOMAIN timelines : timelines[i].name = username}, 1)

(* The test of processSubscription.  The loop returns from both of its     *)
(* branches in its first iteration, so only the first subscription is      *)
(* compared with the new one.                                              *)
AlreadySubscribed(subs, user) == subs # <<>> /\ subs[1] = user

(* The variable temp2 of processUnsubscribe: the first position of the     *)
(* room, and the front of the list when the room is not in it.             *)
RoomIndex(subs, room) == FirstOf({i \in DOMAIN subs : subs[i] = room}, 1)

(* copyAllButOne.subscribed: everything but the element at temp2.          *)
CopyAllButOne(subs, room) ==
  LET temp2 == RoomIndex(subs, room)
  IN  SubSeq(subs, 1, temp2 - 1) \o SubSeq(subs, temp2 + 1, Len(subs))

(* Mutated form of Newer: messages already sent are taken again.           *)
NotOlder(statuses, mostRecentTime) ==
  {s \in statuses : s.timestamp >= mostRecentTime}

(* The statuses of one timeline that getRecentMessages takes.              *)
Newer(statuses, mostRecentTime) ==
  {s \in statuses : s.timestamp > mostRecentTime}

(* Room in the buffer of a std::vector filled with push_back: the library  *)
(* doubles the buffer when it is full and copies the elements, after which *)
(* pointers into the old buffer dangle.                                    *)
Capacity(size) ==
  IF size = 0 THEN 0
  ELSE CHOOSE p \in {2 ^ i : i \in 0..size} : size <= p /\ p < 2 * size

=============================================================================
