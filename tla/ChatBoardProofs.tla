-------------------------- MODULE ChatBoardProofs --------------------------
(***************************************************************************)
(* Proof that ChatServer implements ChatBoard when its handlers do not     *)
(* overlap: users, subscriptions and pages, kept in two lists that are     *)
(* searched, indexed, copied and assigned to in two halves.                *)
(***************************************************************************)
EXTENDS ChatSerialProofs

(* The names in a list; the empty string of a JOIN that has yet to assign  *)
(* to it is none.                                                          *)
Listed(list) == {list[j] : j \in DOMAIN list} \ {NoName}

(* What the board shows of a user with a timeline, and of one without.     *)
Shown(n) ==
  /\ \A i \in DOMAIN timelineList :
       userList[i] = n /\ ~Leaving(i) =>
         /\ Followed(n) = Listed(timelineList[i].subscribed)
         /\ Page(n) = Whole(timelineList[i].statuses)
  /\ \A c \in Client :
       pc[c] = "leaveMerge" /\ NameOf[c] = n =>
         Followed(n) = Listed(copy[c]) /\ Page(n) = {}
  /\ (\A i \in DOMAIN timelineList : userList[i] # n) =>
       Followed(n) = {} /\ Page(n) = {}

LEMMA View == TypeOK /\ Alone /\ RosterInv => \A n \in Name : Shown(n)
  <1> SUFFICES ASSUME TypeOK, Alone, RosterInv, NEW n \in Name PROVE Shown(n)
    OBVIOUS
  <1> DEFINE P == {i \in DOMAIN timelineList : timelineList[i].name = n}
             leaving == {c \in Client : pc[c] = "leaveMerge" /\ NameOf[c] = n}
  <1>1. /\ DOMAIN timelineList \subseteq DOMAIN userList
        /\ DOMAIN timelineList \subseteq Nat \ {0}
    BY Domains DEF RosterInv, ListsInStep
  <1>2. \A i, j \in DOMAIN userList : userList[i] = userList[j] => i = j
    BY DEF RosterInv, ListsInStep
  (* Only the timeline at the user's place has the name.                   *)
  <1>3. \A i \in P : userList[i] = n /\ ~Leaving(i)
    <2> SUFFICES ASSUME NEW i \in P PROVE userList[i] = n /\ ~Leaving(i)
      OBVIOUS
    <2>1. ~Leaving(i)
      BY ServerAssumption DEF RosterInv, HandInv, Leaving, EmptyTimeline
    <2> QED  BY <2>1 DEF RosterInv, ListsInStep
  <1>4. getTimelinePointer(timelineList, n) = FirstOf(P, NULL)
    BY DEF getTimelinePointer
  <1>5. \A c \in leaving : slot[c] \in DOMAIN timelineList /\ userList[slot[c]] = n /\ Leaving(slot[c])
    BY DEF RosterInv, HandInv, Leaving, SlotStages
  <1> HIDE DEF P, leaving
  <1>6. ASSUME NEW i \in DOMAIN timelineList, userList[i] = n, ~Leaving(i)
        PROVE  /\ Followed(n) = Listed(timelineList[i].subscribed)
               /\ Page(n) = Whole(timelineList[i].statuses)
    <2>1. i \in P
      BY <1>6 DEF RosterInv, ListsInStep, P
    <2>2. P = {i}
      BY <1>1, <1>2, <1>3, <1>6, <2>1 DEF P
    <2>3. FirstOf(P, NULL) = i /\ i # NULL
      BY <1>1, <2>2 DEF FirstOf, NULL
    <2>4. leaving = {}
      BY <1>1, <1>2, <1>5, <1>6 DEF leaving
    <2> QED  BY <1>4, <2>3, <2>4 DEF Followed, Page, Listed, leaving
  <1>7. ASSUME P = {}
        PROVE  Page(n) = {} /\ Followed(n) = UNION {Listed(copy[c]) : c \in leaving}
    <2>1. FirstOf(P, NULL) = NULL
      BY <1>7 DEF FirstOf
    <2> QED  BY <1>4, <2>1 DEF Followed, Page, Listed, leaving
  <1>8. ASSUME NEW c \in Client, pc[c] = "leaveMerge", NameOf[c] = n
        PROVE  Followed(n) = Listed(copy[c]) /\ Page(n) = {}
    <2>1. leaving = {c}
      BY <1>8 DEF Alone, Busy, Waiting, leaving
    <2>2. P = {}
      BY <1>1, <1>2, <1>3, <1>5, <2>1 DEF P
    <2> QED  BY <1>7, <2>1, <2>2
  <1>9. ASSUME \A i \in DOMAIN timelineList : userList[i] # n
        PROVE  Followed(n) = {} /\ Page(n) = {}
    <2>1. P = {} /\ leaving = {}
      BY <1>3, <1>5, <1>9 DEF P
    <2> QED  BY <1>7, <2>1
  <1> QED  BY <1>6, <1>8, <1>9 DEF Shown

LEMMA ViewNext == (TypeOK /\ Alone /\ RosterInv => \A n \in Name : Shown(n))'
  BY View, PTL

(* Nothing is shown that was not, when no timeline and no LEAVE changes.   *)
LEMMA SameShown ==
  ASSUME UNCHANGED timelineList,
         \A d \in Client :
           /\ pc'[d] = "leaveMerge" <=> pc[d] = "leaveMerge"
           /\ pc[d] = "leaveMerge" => copy'[d] = copy[d],
         NEW n
  PROVE  Followed(n)' = Followed(n) /\ Page(n)' = Page(n)
  BY DEF Followed, Page

(* Of the users whose timeline was not in hand, what is shown stays.       *)
LEMMA OthersShown ==
  ASSUME TypeOK, Alone, RosterInv, TypeOK', Alone', RosterInv',
         NEW c \in Client, UNCHANGED userList,
         \A d \in Client \ {c} : pc[d] # "leaveMerge" /\ pc'[d] # "leaveMerge",
         DOMAIN timelineList' = DOMAIN timelineList,
         NEW s \in DOMAIN timelineList, userList[s] = NameOf[c],
         \A i \in DOMAIN timelineList : i # s => timelineList'[i] = timelineList[i],
         NEW n \in Name, n # NameOf[c]
  PROVE  Followed(n)' = Followed(n) /\ Page(n)' = Page(n)
  <1>1. Shown(n) /\ Shown(n)'
    BY View, ViewNext
  <1>2. \A i \in DOMAIN timelineList : Leaving(i) \/ Leaving(i)' => userList[i] = NameOf[c]
    BY DEF Leaving, RosterInv, HandInv, SlotStages
  <1>3. CASE \E i \in DOMAIN timelineList : userList[i] = n
    <2>1. PICK i \in DOMAIN timelineList : userList[i] = n
      BY <1>3
    <2>2. ~Leaving(i) /\ ~Leaving(i)' /\ timelineList'[i] = timelineList[i]
      BY <1>2, <2>1
    <2> QED  BY <1>1, <2>1, <2>2 DEF Shown
  <1>4. CASE \A i \in DOMAIN timelineList : userList[i] # n
    BY <1>1, <1>4 DEF Shown
  <1> QED  BY <1>3, <1>4

(* What is shown of the user whose timeline is in hand, before a step and  *)
(* after it.                                                               *)
LEMMA OwnShown ==
  ASSUME TypeOK, Alone, RosterInv, NEW c \in Busy, pc[c] \in SlotStages
  PROVE  LET t == timelineList[slot[c]] IN
           /\ Followed(NameOf[c]) =
                IF pc[c] = "leaveMerge" THEN Listed(copy[c]) ELSE Listed(t.subscribed)
           /\ Page(NameOf[c]) = IF pc[c] = "leaveMerge" THEN {} ELSE Whole(t.statuses)
  <1>1. slot[c] \in DOMAIN timelineList /\ userList[slot[c]] = NameOf[c] /\ c \in Client
    BY DEF RosterInv, HandInv, Busy
  <1>2. Shown(NameOf[c])
    BY <1>1, View, ServerAssumption
  <1>3. pc[c] # "leaveMerge" => ~Leaving(slot[c])
    BY DEF Alone, Busy, Waiting, Leaving
  <1> QED  BY <1>1, <1>2, <1>3 DEF Shown

LEMMA OthersWait ==
  ASSUME TypeOK, Alone, NEW c \in Busy, Handler(c)
  PROVE  \A d \in Client \ {c} : pc[d] # "leaveMerge" /\ pc'[d] # "leaveMerge"
  BY HandlerMoves DEF Busy, Waiting, Alone

(* The steps that touch neither the users nor a timeline.                  *)
Shy(c) ==
  ~(PushUser(c) \/ PushTimeline(c) \/ JoinAdd(c) \/ JoinAssign(c) \/ LeaveClear(c)
     \/ LeaveMerge(c) \/ Publish(c) \/ Assign(c))

LEMMA ShySteps ==
  ASSUME TypeOK, NEW c \in Client, Handler(c) \/ Calls(c), Shy(c)
  PROVE  /\ UNCHANGED lists
         /\ \A d \in Client :
              /\ pc'[d] = "leaveMerge" <=> pc[d] = "leaveMerge"
              /\ pc[d] = "leaveMerge" => copy'[d] = copy[d]
  <1> USE DEF TypeOK, Goto, lists, unary
  <1>1. CASE CheckUser(c)
    BY <1>1 DEF CheckUser
  <1>2. CASE JoinFind(c) \/ LeaveFind(c) \/ JoinTest(c)
    BY <1>2 DEF JoinFind, LeaveFind, FindOwn, JoinTest, Reply
  <1>3. CASE LeaveNobody(c) \/ LeaveCopy(c)
    BY <1>3 DEF LeaveNobody, Reply, LeaveCopy
  <1>4. CASE List(c) \/ Crash(c) \/ EndChat(c)
    BY <1>4 DEF List, Crash, EndChat
  <1>5. CASE Calls(c)
    BY <1>5 DEF Calls, Call, CallUser, CallJoin, CallLeave, CallList, CallChat,
                CallMessage, Kill
  <1>6. CASE Hello(c) \/ FindMailbox(c) \/ Recent(c)
    BY <1>6 DEF Hello, FindMailbox, Recent
  <1>8. CASE Gathering(c)
    BY <1>8 DEF Gathering, GatherNext, GatherTest, GatherCopy, GatherEnd, GatherDone
  <1>7. CASE stamp(c) \/ WriteNext(c) \/ WriteDone(c)
    BY <1>7 DEF stamp, StampLoad, StampStore, StampReturn, WriteNext, WriteDone
  <1> QED
    BY <1>1, <1>2, <1>3, <1>4, <1>5, <1>6, <1>7, <1>8
       DEF Handler, User, Join, Leave, chat, getRecentMessages, Gathering, Shy

-----------------------------------------------------------------------------
(* What JOIN and LEAVE make of a list, as a set.                           *)

(* A JOIN adds an empty name to the list,                                  *)
LEMMA AddListed ==
  ASSUME NEW S, NEW subs \in Seq(S), NoName \in S
  PROVE  Listed(Append(subs, NoName)) = Listed(subs)
  <1> DEFINE app == Append(subs, NoName)
             len == Len(subs)
  <1>1. /\ DOMAIN subs = 1 .. len /\ len \in Nat
        /\ DOMAIN app = 1 .. len + 1
        /\ \A j \in 1 .. len : app[j] = subs[j]
        /\ app[len + 1] = NoName
    BY AppendProperties, LenProperties
  <1> HIDE DEF app, len
  <1>2. \A x : x \in Listed(app) <=> x \in Listed(subs)
    <2>1. \A j \in 1 .. len + 1 : j \in 1 .. len \/ app[j] = NoName
      BY <1>1
    <2>2. \A j \in 1 .. len : j \in 1 .. len + 1
      BY <1>1
    <2> QED  BY <1>1, <2>1, <2>2 DEF Listed
  <1> QED  BY <1>2 DEF app

(* and then puts the name of the user in its place.                        *)
LEMMA AssignListed ==
  ASSUME NEW subs, NEW h \in DOMAIN subs, subs[h] = NoName, NEW user, user # NoName
  PROVE  Listed([subs EXCEPT ![h] = user]) = Listed(subs) \cup {user}
  <1> DEFINE new == [subs EXCEPT ![h] = user]
  <1>1. /\ DOMAIN new = DOMAIN subs
        /\ \A j \in DOMAIN subs : new[j] = IF j = h THEN user ELSE subs[j]
    OBVIOUS
  <1> HIDE DEF new
  <1>2. \A x : x \in Listed(new) <=> x \in Listed(subs) \cup {user}
    BY <1>1 DEF Listed
  <1> QED  BY <1>2 DEF new

(* A LEAVE loses the name at one place of the list only.                   *)
LEMMA CopyListed ==
  ASSUME NEW S, NEW subs \in Seq(S), NEW room, subs # <<>>
  PROVE  /\ Listed(CopyAllButOne(subs, room)) \subseteq Listed(subs)
         /\ \A x, y \in Listed(subs) \ Listed(CopyAllButOne(subs, room)) : x = y
  <1> DEFINE m == RoomIndex(subs, room)
             s1 == SubSeq(subs, 1, m - 1)
             s2 == SubSeq(subs, m + 1, Len(subs))
             n1 == m - 1
             n2 == Len(subs) - m
             kept == CopyAllButOne(subs, room)
  <1>1. Len(subs) \in Nat \ {0} /\ DOMAIN subs = 1 .. Len(subs)
    BY LenProperties, EmptySeq
  <1>2. m \in 1 .. Len(subs)
    <2>1. m \in {i \in DOMAIN subs : subs[i] = room} \cup {1}
      BY FirstOfType DEF RoomIndex
    <2> QED  BY <2>1, <1>1
  <1>3. \A i \in 1 .. Len(subs) : subs[i] \in S
    BY ElementOfSeq
  <1>4. /\ s1 \in Seq(S) /\ Len(s1) = n1
        /\ \A i \in 1 .. n1 : s1[i] = subs[i]
    <2>1. \A i \in 1 .. m - 1 : subs[i] \in S
      BY <1>1, <1>2, <1>3
    <2> QED  BY <1>1, <1>2, <2>1, SubSeqProperties
  <1>5. /\ s2 \in Seq(S) /\ Len(s2) = n2
        /\ \A i \in 1 .. n2 : s2[i] = subs[m + i]
    <2>1. \A i \in m + 1 .. Len(subs) : subs[i] \in S
      BY <1>1, <1>2, <1>3
    <2>2. /\ s2 \in Seq(S)
          /\ Len(s2) = IF m + 1 <= Len(subs) THEN Len(subs) - (m + 1) + 1 ELSE 0
          /\ \A i \in 1 .. Len(subs) - (m + 1) + 1 : s2[i] = subs[(m + 1) + i - 1]
      BY <1>1, <1>2, <2>1, SubSeqProperties
    <2> QED  BY <1>1, <1>2, <2>2
  <1>6. /\ DOMAIN kept = 1 .. n1 + n2
        /\ \A i \in 1 .. n1 + n2 : kept[i] = IF i <= n1 THEN s1[i] ELSE s2[i - n1]
    <2>1. kept = s1 \o s2
      BY DEF CopyAllButOne
    <2>2. s1 \in Seq(S) /\ Len(s1) = n1 /\ s2 \in Seq(S) /\ Len(s2) = n2
      BY <1>4, <1>5
    <2> HIDE DEF s1, s2, n1, n2, kept
    <2>3. /\ s1 \o s2 \in Seq(S)
          /\ Len(s1 \o s2) = n1 + n2
          /\ \A i \in 1 .. n1 + n2 :
               (s1 \o s2)[i] = IF i <= n1 THEN s1[i] ELSE s2[i - n1]
      BY <2>2, ConcatProperties
    <2> QED  BY <2>1, <2>3, LenProperties
  <1> HIDE DEF s1, s2, m, kept
  <1>7. ASSUME NEW k \in 1 .. Len(subs), k # m
        PROVE  subs[k] \in {kept[j] : j \in DOMAIN kept}
    <2>1. CASE k < m
      <3>1. k \in 1 .. n1 /\ k \in 1 .. n1 + n2 /\ k <= n1
        BY <1>1, <1>2, <2>1
      <3>2. kept[k] = subs[k] /\ k \in DOMAIN kept
        BY <1>4, <1>6, <3>1
      <3> QED  BY <3>2
    <2>2. CASE k > m
      <3> DEFINE j == k - 1
      <3>1. j \in 1 .. n1 + n2 /\ ~(j <= n1) /\ j - n1 \in 1 .. n2 /\ m + (j - n1) = k
        BY <1>1, <1>2, <2>2
      <3> HIDE DEF j, n1, n2
      <3>2. kept[j] = s2[j - n1] /\ j \in DOMAIN kept
        BY <1>6, <3>1
      <3>3. s2[j - n1] = subs[k]
        BY <1>5, <3>1
      <3> QED  BY <3>2, <3>3
    <2> QED  BY <1>1, <1>2, <1>7, <2>1, <2>2
  <1>8. Listed(kept) \subseteq Listed(subs)
    BY CopyType DEF Listed, kept
  <1>9. \A x \in Listed(subs) \ Listed(kept) : x = subs[m]
    BY <1>1, <1>7 DEF Listed
  <1> QED  BY <1>8, <1>9 DEF kept

-----------------------------------------------------------------------------
(* A LEAVE writes back what it copied: nobody has changed the list since.  *)
CopyInv ==
  \A c \in Client : pc[c] = "leaveClear" =>
    LET subs == timelineList[slot[c]].subscribed
    IN  subs # <<>> /\ copy[c] = CopyAllButOne(subs, target[c])

LEMMA ShyLocals ==
  ASSUME TypeOK, NEW c \in Client, Handler(c) \/ Calls(c), Shy(c), ~LeaveCopy(c)
  PROVE  /\ \A d \in Client \ {c} : /\ pc'[d] = pc[d] /\ slot'[d] = slot[d]
                                    /\ target'[d] = target[d] /\ copy'[d] = copy[d]
         /\ \/ pc'[c] # "leaveClear"
            \/ UNCHANGED <<pc, unary, pointer>>
  <1> USE DEF TypeOK, Goto, lists, unary, pointer, TakePointer, DropPointer
  <1>1. CASE CheckUser(c)
    BY <1>1 DEF CheckUser
  <1>2. CASE JoinFind(c) \/ LeaveFind(c) \/ JoinTest(c)
    BY <1>2 DEF JoinFind, LeaveFind, FindOwn, JoinTest, Reply
  <1>3. CASE LeaveNobody(c)
    BY <1>3 DEF LeaveNobody, Reply
  <1>4. CASE List(c) \/ Crash(c) \/ EndChat(c)
    BY <1>4 DEF List, Crash, EndChat
  <1>5. CASE Calls(c)
    BY <1>5 DEF Calls, Call, CallUser, CallJoin, CallLeave, CallList, CallChat,
                CallMessage, Kill
  <1>6. CASE Hello(c) \/ FindMailbox(c) \/ Recent(c)
    BY <1>6 DEF Hello, FindMailbox, Recent
  <1>8. CASE Gathering(c)
    BY <1>8 DEF Gathering, GatherNext, GatherTest, GatherCopy, GatherEnd, GatherDone
  <1>7. CASE stamp(c) \/ WriteNext(c) \/ WriteDone(c)
    BY <1>7 DEF stamp, StampLoad, StampStore, StampReturn, WriteNext, WriteDone
  <1> QED
    BY <1>1, <1>2, <1>3, <1>4, <1>5, <1>6, <1>7, <1>8
       DEF Handler, User, Join, Leave, chat, getRecentMessages, Gathering, Shy

LEMMA CopyStep ==
  ASSUME TypeOK, Alone, CopyInv, NEW c \in Client, Handler(c) \/ Calls(c)
  PROVE  CopyInv'
  <1>1. CASE LeaveCopy(c)
    <2>1. /\ UNCHANGED <<timelineList, slot, target>> /\ c \in Busy
          /\ copy'[c] = CopyAllButOne(timelineList[slot[c]].subscribed, target[c])
          /\ timelineList[slot[c]].subscribed # <<>>
          /\ \A d \in Client \ {c} : pc'[d] = pc[d]
      BY <1>1 DEF LeaveCopy, Goto, TypeOK, lists, pointer, Busy, Waiting
    <2>2. \A d \in Client \ {c} : pc[d] # "leaveClear"
      BY <2>1 DEF Alone, Busy, Waiting
    <2> QED  BY <2>1, <2>2 DEF CopyInv
  <1>2. CASE Shy(c) /\ ~LeaveCopy(c)
    <2>1. UNCHANGED lists
      BY <1>2, ShySteps
    <2>2. /\ \A d \in Client \ {c} : /\ pc'[d] = pc[d] /\ slot'[d] = slot[d]
                                     /\ target'[d] = target[d] /\ copy'[d] = copy[d]
          /\ pc'[c] # "leaveClear" \/ UNCHANGED <<pc, unary, pointer>>
      BY <1>2, ShyLocals
    <2> QED  BY <2>1, <2>2 DEF CopyInv, lists, unary, pointer
  <1>3. CASE ~Shy(c)
    <2>1. /\ \A d \in Client \ {c} : pc'[d] = pc[d]
          /\ pc'[c] # "leaveClear" /\ c \in Busy
      BY <1>3 DEF Shy, PushUser, PushTimeline, JoinAdd, JoinAssign, LeaveClear,
                  LeaveMerge, Reply, Publish, Assign, Goto, TypeOK, Busy, Waiting
    <2>2. \A d \in Client \ {c} : pc[d] # "leaveClear"
      BY <2>1 DEF Alone, Busy, Waiting
    <2> QED  BY <2>1, <2>2 DEF CopyInv
  <1> QED  BY <1>1, <1>2, <1>3

-----------------------------------------------------------------------------
(* Refinement: each step of a handler is a step of ChatBoard or a stutter. *)

Members == {userList[i] : i \in DOMAIN userList}

(* What a step may do to the board, as the functions it is made of.        *)
Follows(n, S) ==
  \A m \in Name : Followed(m)' = IF m = n THEN S ELSE Followed(m)
Pages(n, S) ==
  \A m \in Name : Page(m)' = IF m = n THEN S ELSE Page(m)

(* Everything the proof needs to know of a state.                          *)
BoardInv == TypeOK /\ Alone /\ RosterInv /\ OwnersInv /\ StampInv /\ CopyInv

LEMMA FollowsMap ==
  ASSUME NEW n \in Name, NEW S, Follows(n, S)
  PROVE  [m \in Name |-> Followed(m)'] = [[m \in Name |-> Followed(m)] EXCEPT ![n] = S]
  BY DEF Follows

LEMMA PagesMap ==
  ASSUME NEW n \in Name, NEW S, Pages(n, S)
  PROVE  [m \in Name |-> Page(m)'] = [[m \in Name |-> Page(m)] EXCEPT ![n] = S]
  BY DEF Pages

(* A step that replaces the timeline in hand changes what is shown of its  *)
(* user only.                                                              *)
LEMMA OwnStep ==
  ASSUME TypeOK, Alone, RosterInv, TypeOK', Alone', RosterInv',
         NEW c \in Busy, Handler(c), UNCHANGED userList, pc[c] \in SlotStages,
         NEW u, Replaced(c, u), slot[c] \in DOMAIN timelineList
  PROVE  /\ pc'[c] # "leaveMerge" =>
              Follows(NameOf[c], Listed(u.subscribed)) /\ Pages(NameOf[c], Whole(u.statuses))
         /\ pc'[c] = "leaveMerge" =>
              Follows(NameOf[c], Listed(copy'[c])) /\ Pages(NameOf[c], {})
  <1> DEFINE n == NameOf[c]
  <1>0. PICK s \in DOMAIN timelineList : s = slot[c]
    OBVIOUS
  <1>1. /\ c \in Client /\ n \in Name /\ s \in DOMAIN timelineList
        /\ userList[s] = n /\ userList'[s] = n
    BY <1>0, ServerAssumption DEF Busy, RosterInv, HandInv
  <1>2. \A d \in Client \ {c} : pc[d] # "leaveMerge" /\ pc'[d] # "leaveMerge"
    BY OthersWait
  <1>3. /\ DOMAIN timelineList' = DOMAIN timelineList /\ timelineList'[s] = u
        /\ \A i \in DOMAIN timelineList : i # s => timelineList'[i] = timelineList[i]
    BY <1>0 DEF Replaced
  <1>4. \A m \in Name : m # n => Followed(m)' = Followed(m) /\ Page(m)' = Page(m)
    BY <1>1, <1>2, <1>3, OthersShown
  <1>5. Shown(n)'
    BY <1>1, ViewNext
  <1>6. pc'[c] # "leaveMerge" => ~Leaving(s)'
    BY <1>2 DEF Leaving
  <1>7. pc'[c] # "leaveMerge" =>
           Followed(n)' = Listed(u.subscribed) /\ Page(n)' = Whole(u.statuses)
    <2>1. \A i \in DOMAIN timelineList' :
            userList'[i] = n /\ ~Leaving(i)' =>
              /\ Followed(n)' = Listed(timelineList'[i].subscribed)
              /\ Page(n)' = Whole(timelineList'[i].statuses)
      BY <1>5 DEF Shown
    <2>2. s \in DOMAIN timelineList' /\ userList'[s] = n /\ timelineList'[s] = u
      BY <1>1, <1>3
    <2> HIDE DEF n
    <2> QED  BY <1>6, <2>1, <2>2
  <1>8. pc'[c] = "leaveMerge" => Followed(n)' = Listed(copy'[c]) /\ Page(n)' = {}
    BY <1>1, <1>5 DEF Shown
  <1> QED  BY <1>4, <1>7, <1>8 DEF Follows, Pages

LEMMA RegisterStep ==
  ASSUME TypeOK, Alone, NEW c \in Client, PushUser(c)
  PROVE  /\ Members' = Members \cup {NameOf[c]}
         /\ \A m \in Name : Followed(m)' = Followed(m) /\ Page(m)' = Page(m)
  <1>1. c \in Busy
    BY DEF PushUser, Goto, Busy, Waiting
  <1>2. userList' = Append(userList, NameOf[c])
    BY <1>1, NoWriteLost DEF PushUser
  <1>3. NameOf[c] \in Name \cup {NoName} /\ userList \in Seq(Name \cup {NoName})
    BY ServerAssumption DEF TypeOK
  <1> DEFINE app == Append(userList, NameOf[c])
             len == Len(userList)
  <1>5. /\ DOMAIN userList = 1 .. len /\ len \in Nat /\ DOMAIN app = 1 .. len + 1
        /\ \A j \in 1 .. len : app[j] = userList[j]
        /\ app[len + 1] = NameOf[c]
    BY <1>3, AppendProperties, LenProperties
  <1> HIDE DEF app, len
  <1>6. {app[j] : j \in 1 .. len + 1} = {app[j] : j \in 1 .. len} \cup {app[len + 1]}
    BY <1>5
  <1>7. {app[j] : j \in 1 .. len} = {userList[j] : j \in 1 .. len}
    BY <1>5
  <1>8. userList' = app
    BY <1>2 DEF app
  <1>9. Members' = Members \cup {NameOf[c]}
    BY <1>5, <1>6, <1>7, <1>8 DEF Members
  <1>10. \A d \in Client :
           /\ pc'[d] = "leaveMerge" <=> pc[d] = "leaveMerge"
           /\ copy'[d] = copy[d]
    BY DEF PushUser, Goto, TypeOK, unary
  <1> QED  BY <1>9, <1>10, SameShown DEF PushUser

(* The timeline that is pushed shows nothing that was not shown before.    *)
LEMMA PushStep ==
  ASSUME TypeOK, Alone, RosterInv, TypeOK', Alone', RosterInv',
         NEW c \in Client, PushTimeline(c), NEW n \in Name
  PROVE  Followed(n)' = Followed(n) /\ Page(n)' = Page(n)
  <1>1. c \in Busy /\ Handler(c) /\ UNCHANGED userList /\ NameOf[c] \in Name
    BY ServerAssumption DEF PushTimeline, Goto, Busy, Waiting, Handler, User
  <1>2. timelineList' = Append(timelineList, EmptyTimeline(NameOf[c]))
    BY <1>1, NoWriteLost DEF PushTimeline
  <1>3. EmptyTimeline(NameOf[c]) \in Timelines
    BY <1>1 DEF EmptyTimeline, Timelines
  <1> DEFINE len == Len(timelineList)
  <1>4. /\ DOMAIN timelineList = 1 .. len /\ len \in Nat
        /\ DOMAIN timelineList' = 1 .. len + 1
        /\ \A i \in 1 .. len : timelineList'[i] = timelineList[i]
        /\ timelineList'[len + 1] = EmptyTimeline(NameOf[c])
    BY <1>2, <1>3, AppendProperties, LenProperties DEF TypeOK
  <1> HIDE DEF len
  <1>5. \A d \in Client : pc[d] # "leaveMerge" /\ pc'[d] # "leaveMerge"
    BY <1>1, OthersWait DEF PushTimeline, Goto, TypeOK
  <1>6. (\A i : ~Leaving(i)) /\ (\A i : ~Leaving(i)')
    BY <1>5 DEF Leaving
  <1>7. Shown(n) /\ Shown(n)'
    BY View, ViewNext
  <1>8. CASE \E i \in 1 .. len : userList[i] = n
    <2>1. PICK i \in 1 .. len : userList[i] = n
      BY <1>8
    <2>2. i \in DOMAIN timelineList /\ i \in DOMAIN timelineList'
      BY <1>4
    <2> QED  BY <1>1, <1>4, <1>6, <1>7, <2>1, <2>2 DEF Shown
  <1>9. CASE (\A i \in 1 .. len : userList[i] # n) /\ userList[len + 1] = n
    <2>1. Followed(n) = {} /\ Page(n) = {}
      BY <1>4, <1>7, <1>9 DEF Shown
    <2>2. len + 1 \in DOMAIN timelineList' /\ userList'[len + 1] = n
      BY <1>1, <1>4, <1>9
    <2>3. /\ Followed(n)' = Listed(EmptyTimeline(NameOf[c]).subscribed)
          /\ Page(n)' = Whole(EmptyTimeline(NameOf[c]).statuses)
      BY <1>4, <1>6, <1>7, <2>2 DEF Shown
    <2> QED  BY <2>1, <2>3 DEF Listed, EmptyTimeline, Whole
  <1>10. CASE (\A i \in 1 .. len : userList[i] # n) /\ userList[len + 1] # n
    <2>1. \A i \in 1 .. len + 1 : userList[i] # n
      BY <1>4, <1>10
    <2>2. (\A i \in DOMAIN timelineList : userList[i] # n)
          /\ (\A i \in DOMAIN timelineList' : userList'[i] # n)
      BY <1>1, <1>4, <2>1
    <2> QED  BY <1>7, <2>2 DEF Shown
  <1> QED  BY <1>8, <1>9, <1>10

(* The same step, on the variables of the board.                           *)
LEMMA BoardSame ==
  ASSUME UNCHANGED userList,
         \A m \in Name : Followed(m)' = Followed(m) /\ Page(m)' = Page(m)
  PROVE  UNCHANGED Board!board
  BY DEF Board!board

LEMMA BoardRegister ==
  ASSUME TypeOK, Alone, NEW c \in Client, PushUser(c)
  PROVE  Board!Next
  <1>1. Board!Register(NameOf[c])
    BY RegisterStep DEF Members, Board!Register
  <1> QED  BY <1>1, ServerAssumption DEF Board!Next

(* An empty name at the end of a list is not seen on the board,            *)
LEMMA BoardAdd ==
  ASSUME BoardInv, BoardInv', NEW c \in Client, JoinAdd(c)
  PROVE  UNCHANGED Board!board
  <1> DEFINE n == NameOf[c]
             t == timelineList[slot[c]]
             u == [t EXCEPT !.subscribed = Append(@, NoName)]
  <1> USE DEF BoardInv
  <1>1. /\ c \in Busy /\ Handler(c) /\ UNCHANGED userList /\ pc[c] = "joinAdd"
        /\ pc'[c] = "joinAssign" /\ pc[c] \in SlotStages
    BY DEF JoinAdd, Goto, Busy, Waiting, Handler, Join, SlotStages, TypeOK
  <1>2. slot[c] \in DOMAIN timelineList /\ Replaced(c, u)
    BY <1>1, JoinReplaces
  <1>3. t \in Timelines
    BY <1>2, TimelineType
  <1>4. Followed(n) = Listed(t.subscribed) /\ Page(n) = Whole(t.statuses)
    BY <1>1, OwnShown
  <1>5. Follows(n, Listed(u.subscribed)) /\ Pages(n, Whole(u.statuses))
    BY <1>1, <1>2, OwnStep
  <1> HIDE DEF t
  <1>6. /\ t.subscribed \in Seq(Name \cup {NoName})
        /\ u.subscribed = Append(t.subscribed, NoName) /\ u.statuses = t.statuses
    BY <1>3 DEF Timelines
  <1> HIDE DEF n, u
  <1>7. Listed(u.subscribed) = Listed(t.subscribed)
    BY <1>6, AddListed
  <1>8. \A m \in Name : Followed(m)' = Followed(m) /\ Page(m)' = Page(m)
    BY <1>4, <1>5, <1>6, <1>7 DEF Follows, Pages
  <1> QED  BY <1>1, <1>8, BoardSame

(* and when it is assigned to, the user follows one more.                  *)
LEMMA BoardFollow ==
  ASSUME BoardInv, BoardInv', SubscriptionsRegistered, NEW c \in Client, JoinAssign(c)
  PROVE  Board!Next
  <1> DEFINE n == NameOf[c]
             t == timelineList[slot[c]]
             u == [t EXCEPT !.subscribed = [@ EXCEPT ![hold[c]] = target[c]]]
  <1> USE DEF BoardInv
  <1>1. /\ c \in Busy /\ Handler(c) /\ UNCHANGED userList /\ pc[c] = "joinAssign"
        /\ pc'[c] = "command" /\ pc[c] \in SlotStages
    BY DEF JoinAssign, Reply, Goto, Busy, Waiting, Handler, Join, SlotStages, TypeOK
  <1>2. slot[c] \in DOMAIN timelineList /\ Replaced(c, u)
    BY JoinAssignReplaces
  <1>3. /\ n \in Name /\ target[c] \in Name /\ userList[slot[c]] = n
        /\ target[c] # n /\ target[c] # NoName
        /\ hold[c] \in DOMAIN t.subscribed /\ t.subscribed[hold[c]] = NoName
    <2>1. HandInv(c) /\ NotOwn(c)
      BY <1>1 DEF RosterInv, OwnersInv, Busy
    <2>2. userList[slot[c]] = n /\ target[c] # n
      BY <1>1, <2>1 DEF HandInv, NotOwn, Joining
    <2>3. hold[c] \in DOMAIN t.subscribed /\ t.subscribed[hold[c]] = NoName
      BY <1>1, <2>1 DEF HandInv, Added
    <2>4. n \in Name /\ target[c] \in Name /\ NoName \notin Name
      BY ServerAssumption DEF TypeOK
    <2> QED  BY <2>2, <2>3, <2>4
  <1>4. slot[c] \in DOMAIN userList
    BY <1>1, <1>2, AloneInStep, Domains
  <1>5. {n, target[c]} \subseteq Members
    BY <1>1, <1>3, <1>4 DEF SubscriptionsRegistered, checkUserList, Members
  <1>6. t \in Timelines
    BY <1>2, TimelineType
  <1>7. Followed(n) = Listed(t.subscribed) /\ Page(n) = Whole(t.statuses)
    BY <1>1, OwnShown
  <1>8. Follows(n, Listed(u.subscribed)) /\ Pages(n, Whole(u.statuses))
    BY <1>1, <1>2, OwnStep
  <1> HIDE DEF t
  <1>9. /\ u.subscribed = [t.subscribed EXCEPT ![hold[c]] = target[c]]
        /\ u.statuses = t.statuses
    BY <1>6 DEF Timelines
  <1> HIDE DEF n, u
  <1>10. Follows(n, Followed(n) \cup {target[c]}) /\ Pages(n, Page(n))
    <2>1. Listed(u.subscribed) = Listed(t.subscribed) \cup {target[c]}
      BY <1>3, <1>9, AssignListed
    <2>2. Listed(u.subscribed) = Followed(n) \cup {target[c]} /\ Whole(u.statuses) = Page(n)
      BY <1>7, <1>9, <2>1
    <2> QED  BY <1>8, <2>2 DEF Follows, Pages
  <1>11. /\ [m \in Name |-> Followed(m)'] =
              [[m \in Name |-> Followed(m)] EXCEPT ![n] = Followed(n) \cup {target[c]}]
         /\ [m \in Name |-> Page(m)'] = [m \in Name |-> Page(m)]
    BY <1>3, <1>10, FollowsMap DEF Pages
  <1>12. Board!Follow(n, target[c])
    BY <1>1, <1>3, <1>5, <1>11 DEF Board!Follow, Members
  <1> QED  BY <1>3, <1>12 DEF Board!Next

LEMMA BoardLeave ==
  ASSUME BoardInv, BoardInv', NEW c \in Client, LeaveClear(c)
  PROVE  Board!Next
  <1> DEFINE n == NameOf[c]
             t == timelineList[slot[c]]
             kept == Listed(copy[c])
  <1> USE DEF BoardInv
  <1>1. /\ c \in Busy /\ Handler(c) /\ UNCHANGED <<userList, copy>>
        /\ pc[c] = "leaveClear" /\ pc'[c] = "leaveMerge" /\ pc[c] \in SlotStages
    BY DEF LeaveClear, Goto, Busy, Waiting, Handler, Leave, SlotStages, TypeOK, unary
  <1>2. slot[c] \in DOMAIN timelineList /\ Replaced(c, EmptyTimeline(NoName))
    BY <1>1, ClearReplaces
  <1>3. n \in Name /\ userList[slot[c]] = n
    BY <1>1, ServerAssumption DEF RosterInv, HandInv
  <1>4. n \in Members
    BY <1>1, <1>2, <1>3, AloneInStep, Domains DEF Members
  <1>5. /\ t.subscribed \in Seq(Name \cup {NoName}) /\ t.subscribed # <<>>
        /\ copy[c] = CopyAllButOne(t.subscribed, target[c])
    BY <1>1, <1>2, TimelineType DEF Timelines, CopyInv
  <1>6. Followed(n) = Listed(t.subscribed)
    BY <1>1, OwnShown
  <1>7. Follows(n, kept) /\ Pages(n, {})
    BY <1>1, <1>2, OwnStep
  <1> HIDE DEF t
  <1>8. kept \subseteq Followed(n) /\ \A x, y \in Followed(n) \ kept : x = y
    BY <1>5, <1>6, CopyListed
  <1> HIDE DEF n, kept
  <1>9. /\ [m \in Name |-> Followed(m)'] = [[m \in Name |-> Followed(m)] EXCEPT ![n] = kept]
        /\ [m \in Name |-> Page(m)'] = [[m \in Name |-> Page(m)] EXCEPT ![n] = {}]
    BY <1>3, <1>7, FollowsMap, PagesMap
  <1>10. Board!Leave(n)
    <2> DEFINE follows == [m \in Name |-> Followed(m)]
    <2>1. /\ kept \in SUBSET follows[n]
          /\ \A x, y \in follows[n] \ kept : x = y
          /\ [m \in Name |-> Followed(m)'] = [follows EXCEPT ![n] = kept]
      BY <1>3, <1>8, <1>9
    <2>2. \E new \in SUBSET follows[n] :
            /\ \A x, y \in follows[n] \ new : x = y
            /\ [m \in Name |-> Followed(m)'] = [follows EXCEPT ![n] = new]
      <3> HIDE DEF follows
      <3> QED  BY <2>1
    <2>3. n \in Members /\ UNCHANGED Members
      BY <1>1, <1>4 DEF Members
    <2> QED  BY <1>9, <2>2, <2>3 DEF Board!Leave, Members
  <1> QED  BY <1>3, <1>10 DEF Board!Next

(* What was taken off in the first half is put back in the second, and the *)
(* board shows nothing of it.                                              *)
LEMMA BoardMerge ==
  ASSUME BoardInv, BoardInv', NEW c \in Client, LeaveMerge(c)
  PROVE  UNCHANGED Board!board
  <1> DEFINE n == NameOf[c]
             u == [EmptyTimeline(NameOf[c]) EXCEPT !.subscribed = copy[c]]
  <1> USE DEF BoardInv
  <1>1. /\ c \in Busy /\ Handler(c) /\ UNCHANGED userList
        /\ pc[c] = "leaveMerge" /\ pc'[c] = "command" /\ pc[c] \in SlotStages
    BY DEF LeaveMerge, Reply, Goto, Busy, Waiting, Handler, Leave, SlotStages, TypeOK
  <1>2. slot[c] \in DOMAIN timelineList /\ Replaced(c, u)
    BY MergeReplaces
  <1>3. u.subscribed = copy[c] /\ Whole(u.statuses) = {}
    BY DEF EmptyTimeline, Whole
  <1>4. Followed(n) = Listed(copy[c]) /\ Page(n) = {}
    BY <1>1, OwnShown
  <1>5. Follows(n, Listed(u.subscribed)) /\ Pages(n, Whole(u.statuses))
    BY <1>1, <1>2, OwnStep
  <1> HIDE DEF n, u
  <1>6. \A m \in Name : Followed(m)' = Followed(m) /\ Page(m)' = Page(m)
    BY <1>3, <1>4, <1>5 DEF Follows, Pages
  <1> QED  BY <1>1, <1>6, BoardSame

(* The status that add_statuses() puts on a timeline is no post yet,       *)
LEMMA BoardBlank ==
  ASSUME BoardInv, BoardInv', NEW c \in Client, Publish(c)
  PROVE  UNCHANGED Board!board
  <1> DEFINE n == NameOf[c]
             t == timelineList[slot[c]]
             u == [t EXCEPT !.statuses = @ \cup {Blank(c)}]
  <1> USE DEF BoardInv
  <1>1. /\ c \in Busy /\ Handler(c) /\ UNCHANGED userList /\ pc[c] = "publish"
        /\ pc'[c] = "assign" /\ pc[c] \in SlotStages
    BY DEF Publish, Goto, Busy, Waiting, Handler, chat, SlotStages, TypeOK
  <1>2. slot[c] \in DOMAIN timelineList /\ Replaced(c, u)
    BY <1>1, PublishReplaces
  <1>3. t \in Timelines
    BY <1>2, TimelineType
  <1>4. Followed(n) = Listed(t.subscribed) /\ Page(n) = Whole(t.statuses)
    BY <1>1, OwnShown
  <1>5. Follows(n, Listed(u.subscribed)) /\ Pages(n, Whole(u.statuses))
    BY <1>1, <1>2, OwnStep
  <1> HIDE DEF t
  <1>6. u.subscribed = t.subscribed /\ u.statuses = t.statuses \cup {Blank(c)}
    BY <1>3 DEF Timelines
  <1> HIDE DEF n, u
  <1>7. Whole(u.statuses) = Whole(t.statuses)
    BY <1>6 DEF Whole, Blank
  <1>8. \A m \in Name : Followed(m)' = Followed(m) /\ Page(m)' = Page(m)
    BY <1>4, <1>5, <1>6, <1>7 DEF Follows, Pages
  <1> QED  BY <1>1, <1>8, BoardSame

(* and the assignment makes it one.                                        *)
LEMMA BoardPost ==
  ASSUME BoardInv, BoardInv', AllPosted, NEW c \in Client, Assign(c)
  PROVE  Board!Next
  <1> DEFINE n == NameOf[c]
             t == timelineList[slot[c]]
             u == [t EXCEPT !.statuses = (@ \ {Blank(c)}) \cup {Recved(c)}]
             r == Recved(c)
  <1> USE DEF BoardInv
  <1>1. /\ c \in Busy /\ Handler(c) /\ UNCHANGED userList
        /\ pc[c] = "assign" /\ pc'[c] = "recent" /\ pc[c] \in SlotStages
    BY DEF Assign, Goto, Busy, Waiting, Handler, chat, SlotStages, TypeOK
  <1>2. slot[c] \in DOMAIN timelineList /\ Replaced(c, u)
    BY AssignReplaces
  <1> QED
    <2>1. n \in Name /\ userList[slot[c]] = n
      BY <1>1, ServerAssumption DEF RosterInv, HandInv
    <2>2. n \in Members
      BY <1>1, <1>2, <2>1, AloneInStep, Domains DEF Members
    <2>3. Followed(n) = Listed(t.subscribed) /\ Page(n) = Whole(t.statuses)
      BY <1>1, OwnShown
    <2>4. Follows(n, Listed(u.subscribed)) /\ Pages(n, Whole(u.statuses))
      BY <1>1, <1>2, OwnStep
    <2>5. t \in Timelines
      BY <1>2, TimelineType
    <2>6. /\ r \in Stats /\ r.name = n /\ r.name # NoName /\ serverCounter \in Nat
          /\ r.timestamp = serverCounter
          /\ \A s \in posted : s.timestamp < serverCounter
      BY <1>1, AssignEffect DEF Recved, StampInv, TypeOK
    <2>7. \A m \in Name : Page(m) \subseteq posted
      BY PointerType DEF Page, AllPosted, TypeOK
    <2>8. \A m \in Name : \A s \in Page(m) : r.timestamp > s.timestamp
      <3>1. \A s \in posted : s.timestamp \in Nat
        BY DEF TypeOK, Stats
      <3> HIDE DEF r
      <3> QED  BY <2>6, <2>7, <3>1
    <2> HIDE DEF t
    <2>9. /\ u.subscribed = t.subscribed
          /\ u.statuses = (t.statuses \ {Blank(c)}) \cup {r}
      BY <2>5 DEF Timelines
    <2> HIDE DEF u, r
    <2>14. Whole(u.statuses) = Whole(t.statuses) \cup {r}
      BY <2>6, <2>9 DEF Whole, Blank
    <2> HIDE DEF n
    <2>10. Follows(n, Followed(n)) /\ Pages(n, Page(n) \cup {r})
      BY <2>3, <2>4, <2>9, <2>14 DEF Follows, Pages
    <2>11. /\ [m \in Name |-> Followed(m)'] = [m \in Name |-> Followed(m)]
           /\ [m \in Name |-> Page(m)'] =
                [[m \in Name |-> Page(m)] EXCEPT ![n] = Page(n) \cup {r}]
      BY <2>1, <2>10, PagesMap DEF Follows
    <2>12. r \in Page(n)'
      BY <2>1, <2>10 DEF Pages
    <2>13. Board!Post(n)
      <3> DEFINE pages == [m \in Name |-> Page(m)]
                 later == [m \in Name |-> Page(m)']
      <3>1. /\ r \in later[n] /\ r \in Stats /\ r.name = n
            /\ \A m \in Name : \A s \in pages[m] : r.timestamp > s.timestamp
            /\ later = [pages EXCEPT ![n] = @ \cup {r}]
        BY <2>1, <2>6, <2>8, <2>11, <2>12
      <3>2. \E p \in later[n] :
              /\ p \in Stats /\ p.name = n
              /\ \A m \in Name : \A s \in pages[m] : p.timestamp > s.timestamp
              /\ later = [pages EXCEPT ![n] = @ \cup {p}]
        <4> HIDE DEF pages, later
        <4> QED  BY <3>1
      <3>3. n \in Members /\ UNCHANGED Members
        BY <1>1, <2>2 DEF Members
      <3> QED  BY <2>11, <3>2, <3>3 DEF Board!Post, Members
    <2> QED  BY <2>1, <2>13 DEF Board!Next

LEMMA BoardStep ==
  ASSUME BoardInv, BoardInv', AllPosted, SubscriptionsRegistered,
         NEW c \in Client, Handler(c) \/ Calls(c)
  PROVE  Board!Next \/ UNCHANGED Board!board
  <1>1. CASE PushTimeline(c)
    <2>1. UNCHANGED userList
      BY <1>1 DEF PushTimeline
    <2> QED  BY <1>1, <2>1, PushStep, BoardSame DEF BoardInv
  <1>2. CASE Shy(c)
    <2>1. UNCHANGED lists
      BY <1>2, ShySteps DEF BoardInv
    <2>2. \A m \in Name : Followed(m)' = Followed(m) /\ Page(m)' = Page(m)
      BY <1>2, <2>1, ShySteps, SameShown DEF BoardInv, lists
    <2> QED  BY <2>1, <2>2, BoardSame DEF lists
  <1>3. CASE PushUser(c)
    BY <1>3, BoardRegister DEF BoardInv
  <1> QED
    BY <1>1, <1>2, <1>3, BoardAdd, BoardFollow, BoardLeave, BoardMerge, BoardBlank,
       BoardPost DEF Shy

-----------------------------------------------------------------------------
(* The file that was loaded is a board.                                    *)
LEMMA BoardStart ==
  ASSUME Init, BoardInv, AllPosted, SubscriptionsRegistered
  PROVE  Board!Init
  <1> DEFINE follows == [n \in Name |-> Followed(n)]
             pages == [n \in Name |-> Page(n)]
  <1> USE DEF BoardInv
  <1>1. Members \subseteq Name
    BY ServerAssumption DEF Init, Members
  <1>2. ASSUME NEW n \in Name PROVE Followed(n) \subseteq Members
    <2>1. \A c \in Client : pc[c] # "leaveMerge"
      BY DEF Init
    <2>2. \A i \in DOMAIN timelineList : Listed(timelineList[i].subscribed) \subseteq Members
      BY DEF SubscriptionsRegistered, Registered, checkUserList, Listed, Members
    <2> QED  BY <2>1, <2>2, PointerType DEF Followed, Listed, TypeOK
  <1>3. ASSUME NEW n \in Name PROVE Page(n) \in SUBSET Stats
    BY PointerType DEF Page, AllPosted, TypeOK
  <1>4. ASSUME NEW n \in Name \ Members PROVE Followed(n) = {} /\ Page(n) = {}
    <2>1. DOMAIN timelineList = DOMAIN userList
      BY DEF Init
    <2>2. \A i \in DOMAIN timelineList : userList[i] # n
      BY <2>1 DEF Members
    <2> QED  BY <2>2, View DEF Shown
  <1>5. /\ Members \in SUBSET Name
        /\ follows \in [Name -> SUBSET Members]
        /\ pages \in [Name -> SUBSET Stats]
        /\ \A n \in Name \ Members : follows[n] = {} /\ pages[n] = {}
    BY <1>1, <1>2, <1>3, <1>4
  <1> QED  BY <1>5 DEF Board!Init, Members

LEMMA BoardInvNext ==
  ASSUME Serial, BoardInv, [Next]_vars PROVE BoardInv'
  <1>1. TypeOK'
    BY TypeNext DEF BoardInv
  <1>2. CASE UNCHANGED vars
    <2> USE <1>2 DEF vars, lists, pointer, unary, stream, BoardInv
    <2>1. Alone' /\ ListsInStep'
      BY DEF Alone, Busy, RosterInv, ListsInStep, Pushing, Leaving
    <2>2. \A c \in Client : HandInv(c)'
      BY DEF RosterInv, HandInv, Added, Blank
    <2>3. OwnersInv' /\ CopyInv'
      BY DEF OwnersInv, NotOwn, CopyInv
    <2>4. StampInv'
      BY DEF StampInv, StampsAreLatest
    <2> QED  BY <1>1, <2>1, <2>2, <2>3, <2>4 DEF RosterInv
  <1>3. CASE Next
    BY <1>1, <1>3, AloneStep, RosterStep, OwnersStep, StampStep, CopyStep DEF Next, BoardInv
  <1> QED  BY <1>2, <1>3

(* Handlers that do not overlap implement the board: each JOIN, LEAVE,     *)
(* login and post changes what belongs to its caller, at one step, and the *)
(* state between the two halves of a LEAVE's assignment is never seen, for *)
(* any number of clients, with shared names or without.                    *)
THEOREM SerialBoard ==
  Serial /\ LoadedStamps /\ LoadedRoster /\ LoadedOwners => (Spec => BoardSpec)
  <1> SUFFICES ASSUME Serial, LoadedStamps, LoadedRoster, LoadedOwners
               PROVE  Spec => BoardSpec
    OBVIOUS
  <1> DEFINE Others == AllPosted /\ SubscriptionsRegistered
  <1>1. Init => BoardInv
    <2> SUFFICES ASSUME Init PROVE BoardInv
      OBVIOUS
    <2>1. OwnersInv /\ CopyInv
      BY DEF Init, OwnersInv, LoadedOwners, NotOwn, Joining, CopyInv
    <2> QED  BY <2>1, TypeInit, RosterInit, StampInit DEF BoardInv
  <1>2. BoardInv /\ [Next]_vars => BoardInv'
    BY BoardInvNext
  <1>3. Spec => []Others
    <2>1. ChatInv /\ SubscriptionsRegistered => Others
      BY DEF ChatInv
    <2> QED  BY <2>1, Invariant, AlwaysRegistered, PTL
  <1>4. Init /\ BoardInv /\ Others => Board!Init
    BY BoardStart
  <1>5. BoardInv /\ BoardInv' /\ Others /\ [Next]_vars => [Board!Next]_(Board!board)
    <2> SUFFICES ASSUME BoardInv, BoardInv', Others, [Next]_vars
                 PROVE  Board!Next \/ UNCHANGED Board!board
      OBVIOUS
    <2>1. CASE Next
      BY <2>1, BoardStep DEF Next
    <2>2. CASE UNCHANGED vars
      <3>1. \A m \in Name : Followed(m)' = Followed(m) /\ Page(m)' = Page(m)
        BY <2>2, SameShown DEF vars, lists, unary
      <3> QED  BY <2>2, <3>1, BoardSame DEF vars, lists
    <2> QED  BY <2>1, <2>2
  <1> HIDE DEF Others
  <1> QED
    BY <1>1, <1>2, <1>3, <1>4, <1>5, PTL DEF Spec, BoardSpec, Board!Spec
=============================================================================
