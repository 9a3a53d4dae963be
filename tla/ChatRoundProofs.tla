-------------------------- MODULE ChatRoundProofs --------------------------
(***************************************************************************)
(* Proofs about the chat streams of ChatServer when its handlers do not    *)
(* overlap and no two clients use one name: no gap, and no round that      *)
(* leaves something behind.                                                *)
(***************************************************************************)
EXTENDS ChatBoardProofs

Unshared == \A c, d \in Client : NameOf[c] = NameOf[d] => c = d

(* The stages of a chat, from the greeting on.                             *)
Chatting == Loops \cup
  {"read", "mailbox", "stampLoad", "stampStore", "stampReturn", "publish",
   "assign", "recent"}

Delivered(c, s) == \E i \in DOMAIN sent[c] : sent[c][i] = s
GapFree(c) == \A s \in Visible(c) : s.timestamp <= mostRecent[c] => Delivered(c, s)

(* An empty status is one that its handler is about to assign to.          *)
NamedInv ==
  /\ \A i \in DOMAIN userList : userList[i] \in Name
  /\ \A i \in DOMAIN timelineList : \A s \in timelineList[i].statuses :
       \/ s.name # NoName
       \/ \E c \in Client : pc[c] = "assign" /\ slot[c] = i /\ s = Blank(c)

(* What the loop over i has looked at.                                     *)
Gathered(c) ==
  \A k \in DOMAIN Subscriptions(c) : k < at[c] =>
    LET i == getTimelinePointer(timelineList, Subscriptions(c)[k])
    IN  i # NULL => \A s \in timelineList[i].statuses :
          s.timestamp > mostRecent[c] => <<k, s>> \in messages[c]

(* What the loop over j has looked at.                                     *)
ScanInv(c) ==
  /\ pc[c] \notin {"scan", "copy"} => seen[c] = {}
  /\ pc[c] \in {"scan", "copy"} =>
       /\ at[c] \in DOMAIN Subscriptions(c)
       /\ source[c] = getTimelinePointer(timelineList, Subscriptions(c)[at[c]])
       /\ seen[c] \subseteq Scanned(c) /\ tested[c] \subseteq Scanned(c)
       /\ \A s, t \in tested[c] : s = t
       /\ \A s \in seen[c] :
            s.timestamp > mostRecent[c] => s \in tested[c] \/ <<at[c], s>> \in messages[c]

StreamInv(c) ==
  /\ mostRecent[c] = -1 \/ \E i \in DOMAIN sent[c] : sent[c][i].timestamp = mostRecent[c]
  /\ \A i \in DOMAIN sent[c] : sent[c][i] \in posted
  /\ \A e \in messages[c] : e[2].name # NoName
  /\ wrote[c] > 0 => pc[c] = "write" /\ mostRecent[c] >= 0
  /\ pc[c] \notin Loops => at[c] = 1

GapInv(c) ==
  /\ pc[c] \in Chatting \ {"write"} => GapFree(c)
  /\ pc[c] \in Loops \ {"write"} =>
       /\ ~Stale(c) /\ slot[c] = getTimelinePointer(timelineList, NameOf[c])
       /\ Gathered(c)
  /\ pc[c] = "write" =>
       \A s \in Visible(c) : Delivered(c, s) \/ \E e \in messages[c] : e[2] = s
  /\ ScanInv(c)

-----------------------------------------------------------------------------
(* What a step does to the timelines that a client's stream is made of.    *)

LEMMA NamesDistinct ==
  ASSUME TypeOK, RosterInv, NEW i \in DOMAIN timelineList, NEW j \in DOMAIN timelineList,
         timelineList[i].name = timelineList[j].name, timelineList[i].name \in Name
  PROVE  i = j
  <1>1. \A k \in DOMAIN timelineList : Leaving(k) => timelineList[k].name = NoName
    BY DEF Leaving, RosterInv, HandInv, EmptyTimeline
  <1>2. timelineList[i].name = userList[i] /\ timelineList[j].name = userList[j]
    BY <1>1, ServerAssumption DEF RosterInv, ListsInStep
  <1>3. DOMAIN timelineList \subseteq DOMAIN userList
    BY Domains DEF RosterInv, ListsInStep
  <1> QED  BY <1>2, <1>3 DEF RosterInv, ListsInStep

LEMMA PointerFinds ==
  ASSUME TypeOK, RosterInv, NEW i \in DOMAIN timelineList, timelineList[i].name \in Name
  PROVE  getTimelinePointer(timelineList, timelineList[i].name) = i
  <1> DEFINE n == timelineList[i].name
             P == {j \in DOMAIN timelineList : timelineList[j].name = n}
  <1>1. P = {i}
    BY NamesDistinct
  <1>2. i \in Nat
    BY Domains
  <1> HIDE DEF P
  <1>3. FirstOf(P, NULL) = i
    BY <1>1, <1>2 DEF FirstOf
  <1> QED  BY <1>3 DEF getTimelinePointer, P

(* A timeline with posts has had its name before the step, and those posts *)
(* or one that is newer than all.                                          *)
Fresh == {s \in posted' : \A t \in posted : s.timestamp > t.timestamp}
Kept(i) ==
  /\ i \in DOMAIN timelineList
  /\ timelineList'[i].name = timelineList[i].name
  /\ Whole(timelineList'[i].statuses) \subseteq Whole(timelineList[i].statuses) \cup Fresh

LEMMA PostsKept ==
  ASSUME TypeOK, Alone, RosterInv, StampInv, NEW c \in Client, Handler(c) \/ Calls(c),
         NEW i \in DOMAIN timelineList', Whole(timelineList'[i].statuses) # {}
  PROVE  Kept(i)
  <1>1. CASE Shy(c) \/ PushUser(c)
    <2>1. UNCHANGED timelineList
      BY <1>1, ShySteps DEF lists, PushUser
    <2> QED  BY <2>1 DEF Kept
  <1>3. CASE PushTimeline(c)
    <2>0. c \in Busy
      BY <1>3 DEF PushTimeline, Goto, Busy, Waiting
    <2>1. EmptyTimeline(NameOf[c]) \in Timelines
      BY ServerAssumption DEF EmptyTimeline, Timelines
    <2>2. timelineList' = Append(timelineList, EmptyTimeline(NameOf[c]))
      BY <2>0, <1>3, NoWriteLost DEF PushTimeline
    <2>3. /\ DOMAIN timelineList' = 1 .. Len(timelineList) + 1
          /\ DOMAIN timelineList = 1 .. Len(timelineList) /\ Len(timelineList) \in Nat
          /\ \A j \in 1 .. Len(timelineList) : timelineList'[j] = timelineList[j]
          /\ timelineList'[Len(timelineList) + 1] = EmptyTimeline(NameOf[c])
      BY <2>1, <2>2, AppendProperties, LenProperties DEF TypeOK
    <2> QED  BY <2>3 DEF Kept, EmptyTimeline, Whole
  <1>4. CASE JoinAdd(c) \/ JoinAssign(c)
    BY <1>4, JoinAddEffect, JoinAssignEffect DEF Kept
  <1>5. CASE LeaveClear(c)
    BY <1>5, ClearReplaces DEF Replaced, EmptyTimeline, Kept, Whole
  <1>6. CASE LeaveMerge(c)
    <2> DEFINE u == [EmptyTimeline(NameOf[c]) EXCEPT !.subscribed = copy[c]]
    <2>1. slot[c] \in DOMAIN timelineList /\ Replaced(c, u)
      BY <1>6, MergeReplaces
    <2>2. u.statuses = {}
      BY DEF EmptyTimeline
    <2> HIDE DEF u
    <2> QED  BY <2>1, <2>2 DEF Kept, Replaced, Whole
  <1>7. CASE Publish(c)
    BY <1>7, PublishEffect DEF Kept
  <1>8. CASE Assign(c)
    <2>1. /\ posted' = posted \cup {Recved(c)} /\ i \in DOMAIN timelineList
          /\ timelineList'[i].name = timelineList[i].name
          /\ timelineList'[i].statuses \subseteq timelineList[i].statuses \cup {Recved(c)}
      BY <1>8, AssignEffect
    <2>2. \A s \in posted : s.timestamp < serverCounter /\ s.timestamp \in Nat
      BY <1>8 DEF Assign, Goto, StampInv, TypeOK, Stats
    <2>3. Recved(c).timestamp = serverCounter /\ serverCounter \in Nat
      BY <1>8 DEF Assign, Goto, StampInv, TypeOK, Recved
    <2>4. Recved(c) \in Fresh
      BY <2>1, <2>2, <2>3 DEF Fresh
    <2> QED  BY <2>1, <2>4 DEF Kept, Whole
  <1> QED  BY <1>1, <1>3, <1>4, <1>5, <1>6, <1>7, <1>8 DEF Shy

(* The list of a client in chat is what it was, whoever steps.             *)
LEMMA ListKept ==
  ASSUME TypeOK, Alone, RosterInv, Unshared, NEW c \in Client, Handler(c) \/ Calls(c),
         NEW d \in Client, pc[d] \in Chatting
  PROVE  Subscriptions(d)' = Subscriptions(d)
  <1> DEFINE n == NameOf[d]
             P == {i \in DOMAIN timelineList : timelineList[i].name = n}
             Q == {i \in DOMAIN timelineList' : timelineList'[i].name = n}
  <1>0. /\ n \in Name /\ DOMAIN timelineList \subseteq Nat
        /\ getTimelinePointer(timelineList, n) = FirstOf(P, NULL)
        /\ getTimelinePointer(timelineList', n) = FirstOf(Q, NULL)
    BY ServerAssumption, Domains DEF getTimelinePointer
  <1>1. ASSUME P = Q, \A i \in P : timelineList'[i].subscribed = timelineList[i].subscribed
        PROVE  Subscriptions(d)' = Subscriptions(d)
    <2>1. FirstOf(P, NULL) \in P \cup {NULL}
      BY FirstOfType
    <2>2. CASE FirstOf(P, NULL) = NULL
      BY <1>0, <1>1, <2>2 DEF Subscriptions
    <2>3. CASE FirstOf(P, NULL) # NULL
      BY <1>0, <1>1, <2>1, <2>3 DEF Subscriptions
    <2> QED  BY <2>2, <2>3
  <1>2. CASE Shy(c) \/ PushUser(c)
    <2>1. UNCHANGED timelineList
      BY <1>2, ShySteps DEF lists, PushUser
    <2> QED  BY <1>1, <2>1
  <1>3. ASSUME ~Shy(c) PROVE c \in Busy
    BY <1>3 DEF Shy, PushUser, PushTimeline, JoinAdd, JoinAssign, LeaveClear,
                LeaveMerge, Reply, Publish, Assign, Goto, Busy, Waiting
  <1>4. CASE PushTimeline(c)
    <2> DEFINE len == Len(timelineList)
    <2>1. EmptyTimeline(NameOf[c]) \in Timelines
      BY ServerAssumption DEF EmptyTimeline, Timelines
    <2>2. timelineList' = Append(timelineList, EmptyTimeline(NameOf[c])) /\ pc[c] = "pushTimeline"
      BY <1>3, <1>4, NoWriteLost DEF PushTimeline, Shy, Goto
    <2>3. /\ DOMAIN timelineList' = 1 .. len + 1
          /\ DOMAIN timelineList = 1 .. len /\ len \in Nat
          /\ \A j \in 1 .. len : timelineList'[j] = timelineList[j]
          /\ timelineList'[len + 1] = EmptyTimeline(NameOf[c])
      BY <2>1, <2>2, AppendProperties, LenProperties DEF TypeOK
    <2>4. NameOf[c] # n
      BY <2>2 DEF Unshared, Chatting, Loops
    <2>5. timelineList'[len + 1].name # n
      BY <2>3, <2>4 DEF EmptyTimeline
    <2> HIDE DEF len
    <2>6. P = Q
      BY <2>3, <2>5
    <2>7. \A i \in P : timelineList'[i].subscribed = timelineList[i].subscribed
      BY <2>3
    <2> QED  BY <1>1, <2>6, <2>7
  <1>5. CASE Publish(c) \/ Assign(c)
    <2>1. /\ DOMAIN timelineList' = DOMAIN timelineList
          /\ \A i \in DOMAIN timelineList :
               /\ timelineList'[i].subscribed = timelineList[i].subscribed
               /\ timelineList'[i].name = timelineList[i].name
      BY <1>5, PublishEffect, AssignEffect
    <2> QED  BY <1>1, <2>1
  <1>6. CASE JoinAdd(c) \/ JoinAssign(c) \/ LeaveClear(c) \/ LeaveMerge(c)
    <2>1. /\ pc[c] \in {"joinAdd", "joinAssign", "leaveClear", "leaveMerge"}
          /\ slot[c] \in DOMAIN timelineList /\ c \in Busy
      BY <1>3, <1>6, JoinAssignReplaces
         DEF JoinAdd, JoinAssign, Reply, LeaveClear, LeaveMerge, Goto, Shy
    <2>2. NameOf[c] # n /\ NoName # n
      BY <1>0, <2>1, ServerAssumption DEF Unshared, Chatting, Loops
    <2>3. timelineList[slot[c]].name # n
      <3>1. userList[slot[c]] = NameOf[c]
        BY <2>1 DEF RosterInv, HandInv, SlotStages
      <3>2. Leaving(slot[c]) => timelineList[slot[c]].name = NoName
        BY DEF Leaving, RosterInv, HandInv, EmptyTimeline
      <3> QED  BY <2>1, <2>2, <3>1, <3>2 DEF RosterInv, ListsInStep
    <2>4. \E u : Replaced(c, u) /\ u.name # n
      <3>1. CASE JoinAdd(c) \/ JoinAssign(c)
        <4> DEFINE u == timelineList'[slot[c]]
        <4>1. Replaced(c, u)
          BY <2>1, <3>1, JoinReplaces, JoinAssignReplaces DEF Replaced
        <4>2. u.name = timelineList[slot[c]].name
          BY <2>1, <3>1, JoinAddEffect, JoinAssignEffect
        <4> QED  BY <2>3, <4>1, <4>2
      <3>2. CASE LeaveClear(c)
        BY <2>2, <3>2, ClearReplaces DEF EmptyTimeline
      <3>3. CASE LeaveMerge(c)
        <4> DEFINE u == [EmptyTimeline(NameOf[c]) EXCEPT !.subscribed = copy[c]]
        <4>1. Replaced(c, u)
          BY <3>3, MergeReplaces
        <4>2. u.name = NameOf[c]
          BY DEF EmptyTimeline
        <4> HIDE DEF u
        <4> QED  BY <2>2, <4>1, <4>2
      <3> QED  BY <1>6, <3>1, <3>2, <3>3
    <2>5. P = Q /\ \A i \in P : timelineList'[i] = timelineList[i]
      BY <2>1, <2>3, <2>4 DEF Replaced
    <2> QED  BY <1>1, <2>5
  <1> QED  BY <1>2, <1>4, <1>5, <1>6 DEF Shy

(* So a client in chat can see nothing more than before, but for what is   *)
(* newer than all.                                                         *)
LEMMA VisibleKept ==
  ASSUME TypeOK, Alone, RosterInv, StampInv, Unshared,
         NEW c \in Client, Handler(c) \/ Calls(c), NEW d \in Client, pc[d] \in Chatting
  PROVE  Visible(d)' \subseteq Visible(d) \cup Fresh
  <1>1. Subscriptions(d)' = Subscriptions(d)
    BY ListKept
  <1>2. ASSUME NEW s \in Visible(d)' PROVE s \in Visible(d) \cup Fresh
    <2>1. PICK i \in DOMAIN timelineList' :
            /\ s \in Whole(timelineList'[i].statuses)
            /\ \E j \in DOMAIN Subscriptions(d)' :
                 Subscriptions(d)'[j] = timelineList'[i].name
      BY <1>2 DEF Visible
    <2>2. Kept(i)
      BY <2>1, PostsKept
    <2> QED  BY <1>1, <2>1, <2>2 DEF Kept, Visible
  <1> QED  BY <1>2

-----------------------------------------------------------------------------
(* What a step does to the streams.                                        *)

(* Those of other clients are left as they are.                            *)
LEMMA OthersStream ==
  ASSUME TypeOK, NEW c \in Client, Handler(c) \/ Calls(c), NEW d \in Client \ {c}
  PROVE  /\ pc'[d] = pc[d] /\ slot'[d] = slot[d] /\ storage'[d] = storage[d]
         /\ at'[d] = at[d] /\ messages'[d] = messages[d] /\ wrote'[d] = wrote[d]
         /\ source'[d] = source[d] /\ seen'[d] = seen[d] /\ tested'[d] = tested[d]
         /\ sent'[d] = sent[d] /\ mostRecent'[d] = mostRecent[d] /\ taken'[d] = taken[d]
  <1> USE DEF TypeOK, Goto, pointer, round, scan, stream, TakePointer, DropPointer
  <1>1. CASE User(c)
    BY <1>1 DEF User, CheckUser, PushUser, PushTimeline
  <1>2. CASE Join(c)
    BY <1>2 DEF Join, JoinFind, FindOwn, JoinTest, JoinAdd, JoinAssign, Reply
  <1>3. CASE Leave(c)
    BY <1>3 DEF Leave, LeaveFind, FindOwn, LeaveNobody, LeaveCopy, LeaveClear,
                LeaveMerge, Reply
  <1>4. CASE List(c) \/ Crash(c) \/ EndChat(c)
    BY <1>4 DEF List, Crash, EndChat
  <1>5. CASE Calls(c)
    BY <1>5 DEF Calls, Call, CallUser, CallJoin, CallLeave, CallList, CallChat,
                CallMessage, Kill
  <1>6. CASE Hello(c) \/ FindMailbox(c) \/ Recent(c)
    BY <1>6 DEF Hello, FindMailbox, Recent
  <1>7. CASE Gathering(c)
    BY <1>7 DEF Gathering, GatherNext, GatherTest, GatherCopy, GatherEnd, GatherDone
  <1>8. CASE stamp(c) \/ Publish(c) \/ Assign(c)
    BY <1>8 DEF stamp, StampLoad, StampStore, StampReturn, Publish, Assign
  <1>9. CASE WriteNext(c) \/ WriteDone(c)
    BY <1>9 DEF WriteNext, WriteDone
  <1> QED
    BY <1>1, <1>2, <1>3, <1>4, <1>5, <1>6, <1>7, <1>8, <1>9
       DEF Handler, chat, getRecentMessages, Gathering

(* A step that neither begins a round nor is a part of one.                *)
Quiet(c) ==
  /\ at'[c] = at[c] /\ messages'[c] = messages[c] /\ wrote'[c] = wrote[c]
  /\ source'[c] = source[c] /\ seen'[c] = seen[c] /\ tested'[c] = tested[c]
  /\ sent'[c] = sent[c] /\ mostRecent'[c] = mostRecent[c]
  /\ \/ UNCHANGED <<pc, timelineList, pointer>>
     \/ /\ pc[c] \notin Loops /\ pc'[c] \notin Loops
        /\ pc'[c] \in Chatting <=> pc[c] \in Chatting

Rounding(c) ==
  \/ Hello(c) \/ Kill(c) \/ Recent(c) \/ Gathering(c) \/ WriteNext(c) \/ WriteDone(c)

LEMMA QuietSteps ==
  ASSUME TypeOK, NEW c \in Client, Handler(c) \/ Calls(c), ~Rounding(c)
  PROVE  Quiet(c)
  <1> USE DEF Quiet, TypeOK, Goto, round, scan, stream, lists, Chatting, Loops
  <1>1. CASE User(c)
    BY <1>1 DEF User, CheckUser, PushUser, PushTimeline
  <1>2. CASE Join(c)
    BY <1>2 DEF Join, JoinFind, FindOwn, JoinTest, JoinAdd, JoinAssign, Reply
  <1>3. CASE Leave(c)
    BY <1>3 DEF Leave, LeaveFind, FindOwn, LeaveNobody, LeaveCopy, LeaveClear,
                LeaveMerge, Reply
  <1>4. CASE List(c) \/ Crash(c) \/ EndChat(c)
    BY <1>4 DEF List, Crash, EndChat
  <1>5. CASE Calls(c)
    BY <1>5 DEF Calls, Call, CallUser, CallJoin, CallLeave, CallList, CallChat,
                CallMessage, Rounding
  <1>6. CASE FindMailbox(c) \/ stamp(c) \/ Publish(c) \/ Assign(c)
    BY <1>6 DEF FindMailbox, stamp, StampLoad, StampStore, StampReturn, Publish, Assign
  <1> QED
    BY <1>1, <1>2, <1>3, <1>4, <1>5, <1>6
       DEF Handler, chat, getRecentMessages, Gathering, Rounding

-----------------------------------------------------------------------------
(* Empty statuses: nobody else is there while one is.                      *)

LEMMA AssignWaits ==
  ASSUME TypeOK, NEW c \in Client, Handler(c) \/ Calls(c), ~Assign(c),
         NEW d \in Client, pc[d] = "assign"
  PROVE  pc'[d] = "assign" /\ slot'[d] = slot[d] /\ Blank(d)' = Blank(d)
  <1>1. CASE d # c
    BY <1>1, OthersStream DEF Blank
  <1>2. CASE d = c
    <2>1. Crash(c)
      BY <1>2 DEF Handler, Calls, User, CheckUser, PushUser, PushTimeline, Join,
           JoinFind, FindOwn, JoinTest, JoinAdd, JoinAssign, Leave, LeaveFind,
           LeaveNobody, LeaveCopy, LeaveClear, LeaveMerge, Reply, List, chat, Hello,
           FindMailbox, stamp, StampLoad, StampStore, StampReturn, Publish,
           getRecentMessages, Recent, GatherNext, GatherTest, GatherCopy, GatherEnd,
           GatherDone, WriteNext, WriteDone, EndChat, Call, CallUser, CallJoin,
           CallLeave, CallList, CallChat, CallMessage, Kill, Goto
    <2> QED  BY <1>2, <2>1 DEF Crash, Blank, pointer, stream
  <1> QED  BY <1>1, <1>2

LEMMA NamedStep ==
  ASSUME TypeOK, Alone, RosterInv, NamedInv, NEW c \in Client, Handler(c) \/ Calls(c)
  PROVE  NamedInv'
  <1>0. NoName \notin Name /\ NameOf[c] \in Name
    BY ServerAssumption
  <1>1. \A i \in DOMAIN userList' : userList'[i] \in Name
    <2>1. CASE UNCHANGED userList
      BY <2>1 DEF NamedInv
    <2>2. CASE userList' = Append(userList, NameOf[c])
      <3>1. /\ DOMAIN userList = 1 .. Len(userList) /\ Len(userList) \in Nat
            /\ DOMAIN userList' = 1 .. Len(userList) + 1
            /\ \A i \in 1 .. Len(userList) : userList'[i] = userList[i]
            /\ userList'[Len(userList) + 1] = NameOf[c]
        BY <1>0, <2>2, AppendProperties, LenProperties DEF TypeOK
      <3> QED  BY <1>0, <3>1 DEF NamedInv
    <2>3. CASE Shy(c)
      BY <2>1, <2>3, ShySteps DEF lists
    <2> QED
      BY <2>1, <2>2, <2>3 DEF Shy, PushUser, PushTimeline, JoinAdd, JoinAssign,
                              LeaveClear, LeaveMerge, Publish, Assign
  <1> SUFFICES ASSUME NEW i \in DOMAIN timelineList',
                      NEW s \in timelineList'[i].statuses, s.name = NoName
               PROVE  \E d \in Client : pc'[d] = "assign" /\ slot'[d] = i /\ s = Blank(d)'
    BY <1>1 DEF NamedInv
  <1>2. ASSUME NEW d \in Client, pc[d] = "assign", slot[d] = i, s = Blank(d), ~Assign(c)
        PROVE  \E e \in Client : pc'[e] = "assign" /\ slot'[e] = i /\ s = Blank(e)'
    BY <1>2, AssignWaits
  <1>3. ASSUME i \in DOMAIN timelineList, s \in timelineList[i].statuses
        PROVE  \E d \in Client : pc[d] = "assign" /\ slot[d] = i /\ s = Blank(d)
    BY <1>3 DEF NamedInv
  <1>4. CASE Shy(c) \/ PushUser(c)
    <2>1. UNCHANGED timelineList /\ ~Assign(c)
      BY <1>4, ShySteps DEF lists, PushUser, Shy, Assign, Goto
    <2> QED  BY <1>2, <1>3, <2>1
  <1>5. CASE PushTimeline(c)
    <2>0. c \in Busy /\ ~Assign(c)
      BY <1>5 DEF PushTimeline, Assign, Goto, Busy, Waiting
    <2>1. EmptyTimeline(NameOf[c]) \in Timelines
      BY <1>0 DEF EmptyTimeline, Timelines
    <2>2. timelineList' = Append(timelineList, EmptyTimeline(NameOf[c]))
      BY <2>0, <1>5, NoWriteLost DEF PushTimeline
    <2>3. /\ DOMAIN timelineList' = 1 .. Len(timelineList) + 1
          /\ DOMAIN timelineList = 1 .. Len(timelineList) /\ Len(timelineList) \in Nat
          /\ \A j \in 1 .. Len(timelineList) : timelineList'[j] = timelineList[j]
          /\ timelineList'[Len(timelineList) + 1] = EmptyTimeline(NameOf[c])
      BY <2>1, <2>2, AppendProperties, LenProperties DEF TypeOK
    <2>4. i \in DOMAIN timelineList /\ s \in timelineList[i].statuses
      BY <2>3 DEF EmptyTimeline
    <2> QED  BY <1>2, <1>3, <2>0, <2>4
  <1>6. CASE JoinAdd(c) \/ JoinAssign(c)
    <2>1. i \in DOMAIN timelineList /\ s \in timelineList[i].statuses
      BY <1>6, JoinAddEffect, JoinAssignEffect
    <2>2. ~Assign(c)
      BY <1>6 DEF JoinAdd, JoinAssign, Reply, Assign, Goto
    <2> QED  BY <1>2, <1>3, <2>1, <2>2
  <1>7. CASE LeaveClear(c) \/ LeaveMerge(c)
    <2>1. i \in DOMAIN timelineList /\ s \in timelineList[i].statuses
      <3>1. CASE LeaveClear(c)
        BY <3>1, ClearReplaces DEF Replaced, EmptyTimeline
      <3>2. CASE LeaveMerge(c)
        <4> DEFINE u == [EmptyTimeline(NameOf[c]) EXCEPT !.subscribed = copy[c]]
        <4>1. Replaced(c, u) /\ u.statuses = {}
          BY <3>2, MergeReplaces DEF EmptyTimeline
        <4> HIDE DEF u
        <4> QED  BY <4>1 DEF Replaced
      <3> QED  BY <1>7, <3>1, <3>2
    <2>2. ~Assign(c)
      BY <1>7 DEF LeaveClear, LeaveMerge, Reply, Assign, Goto
    <2> QED  BY <1>2, <1>3, <2>1, <2>2
  <1>8. CASE Publish(c)
    <2> DEFINE t == timelineList[slot[c]]
               u == [t EXCEPT !.statuses = @ \cup {Blank(c)}]
    <2>1. /\ c \in Busy /\ pc[c] = "publish" /\ pc'[c] = "assign" /\ ~Assign(c)
          /\ slot'[c] = slot[c] /\ Blank(c)' = Blank(c)
      BY <1>8 DEF Publish, Assign, Goto, TypeOK, Busy, Waiting, pointer, stream, Blank
    <2>2. slot[c] \in DOMAIN timelineList /\ Replaced(c, u)
      BY <1>8, <2>1, PublishReplaces
    <2>3. u.statuses = t.statuses \cup {Blank(c)}
      BY <2>2, TimelineType DEF Timelines
    <2>4. \/ i = slot[c] /\ s = Blank(c)
          \/ i \in DOMAIN timelineList /\ s \in timelineList[i].statuses
      <3> HIDE DEF u
      <3> QED  BY <2>2, <2>3 DEF Replaced
    <2> QED  BY <1>2, <1>3, <2>1, <2>4
  <1>9. CASE Assign(c)
    <2> DEFINE t == timelineList[slot[c]]
               u == [t EXCEPT !.statuses = (@ \ {Blank(c)}) \cup {Recved(c)}]
    <2>1. c \in Busy /\ pc[c] = "assign"
      BY <1>9 DEF Assign, Goto, Busy, Waiting
    <2>2. slot[c] \in DOMAIN timelineList /\ Replaced(c, u)
      BY <1>9, AssignReplaces
    <2>3. u.statuses = (t.statuses \ {Blank(c)}) \cup {Recved(c)} /\ Recved(c).name # NoName
      BY <1>0, <2>2, TimelineType DEF Timelines, Recved
    <2>4. /\ i \in DOMAIN timelineList /\ s \in timelineList[i].statuses
          /\ i = slot[c] => s # Blank(c)
      <3> HIDE DEF u
      <3> QED  BY <2>2, <2>3 DEF Replaced
    <2>5. \A d \in Client : pc[d] = "assign" => d = c
      BY <2>1 DEF Alone, Busy, Waiting
    <2> QED  BY <1>3, <2>4, <2>5
  <1> QED  BY <1>4, <1>5, <1>6, <1>7, <1>8, <1>9 DEF Shy

(* What a loop over j finds is a message, and the copy of it is the same.  *)
LEMMA ScannedNamed ==
  ASSUME Alone, NamedInv, NEW c \in Client, pc[c] \in {"scan", "copy"}
  PROVE  \A s \in Scanned(c) : s.name # NoName
  <1>1. \A d \in Client : pc[d] # "assign"
    BY DEF Alone, Busy, Waiting
  <1> QED  BY <1>1 DEF NamedInv, Scanned

LEMMA CopyTakes ==
  ASSUME TypeOK, Alone, NamedInv, NEW c \in Client, ScanInv(c), GatherCopy(c)
  PROVE  \E t \in Scanned(c) :
           /\ tested[c] \subseteq {t} /\ t.name # NoName
           /\ messages'[c] = messages[c] \cup {<<at[c], t>>}
  <1>1. PICK t \in tested[c] : \E s \in Copies(c, t) :
          messages' = [messages EXCEPT ![c] = @ \cup {<<at[c], s>>}]
    BY DEF GatherCopy
  <1>2. pc[c] = "copy"
    BY DEF GatherCopy, Goto
  <1>3. t \in Scanned(c) /\ tested[c] \subseteq {t} /\ t.name # NoName
    BY <1>1, <1>2, ScannedNamed DEF ScanInv
  <1>4. Copies(c, t) = {t}
    <2>1. {s \in Scanned(c) : Became(t, s)} = {t}
      BY <1>3 DEF Became
    <2> QED  BY <2>1 DEF Copies
  <1>5. messages' = [messages EXCEPT ![c] = @ \cup {<<at[c], t>>}]
    BY <1>1, <1>4
  <1> QED  BY <1>3, <1>5 DEF TypeOK

-----------------------------------------------------------------------------
(* The write loop.                                                         *)

(* What WriteNext adds to the stream.                                      *)
LEMMA WriteAppends ==
  ASSUME ChatInv, NEW c \in Client, StreamInv(c), WriteNext(c)
  PROVE  \E e \in messages[c] :
           /\ e[2] \in posted /\ e[2].timestamp \in Nat
           /\ pc[c] = "write" /\ pc'[c] = "write"
           /\ messages'[c] = messages[c] \ {e}
           /\ mostRecent'[c] = e[2].timestamp
           /\ DOMAIN sent'[c] = 1 .. Len(sent[c]) + 1
           /\ DOMAIN sent[c] = 1 .. Len(sent[c]) /\ Len(sent[c]) \in Nat
           /\ \A i \in 1 .. Len(sent[c]) : sent'[c][i] = sent[c][i]
           /\ sent'[c][Len(sent[c]) + 1] = e[2]
  <1> USE DEF ChatInv
  <1>1. PICK e \in messages[c] :
         /\ e[2] \in Stats
         /\ messages' = [messages EXCEPT ![c] = @ \ {e}]
         /\ sent' = [sent EXCEPT ![c] = Append(@, e[2])]
         /\ mostRecent' = [mostRecent EXCEPT
              ![c] = IF e[2].timestamp > @ THEN e[2].timestamp ELSE @]
    BY WriteEffect
  <1>2. /\ e[2].timestamp \in Nat /\ mostRecent[c] \in Int
        /\ e[2].timestamp >= mostRecent[c]
    BY <1>1 DEF StreamInv, RoundOrder, TypeOK, Stats
  <1>3. mostRecent'[c] = e[2].timestamp
    <2>1. mostRecent \in [Client -> Int]
      BY DEF TypeOK
    <2> QED  BY <1>1, <1>2, <2>1
  <1>4. /\ DOMAIN sent'[c] = 1 .. Len(sent[c]) + 1
        /\ DOMAIN sent[c] = 1 .. Len(sent[c]) /\ Len(sent[c]) \in Nat
        /\ \A i \in 1 .. Len(sent[c]) : sent'[c][i] = sent[c][i]
        /\ sent'[c][Len(sent[c]) + 1] = e[2]
    <2>1. sent[c] \in Seq(Stats) /\ sent'[c] = Append(sent[c], e[2])
      BY <1>1 DEF TypeOK
    <2> QED  BY <1>1, <2>1, AppendProperties, LenProperties
  <1>5. messages'[c] = messages[c] \ {e} /\ pc[c] = "write" /\ pc'[c] = "write"
        /\ e[2] \in posted
    BY <1>1 DEF StreamInv, WriteNext, Goto, TypeOK, AllPosted
  <1> QED  BY <1>2, <1>3, <1>4, <1>5

LEMMA StreamStep ==
  ASSUME ChatInv, Alone, NamedInv, TypeOK', NEW c \in Client, Handler(c) \/ Calls(c),
         NEW d \in Client, StreamInv(d), GapInv(d)
  PROVE  StreamInv(d)'
  <1>0. TypeOK /\ posted \subseteq posted'
    BY PostedLists DEF ChatInv
  <1>1. CASE d # c
    BY <1>0, <1>1, OthersStream DEF StreamInv
  <1>2. CASE d = c /\ ~Rounding(c)
    BY <1>0, <1>2, QuietSteps DEF StreamInv, Quiet, Loops
  <1>3. CASE d = c /\ (Hello(c) \/ Kill(c))
    <2>1. /\ mostRecent'[c] = -1 /\ sent'[c] = <<>> /\ wrote'[c] = wrote[c]
          /\ at'[c] = at[c] /\ messages'[c] = messages[c] /\ pc[c] \notin Loops
      BY <1>0, <1>3 DEF Hello, Kill, Goto, TypeOK, round, Loops
    <2>2. wrote[c] \in Nat
      BY <1>0 DEF TypeOK
    <2>3. DOMAIN sent'[c] = {} /\ wrote[c] = 0
      BY <1>3, <2>1, <2>2 DEF StreamInv, Loops
    <2> QED  BY <1>3, <2>1, <2>3 DEF StreamInv
  <1>4. CASE d = c /\ Recent(c)
    BY <1>0, <1>4 DEF StreamInv, Recent, Goto, TypeOK, round, stream, Loops
  <1>7. CASE d = c /\ Gathering(c)
    <2>1. /\ UNCHANGED stream /\ wrote'[c] = wrote[c]
          /\ pc[c] \in Loops \ {"write"} /\ pc'[c] \in Loops
      BY <1>0, <1>7 DEF Gathering, GatherNext, GatherTest, GatherCopy, GatherEnd,
                        GatherDone, Goto, TypeOK, Loops
    <2>2. \A e \in messages'[c] : e[2].name # NoName
      <3>1. CASE GatherCopy(c)
        BY <1>0, <1>7, <3>1, CopyTakes DEF StreamInv, GapInv
      <3>2. CASE ~GatherCopy(c)
        BY <1>7, <3>2 DEF Gathering, GatherNext, GatherTest, GatherEnd, GatherDone,
                          StreamInv
      <3> QED  BY <3>1, <3>2
    <2>3. wrote[c] = 0
      <3>1. wrote[c] \in Nat
        BY <1>0 DEF TypeOK
      <3> QED  BY <1>7, <2>1, <3>1 DEF StreamInv, Loops
    <2> QED  BY <1>0, <1>7, <2>1, <2>2, <2>3 DEF StreamInv, stream
  <1>5. CASE d = c /\ WriteDone(c)
    BY <1>0, <1>5 DEF StreamInv, WriteDone, Goto, TypeOK, stream
  <1>6. CASE d = c /\ WriteNext(c)
    <2>1. PICK e \in messages[c] :
           /\ e[2] \in posted /\ e[2].timestamp \in Nat
           /\ pc[c] = "write" /\ pc'[c] = "write"
           /\ messages'[c] = messages[c] \ {e}
           /\ mostRecent'[c] = e[2].timestamp
           /\ DOMAIN sent'[c] = 1 .. Len(sent[c]) + 1
           /\ DOMAIN sent[c] = 1 .. Len(sent[c]) /\ Len(sent[c]) \in Nat
           /\ \A i \in 1 .. Len(sent[c]) : sent'[c][i] = sent[c][i]
           /\ sent'[c][Len(sent[c]) + 1] = e[2]
      BY <1>6, WriteAppends
    <2>2. \E i \in DOMAIN sent'[c] : sent'[c][i].timestamp = mostRecent'[c]
      BY <2>1
    <2>3. \A i \in DOMAIN sent'[c] : sent'[c][i] \in posted'
      BY <1>0, <1>6, <2>1 DEF StreamInv
    <2> QED  BY <1>6, <2>1, <2>2, <2>3 DEF StreamInv, Loops
  <1> QED  BY <1>1, <1>2, <1>3, <1>4, <1>5, <1>6, <1>7 DEF Rounding

-----------------------------------------------------------------------------
(* No gap.                                                                 *)

LEMMA FreshLater ==
  ASSUME ChatInv, TypeOK', NEW d \in Client, StreamInv(d), NEW s \in Fresh
  PROVE  s.timestamp > mostRecent[d]
  <1>1. s \in posted' /\ s.timestamp \in Nat
    BY DEF Fresh, TypeOK, Stats
  <1> QED  BY <1>1 DEF Fresh, StreamInv

LEMMA VisibleType ==
  ASSUME TypeOK, NEW c \in Client, NEW s \in Visible(c)
  PROVE  s \in Stats /\ s.timestamp \in Nat
  <1>1. \A i \in DOMAIN timelineList : timelineList[i].statuses \subseteq Stats
    BY TimelineType DEF Timelines, Statuses
  <1> QED  BY <1>1 DEF Visible, Whole, Stats

LEMMA SubscriptionsType ==
  ASSUME TypeOK, NEW c \in Client
  PROVE  /\ Subscriptions(c) \in Seq(Name \cup {NoName})
         /\ DOMAIN Subscriptions(c) = 1 .. Len(Subscriptions(c))
         /\ DOMAIN Subscriptions(c) \subseteq Nat \ {0}
  <1> DEFINE own == getTimelinePointer(timelineList, NameOf[c])
  <1>1. own # NULL => own \in DOMAIN timelineList
    BY PointerType DEF TypeOK
  <1>2. CASE own = NULL
    BY <1>2 DEF Subscriptions
  <1>3. CASE own # NULL
    <2>1. timelineList[own] \in Timelines
      BY <1>1, <1>3, TimelineType
    <2>2. Subscriptions(c) = timelineList[own].subscribed
      BY <1>3 DEF Subscriptions
    <2>3. Subscriptions(c) \in Seq(Name \cup {NoName})
      BY <2>1, <2>2 DEF Timelines
    <2>4. /\ DOMAIN Subscriptions(c) = 1 .. Len(Subscriptions(c))
          /\ Len(Subscriptions(c)) \in Nat
      BY <2>3, LenProperties
    <2> QED  BY <2>3, <2>4
  <1> QED  BY <1>2, <1>3

(* The step of another client, or one of c that does not touch its stream. *)
LEMMA GapAside ==
  ASSUME ChatInv, Alone, RosterInv, StampInv, Unshared, TypeOK',
         NEW c \in Client, Handler(c) \/ Calls(c),
         NEW d \in Client, StreamInv(d), GapInv(d), d # c \/ ~Rounding(c)
  PROVE  GapInv(d)'
  <1>0. TypeOK
    BY DEF ChatInv
  <1>1. /\ at'[d] = at[d] /\ messages'[d] = messages[d]
        /\ source'[d] = source[d] /\ seen'[d] = seen[d] /\ tested'[d] = tested[d]
        /\ sent'[d] = sent[d] /\ mostRecent'[d] = mostRecent[d]
        /\ pc'[d] \in Chatting => pc[d] \in Chatting
        /\ pc'[d] \in Loops \/ pc[d] \in Loops =>
             pc'[d] = pc[d] /\ slot'[d] = slot[d] /\ storage'[d] = storage[d]
    <2>1. CASE d # c
      BY <1>0, <2>1, OthersStream
    <2>2. CASE d = c
      BY <1>0, <2>2, QuietSteps DEF Quiet, Chatting, Loops, pointer
    <2> QED  BY <2>1, <2>2
  <1>2. pc'[d] \in Loops => UNCHANGED timelineList
    <2> SUFFICES ASSUME pc'[d] \in Loops PROVE UNCHANGED timelineList
      OBVIOUS
    <2>1. CASE d = c
      BY <1>0, <2>1, QuietSteps DEF Quiet
    <2>2. CASE d # c
      <3>1. c \notin Busy
        BY <1>1, <2>2 DEF Alone, Busy, Waiting, Loops
      <3>2. Shy(c)
        BY <3>1 DEF Shy, PushUser, PushTimeline, JoinAdd, JoinAssign, LeaveClear,
                    LeaveMerge, Reply, Publish, Assign, Goto, Busy, Waiting
      <3> QED  BY <1>0, <3>2, ShySteps DEF lists
    <2> QED  BY <2>1, <2>2
  <1>3. pc'[d] \in Loops =>
           /\ Subscriptions(d)' = Subscriptions(d) /\ Visible(d)' = Visible(d)
           /\ Scanned(d)' = Scanned(d)
    BY <1>1, <1>2 DEF Subscriptions, Visible, Scanned
  <1>8. ScanInv(d)'
    BY <1>1, <1>2, <1>3 DEF GapInv, ScanInv, Loops
  <1>4. CASE pc'[d] \in Loops \ {"write"}
    <2>1. GapFree(d)'
      BY <1>1, <1>3, <1>4 DEF GapInv, GapFree, Delivered, Chatting, Loops
    <2>2. Gathered(d)' /\ ~Stale(d)'
      BY <1>1, <1>2, <1>3, <1>4 DEF GapInv, Gathered, Stale
    <2> QED  BY <1>1, <1>2, <1>4, <1>8, <2>1, <2>2 DEF GapInv
  <1>5. CASE pc'[d] = "write"
    BY <1>1, <1>3, <1>5, <1>8 DEF GapInv, Delivered, Loops
  <1>6. CASE pc'[d] \in Chatting \ Loops
    <2>1. pc[d] \in Chatting /\ pc[d] \notin Loops
      <3>1. CASE d # c
        BY <1>0, <1>6, <3>1, OthersStream
      <3>2. CASE d = c
        BY <1>0, <1>6, <3>2, QuietSteps DEF Quiet
      <3> QED  BY <3>1, <3>2
    <2>2. GapFree(d)
      BY <2>1 DEF GapInv, Loops
    <2>3. Visible(d)' \subseteq Visible(d) \cup Fresh
      BY <1>0, <2>1, VisibleKept
    <2>4. \A s \in Fresh : s.timestamp > mostRecent[d] /\ s.timestamp \in Nat
      BY FreshLater DEF Fresh, TypeOK, Stats
    <2>5. mostRecent[d] \in Int
      BY <1>0 DEF TypeOK
    <2>6. GapFree(d)'
      BY <1>1, <2>2, <2>3, <2>4, <2>5 DEF GapFree, Delivered
    <2> QED  BY <1>6, <1>8, <2>6 DEF GapInv, Loops
  <1>7. CASE pc'[d] \notin Chatting
    BY <1>7, <1>8 DEF GapInv, Chatting, Loops
  <1> QED  BY <1>4, <1>5, <1>6, <1>7

(* A round begins: nothing is gathered, and there was no gap.              *)
LEMMA GapBegins ==
  ASSUME ChatInv, TypeOK', NEW c \in Client, Hello(c) \/ Recent(c),
         StreamInv(c), GapInv(c)
  PROVE  GapInv(c)'
  <1>0. TypeOK
    BY DEF ChatInv
  <1>1. /\ UNCHANGED timelineList /\ pc'[c] = "gather" /\ at'[c] = 1
        /\ slot'[c] = getTimelinePointer(timelineList, NameOf[c])
        /\ storage'[c] = Len(timelineList)
    BY <1>0 DEF Hello, Recent, Goto, TypeOK, TakePointer, lists, round,
                  scan, StreamInv, Loops
  <1>2. Visible(c)' = Visible(c)
    BY <1>1 DEF Visible, Subscriptions
  <1>3. GapFree(c)'
    <2>1. CASE Hello(c)
      <3>1. mostRecent'[c] = -1
        BY <1>0, <2>1 DEF Hello, TypeOK
      <3>2. \A s \in Visible(c) : s.timestamp \in Nat
        BY <1>0, VisibleType
      <3> QED  BY <1>2, <3>1, <3>2 DEF GapFree
    <2>2. CASE Recent(c)
      <3>1. GapFree(c) /\ UNCHANGED <<sent, mostRecent>>
        BY <2>2 DEF Recent, Goto, GapInv, Chatting, Loops, stream
      <3> QED  BY <1>2, <3>1 DEF GapFree, Delivered
    <2> QED  BY <2>1, <2>2
  <1>4. Gathered(c)' /\ ~Stale(c)'
    <2>1. Subscriptions(c)' = Subscriptions(c) /\ DOMAIN Subscriptions(c) \subseteq Nat \ {0}
      BY <1>0, <1>1, SubscriptionsType DEF Subscriptions
    <2> QED  BY <1>1, <2>1 DEF Gathered, Stale
  <1>5. ScanInv(c)'
    BY <1>1 DEF Hello, Recent, Goto, round, scan, GapInv, ScanInv
  <1> QED  BY <1>1, <1>3, <1>4, <1>5 DEF GapInv

(* The gather loop: its steps leave all that the client can see and has    *)
(* been sent as it is.                                                     *)
LEMMA GatherKeeps ==
  ASSUME TypeOK, NEW c \in Client, Gathering(c), GapInv(c)
  PROVE  /\ UNCHANGED <<timelineList, sent, mostRecent>>
         /\ pc[c] \in Loops \ {"write"}
         /\ ~Stale(c) /\ Gathered(c) /\ GapFree(c) /\ GapFree(c)'
         /\ slot[c] = getTimelinePointer(timelineList, NameOf[c])
         /\ Visible(c)' = Visible(c) /\ Subscriptions(c)' = Subscriptions(c)
         /\ pc'[c] # "write" =>
              pc'[c] \in Loops \ {"write"} /\ UNCHANGED pointer /\ ~Stale(c)'
  <1>1. /\ UNCHANGED <<timelineList, sent, mostRecent>>
        /\ pc[c] \in Loops \ {"write"}
        /\ pc'[c] # "write" => pc'[c] \in Loops \ {"write"} /\ UNCHANGED pointer
    BY DEF Gathering, GatherNext, GatherTest, GatherCopy, GatherEnd, GatherDone,
           Goto, TypeOK, Loops, lists, stream
  <1>2. /\ GapFree(c) /\ ~Stale(c) /\ Gathered(c)
        /\ slot[c] = getTimelinePointer(timelineList, NameOf[c])
    BY <1>1 DEF GapInv, Chatting
  <1>3. Visible(c)' = Visible(c) /\ Subscriptions(c)' = Subscriptions(c)
    BY <1>1 DEF Visible, Subscriptions
  <1>4. GapFree(c)'
    BY <1>1, <1>2, <1>3 DEF GapFree, Delivered
  <1>5. UNCHANGED pointer => ~Stale(c)'
    BY <1>1, <1>2 DEF Stale, pointer
  <1> QED  BY <1>1, <1>2, <1>3, <1>4, <1>5

(* A turn over i begins: nothing of the timeline has been tested.          *)
LEMMA GapNext ==
  ASSUME ChatInv, NEW c \in Client, GatherNext(c), GapInv(c)
  PROVE  GapInv(c)'
  <1>0. TypeOK /\ Gathering(c)
    BY DEF ChatInv, Gathering
  <1>1. /\ pc[c] = "gather" /\ pc'[c] = "scan"
        /\ slot[c] \in DOMAIN timelineList
        /\ at[c] \in Nat \ {0} /\ at[c] <= Len(timelineList[slot[c]].subscribed)
        /\ source'[c] = GatherIndex(c)
        /\ at'[c] = at[c] /\ messages'[c] = messages[c]
        /\ seen'[c] = seen[c] /\ tested'[c] = tested[c]
    BY <1>0 DEF GatherNext, MoreToGather, Goto, TypeOK
  <1>2. Subscriptions(c) = timelineList[slot[c]].subscribed /\ at[c] \in DOMAIN Subscriptions(c)
    <2>1. slot[c] # NULL
      BY <1>0, <1>1, Domains DEF NULL
    <2>2. Subscriptions(c) = timelineList[slot[c]].subscribed
      BY <1>0, <2>1, GatherKeeps DEF Subscriptions
    <2> QED  BY <1>0, <1>1, <2>2, SubscriptionsType
  <1>3. GatherIndex(c) = getTimelinePointer(timelineList, Subscriptions(c)[at[c]])
    BY <1>1, <1>2 DEF GatherIndex
  <1>4. seen'[c] = {} /\ tested'[c] = {}
    BY <1>1 DEF GapInv, ScanInv, ChatInv, RoundOrder
  <1>5. ScanInv(c)'
    BY <1>0, <1>1, <1>2, <1>3, <1>4, GatherKeeps DEF ScanInv
  <1>6. Gathered(c)'
    BY <1>0, <1>1, GatherKeeps DEF Gathered
  <1> QED  BY <1>0, <1>1, <1>5, <1>6, GatherKeeps DEF GapInv, pointer

(* A status is tested: if it is newer, it is about to be copied.           *)
LEMMA GapTest ==
  ASSUME ChatInv, NEW c \in Client, GatherTest(c), GapInv(c)
  PROVE  GapInv(c)'
  <1>0. TypeOK /\ Gathering(c)
    BY DEF ChatInv, Gathering
  <1>1. PICK s \in Scanned(c) :
         /\ seen' = [seen EXCEPT ![c] = @ \cup {s}]
         /\ tested' = [tested EXCEPT ![c] = Newer({s}, mostRecent[c])]
    BY DEF GatherTest
  <1>2. /\ pc[c] = "scan" /\ pc'[c] \in {"scan", "copy"}
        /\ at'[c] = at[c] /\ messages'[c] = messages[c] /\ source'[c] = source[c]
    BY <1>0 DEF GatherTest, Goto, TypeOK
  <1>3. /\ seen'[c] = seen[c] \cup {s}
        /\ tested'[c] = Newer({s}, mostRecent[c]) /\ tested[c] = {}
    BY <1>0, <1>1, <1>2 DEF TypeOK, ChatInv, RoundOrder
  <1>4. Scanned(c)' = Scanned(c)
    BY <1>0, <1>2, GatherKeeps DEF Scanned
  <1>5. ScanInv(c)'
    <2>1. \A t \in seen'[c] : t.timestamp > mostRecent[c] =>
            t \in tested'[c] \/ <<at[c], t>> \in messages[c]
      BY <1>2, <1>3 DEF Newer, GapInv, ScanInv
    <2>2. tested'[c] \subseteq {s}
      BY <1>3 DEF Newer
    <2> QED
      BY <1>0, <1>2, <1>3, <1>4, <2>1, <2>2, GatherKeeps DEF GapInv, ScanInv
  <1>6. Gathered(c)'
    BY <1>0, <1>2, GatherKeeps DEF Gathered
  <1>7. pc'[c] # "write"
    BY <1>2
  <1> QED  BY <1>0, <1>2, <1>5, <1>6, <1>7, GatherKeeps DEF GapInv, pointer

(* It is copied.                                                           *)
LEMMA GapCopy ==
  ASSUME ChatInv, Alone, NamedInv, NEW c \in Client, GatherCopy(c), GapInv(c)
  PROVE  GapInv(c)'
  <1>0. TypeOK /\ Gathering(c) /\ ScanInv(c)
    BY DEF ChatInv, Gathering, GapInv
  <1>1. PICK t \in Scanned(c) :
         tested[c] \subseteq {t} /\ messages'[c] = messages[c] \cup {<<at[c], t>>}
    BY <1>0, CopyTakes
  <1>2. /\ pc[c] = "copy" /\ pc'[c] = "scan" /\ tested'[c] = {}
        /\ at'[c] = at[c] /\ seen'[c] = seen[c] /\ source'[c] = source[c]
    BY <1>0 DEF GatherCopy, Goto, TypeOK
  <1>4. Scanned(c)' = Scanned(c)
    BY <1>0, <1>2, GatherKeeps DEF Scanned
  <1>5. ScanInv(c)'
    <2>1. \A s \in seen[c] : s.timestamp > mostRecent[c] => <<at[c], s>> \in messages'[c]
      BY <1>0, <1>1, <1>2 DEF ScanInv
    <2> QED  BY <1>0, <1>2, <1>4, <2>1, GatherKeeps DEF ScanInv
  <1>6. Gathered(c)'
    BY <1>0, <1>1, <1>2, GatherKeeps DEF Gathered
  <1> QED  BY <1>0, <1>2, <1>5, <1>6, GatherKeeps DEF GapInv, pointer

(* A turn over i ends: every status of the timeline was tested, and each   *)
(* that is newer than the stream was copied.                               *)
LEMMA GapEnd ==
  ASSUME ChatInv, Alone, NamedInv, NEW c \in Client, GatherEnd(c), GapInv(c)
  PROVE  GapInv(c)'
  <1>0. TypeOK /\ Gathering(c) /\ ScanInv(c)
    BY DEF ChatInv, Gathering, GapInv
  <1>1. /\ pc[c] = "scan" /\ pc'[c] = "gather" /\ tested[c] = {}
        /\ at[c] \in Nat /\ at'[c] = at[c] + 1 /\ messages'[c] = messages[c]
        /\ seen'[c] = {} /\ ScanOver(c)
    BY <1>0 DEF GatherEnd, Goto, TypeOK, ChatInv, RoundOrder
  <1> DEFINE i == getTimelinePointer(timelineList, Subscriptions(c)[at[c]])
  <1>2. source[c] = i /\ seen[c] \subseteq Scanned(c)
    BY <1>0, <1>1 DEF ScanInv
  <1>3. \A s \in Scanned(c) : s \in seen[c]
    <2>1. \A s \in Scanned(c) : s.name # NoName
      BY <1>1, ScannedNamed
    <2>2. \A s \in Scanned(c) : \E t \in seen[c] : Became(t, s)
      BY <1>1, <1>2 DEF ScanOver, Became
    <2> QED  BY <1>2, <2>1, <2>2 DEF Became
  <1>4. i # NULL => \A s \in timelineList[i].statuses :
          s.timestamp > mostRecent[c] => <<at[c], s>> \in messages[c]
    <2>1. i # NULL => i \in DOMAIN timelineList
      BY <1>0, PointerType DEF TypeOK
    <2>2. i # NULL => timelineList[i].statuses \subseteq Scanned(c)
      BY <1>2, <2>1 DEF Scanned
    <2> HIDE DEF i
    <2> QED  BY <1>0, <1>1, <1>3, <2>2 DEF ScanInv
  <1> HIDE DEF i
  <1>5. ASSUME NEW k \in DOMAIN Subscriptions(c), k < at[c] + 1,
               NEW p, p = getTimelinePointer(timelineList, Subscriptions(c)[k]),
               p # NULL, NEW s \in timelineList[p].statuses, s.timestamp > mostRecent[c]
        PROVE  <<k, s>> \in messages[c]
    <2>1. CASE k < at[c]
      BY <1>0, <1>5, <2>1, GatherKeeps DEF Gathered
    <2>2. CASE ~(k < at[c])
      <3>1. k \in Nat
        BY <1>0, SubscriptionsType
      <3>2. k = at[c]
        BY <1>1, <1>5, <2>2, <3>1
      <3> QED  BY <1>4, <1>5, <3>2 DEF i
    <2> QED  BY <2>1, <2>2
  <1>6. Gathered(c)'
    BY <1>0, <1>1, <1>5, GatherKeeps DEF Gathered
  <1>7. ScanInv(c)'
    BY <1>1 DEF ScanInv
  <1> QED  BY <1>0, <1>1, <1>6, <1>7, GatherKeeps DEF GapInv, pointer

(* The loop is done: the client can see nothing that is not sent or        *)
(* gathered.                                                               *)
LEMMA GapGathered ==
  ASSUME ChatInv, RosterInv, NamedInv, NEW c \in Client, GatherDone(c), GapInv(c)
  PROVE  GapInv(c)'
  <1>0. TypeOK /\ Gathering(c)
    BY DEF ChatInv, Gathering
  <1>1. /\ pc'[c] = "write" /\ messages' = messages /\ seen'[c] = {}
        /\ ~MoreToGather(c)
    BY <1>0, GatherKeeps DEF GatherDone, Goto, TypeOK
  <1>5. \A k \in DOMAIN Subscriptions(c) : k < at[c]
    <2>1. CASE slot[c] = NULL
      <3>1. Subscriptions(c) = <<>>
        BY <1>0, <2>1, GatherKeeps DEF Subscriptions
      <3> QED  BY <3>1
    <2>2. CASE slot[c] # NULL
      <3>1. slot[c] \in DOMAIN timelineList
        <4>1. slot[c] = getTimelinePointer(timelineList, NameOf[c])
          BY <1>0, GatherKeeps
        <4> QED  BY <1>0, <2>2, <4>1, PointerType DEF TypeOK
      <3>2. Subscriptions(c) = timelineList[slot[c]].subscribed
        BY <1>0, <2>2, GatherKeeps DEF Subscriptions
      <3>3. DOMAIN Subscriptions(c) = 1 .. Len(Subscriptions(c))
            /\ Len(Subscriptions(c)) \in Nat
        BY <1>0, SubscriptionsType, LenProperties
      <3>4. at[c] \in Nat /\ ~(at[c] <= Len(Subscriptions(c)))
        BY <1>0, <1>1, <3>1, <3>2 DEF MoreToGather, TypeOK
      <3> QED  BY <3>3, <3>4
    <2> QED  BY <2>1, <2>2
  <1>6. ASSUME NEW s \in Visible(c) PROVE Delivered(c, s) \/ \E e \in messages[c] : e[2] = s
    <2>1. PICK p \in DOMAIN timelineList, k \in DOMAIN Subscriptions(c) :
            /\ s \in timelineList[p].statuses
            /\ Subscriptions(c)[k] = timelineList[p].name
      BY DEF Visible, Whole
    <2>2. timelineList[p].name \in Name
      <3>1. ~Leaving(p)
        BY <2>1 DEF Leaving, RosterInv, HandInv, EmptyTimeline
      <3>2. p \in DOMAIN userList /\ timelineList[p].name = userList[p]
        BY <1>0, <2>1, <3>1, Domains DEF RosterInv, ListsInStep
      <3> QED  BY <3>2 DEF NamedInv
    <2>3. getTimelinePointer(timelineList, Subscriptions(c)[k]) = p /\ p # NULL
      BY <1>0, <2>1, <2>2, PointerFinds, Domains DEF NULL
    <2>4. CASE s.timestamp > mostRecent[c]
      <3>1. <<k, s>> \in messages[c]
        BY <1>0, <1>5, <2>1, <2>3, <2>4, GatherKeeps DEF Gathered
      <3>2. <<k, s>>[2] = s
        OBVIOUS
      <3> QED  BY <3>1, <3>2
    <2>5. CASE ~(s.timestamp > mostRecent[c])
      <3>1. s.timestamp <= mostRecent[c]
        <4>1. s.timestamp \in Nat
          BY <1>0, VisibleType
        <4>2. mostRecent[c] \in Int
          BY <1>0 DEF TypeOK
        <4> QED  BY <2>5, <4>1, <4>2
      <3> QED  BY <1>0, <3>1, GatherKeeps DEF GapFree
    <2> QED  BY <2>4, <2>5
  <1>7. ScanInv(c)'
    BY <1>1 DEF ScanInv
  <1> QED  BY <1>0, <1>1, <1>6, <1>7, GatherKeeps DEF GapInv, Delivered

(* The write loop: the oldest goes to the stream, and where the loop stops *)
(* all that is left is newer.                                              *)
LEMMA GapWrites ==
  ASSUME ChatInv, NEW c \in Client, WriteNext(c), StreamInv(c), GapInv(c)
  PROVE  GapInv(c)'
  <1>1. PICK e \in messages[c] :
         /\ pc[c] = "write" /\ pc'[c] = "write"
         /\ messages'[c] = messages[c] \ {e}
         /\ DOMAIN sent'[c] = 1 .. Len(sent[c]) + 1
         /\ DOMAIN sent[c] = 1 .. Len(sent[c]) /\ Len(sent[c]) \in Nat
         /\ \A i \in 1 .. Len(sent[c]) : sent'[c][i] = sent[c][i]
         /\ sent'[c][Len(sent[c]) + 1] = e[2]
    BY WriteAppends
  <1>2. Visible(c)' = Visible(c)
    BY DEF WriteNext, lists, Visible, Subscriptions
  <1>3. \A s : Delivered(c, s) => Delivered(c, s)'
    BY <1>1 DEF Delivered
  <1>4. Delivered(c, e[2])'
    BY <1>1 DEF Delivered
  <1>5. \A s \in Visible(c) : Delivered(c, s)' \/ \E f \in messages'[c] : f[2] = s
    BY <1>1, <1>3, <1>4 DEF GapInv
  <1>6. ScanInv(c)'
    BY <1>1 DEF WriteNext, scan, GapInv, ScanInv
  <1> QED  BY <1>1, <1>2, <1>5, <1>6 DEF GapInv

LEMMA GapWritten ==
  ASSUME ChatInv, StampInv, NEW c \in Client, WriteDone(c), StreamInv(c), GapInv(c)
  PROVE  /\ GapInv(c)'
         /\ wrote[c] = K \/ \A s \in Visible(c) : s.timestamp <= mostRecent[c]
  <1>0. TypeOK
    BY DEF ChatInv
  <1>1. /\ UNCHANGED <<timelineList, sent, mostRecent>>
        /\ pc[c] = "write" /\ pc'[c] = "read"
        /\ messages[c] = {} \/ wrote[c] = K
    BY <1>0 DEF WriteDone, Goto, TypeOK, lists, stream
  <1>2. \A s \in Visible(c) : Delivered(c, s) \/ \E e \in messages[c] : e[2] = s
    BY <1>1 DEF GapInv
  <1>3. \A s : Delivered(c, s) => s.timestamp <= mostRecent[c]
    BY DEF Delivered, StreamOrder, ChatInv
  (* What is left and no newer than the stream is what was written last.   *)
  <1>4. GapFree(c)
    <2>1. CASE messages[c] = {}
      BY <1>2, <2>1 DEF GapFree
    <2>2. CASE wrote[c] = K
      <3>1. wrote[c] > 0
        BY <2>2, ServerAssumption
      <3>2. mostRecent[c] >= 0
        BY <3>1 DEF StreamInv
      <3>3. PICK i \in DOMAIN sent[c] : sent[c][i].timestamp = mostRecent[c]
        BY <3>2 DEF StreamInv
      <3>4. ASSUME NEW e \in messages[c], e[2].timestamp <= mostRecent[c]
            PROVE  e[2] = sent[c][i]
        <4>1. e[2].timestamp >= mostRecent[c] /\ mostRecent[c] \in Int /\ e[2] \in posted
          BY <1>0 DEF ChatInv, RoundOrder, TypeOK, AllPosted, StreamInv
        <4>2. e[2].timestamp \in Nat
          BY <1>0, <4>1 DEF TypeOK, Stats
        <4>3. e[2].timestamp = sent[c][i].timestamp
          BY <3>3, <3>4, <4>1, <4>2
        <4>4. sent[c][i] \in posted
          BY DEF StreamInv
        <4> QED  BY <4>1, <4>3, <4>4 DEF StampInv, StampsAreLatest
      <3> QED  BY <1>2, <3>4 DEF GapFree, Delivered
    <2> QED  BY <1>1, <2>1, <2>2
  <1>5. GapFree(c)'
    BY <1>1, <1>4 DEF GapFree, Visible, Subscriptions, Delivered
  <1>6. messages[c] = {} => \A s \in Visible(c) : s.timestamp <= mostRecent[c]
    BY <1>2, <1>3
  <1>7. ScanInv(c)'
    BY <1>1 DEF WriteDone, scan, GapInv, ScanInv
  <1> QED  BY <1>1, <1>5, <1>6, <1>7 DEF GapInv, Loops

LEMMA GapStep ==
  ASSUME ChatInv, Alone, RosterInv, NamedInv, StampInv, Unshared, TypeOK',
         NEW c \in Client, Handler(c) \/ Calls(c),
         NEW d \in Client, StreamInv(d), GapInv(d)
  PROVE  GapInv(d)'
  <1>1. CASE d = c /\ Kill(c)
    <2>1. pc'[c] = "end"
      BY <1>1 DEF Kill, Goto, ChatInv, TypeOK
    <2>2. ScanInv(c)'
      BY <1>1, <2>1 DEF Kill, Goto, round, scan, GapInv, ScanInv
    <2> QED  BY <1>1, <2>1, <2>2 DEF GapInv, Chatting, Loops
  <1> QED
    BY <1>1, GapAside, GapBegins, GapNext, GapTest, GapCopy, GapEnd, GapGathered,
       GapWrites, GapWritten DEF Rounding, Gathering

-----------------------------------------------------------------------------
RoundInv ==
  /\ ChatInv /\ Alone /\ RosterInv /\ NamedInv /\ StampInv
  /\ \A c \in Client : StreamInv(c) /\ GapInv(c)

LEMMA RoundInit == ASSUME Init, LoadedStamps, LoadedRoster PROVE RoundInv
  <1>1. ChatInv /\ Alone /\ RosterInv /\ StampInv
    BY InvInit, RosterInit, StampInit
  <1>2. \A c \in Client : StreamInv(c) /\ GapInv(c)
    BY DEF Init, StreamInv, GapInv, ScanInv, Chatting, Loops
  <1>3. NamedInv
    BY ServerAssumption DEF Init, NamedInv, Whole
  <1> QED  BY <1>1, <1>2, <1>3 DEF RoundInv

LEMMA RoundNext ==
  ASSUME Serial, Unshared, RoundInv, [Next]_vars PROVE RoundInv'
  <1>0. ChatInv' /\ TypeOK /\ TypeOK'
    BY InvNext DEF RoundInv, ChatInv
  <1>1. CASE UNCHANGED vars
    <2> USE <1>1 DEF vars, lists, pointer, unary, round, scan, stream, RoundInv
    <2>1. Alone' /\ ListsInStep'
      BY DEF Alone, Busy, RosterInv, ListsInStep, Pushing, Leaving
    <2>2. \A c \in Client : HandInv(c)'
      BY DEF RosterInv, HandInv, Added, Blank
    <2>6. NamedInv'
      BY DEF NamedInv, Blank
    <2>3. StampInv'
      BY DEF StampInv, StampsAreLatest
    <2>4. \A c \in Client : StreamInv(c)'
      BY DEF StreamInv
    <2>5. ASSUME NEW c \in Client PROVE GapInv(c)'
      <3>1. /\ Visible(c)' = Visible(c) /\ Stale(c)' = Stale(c)
            /\ Subscriptions(c)' = Subscriptions(c) /\ \A s : Delivered(c, s)' = Delivered(c, s)
        BY DEF Visible, Subscriptions, Stale, Delivered
      <3>2. GapFree(c)' = GapFree(c) /\ Gathered(c)' = Gathered(c)
        BY <3>1 DEF GapFree, Gathered
      <3>3. Scanned(c)' = Scanned(c)
        BY DEF Scanned
      <3>4. ScanInv(c)'
        BY <3>1, <3>3 DEF GapInv, ScanInv
      <3> QED  BY <3>1, <3>2, <3>4 DEF GapInv
    <2> QED  BY <1>0, <2>1, <2>2, <2>3, <2>4, <2>5, <2>6 DEF RosterInv
  <1>2. ASSUME NEW c \in Client, Handler(c) \/ Calls(c)
        PROVE  RoundInv'
    <2> USE DEF RoundInv
    <2>1. Alone' /\ RosterInv' /\ NamedInv' /\ StampInv'
      BY <1>0, <1>2, AloneStep, RosterStep, NamedStep, StampStep
    <2>2. \A d \in Client : StreamInv(d)' /\ GapInv(d)'
      BY <1>0, <1>2, StreamStep, GapStep
    <2> QED  BY <1>0, <2>1, <2>2
  <1> QED  BY <1>1, <1>2 DEF Next

(* Between two rounds a client has been sent every post it can see that is *)
(* not newer than the last one it was sent, although a round is cut to K   *)
(* messages: for any number of clients and any K, when handlers do not     *)
(* overlap and names are not shared.                                       *)
THEOREM SerialNoGap ==
  Serial /\ Unshared /\ LoadedStamps /\ LoadedRoster => (Spec => []NoGap)
  <1> SUFFICES ASSUME Serial, Unshared, LoadedStamps, LoadedRoster
               PROVE  Spec => []NoGap
    OBVIOUS
  <1>1. Init => RoundInv
    BY RoundInit
  <1>2. RoundInv /\ [Next]_vars => RoundInv'
    BY RoundNext
  <1>3. RoundInv => NoGap
    BY DEF RoundInv, GapInv, GapFree, Delivered, Chatting, Loops, NoGap
  <1> QED  BY <1>1, <1>2, <1>3, PTL DEF Spec

(* And a round that sent fewer than K messages has left nothing that the   *)
(* client can see.                                                         *)
THEOREM SerialDrains ==
  Serial /\ Unshared /\ LoadedStamps /\ LoadedRoster => (Spec => RoundDrains)
  <1> SUFFICES ASSUME Serial, Unshared, LoadedStamps, LoadedRoster
               PROVE  Spec => RoundDrains
    OBVIOUS
  <1> DEFINE Drains(c) ==
        (pc[c] = "write" /\ pc'[c] = "read") =>
          wrote[c] = K \/ \A s \in Visible(c) : s.timestamp <= mostRecent[c]
  <1>1. Init => RoundInv
    BY RoundInit
  <1>2. RoundInv /\ [Next]_vars => RoundInv'
    BY RoundNext
  <1>3. RoundInv /\ [Next]_vars => [\A c \in Client : Drains(c)]_vars
    <2> SUFFICES ASSUME RoundInv, Next, NEW c \in Client, pc[c] = "write", pc'[c] = "read"
                 PROVE  wrote[c] = K \/ \A s \in Visible(c) : s.timestamp <= mostRecent[c]
      OBVIOUS
    <2> USE DEF RoundInv
    <2>1. PICK d \in Client : Handler(d) \/ Calls(d)
      BY DEF Next
    <2>2. d = c
      BY <2>1, OthersStream DEF ChatInv
    <2>3. Rounding(c)
      BY <2>1, <2>2, QuietSteps DEF Quiet, Loops, ChatInv
    <2>4. WriteDone(c)
      BY <2>3 DEF Rounding, Hello, Kill, Recent, Gathering, GatherNext, GatherTest,
                  GatherCopy, GatherEnd, GatherDone, WriteNext, Goto, ChatInv, TypeOK
    <2> QED  BY <2>4, GapWritten
  <1> QED  BY <1>1, <1>2, <1>3, PTL DEF Spec, RoundDrains

-----------------------------------------------------------------------------
(* No duplicate.                                                           *)

(* A name is in the client's list twice.                                   *)
Doubled(c) ==
  \E k, l \in DOMAIN Subscriptions(c) :
    k # l /\ Subscriptions(c)[k] = Subscriptions(c)[l]

(* What is gathered was found under the name of its author, and has not    *)
(* been sent, except for what an earlier turn of the loop found too.       *)
OnceInv(c) ==
  /\ pc[c] \notin Chatting => sent[c] = <<>>
  /\ \A i, j \in DOMAIN sent[c] : i # j /\ sent[c][i] = sent[c][j] => Doubled(c)
  /\ \A e \in messages[c] :
       e[1] \in DOMAIN Subscriptions(c) /\ e[2].name = Subscriptions(c)[e[1]]
  /\ pc[c] = "write" =>
       \A e \in messages[c] : \A i \in DOMAIN sent[c] : sent[c][i] = e[2] => Doubled(c)

LEMMA OnceAside ==
  ASSUME ChatInv, Alone, RosterInv, Unshared,
         NEW c \in Client, Handler(c) \/ Calls(c),
         NEW d \in Client, OnceInv(d), d # c \/ ~Rounding(c)
  PROVE  OnceInv(d)'
  <1>0. TypeOK
    BY DEF ChatInv
  <1>1. /\ messages'[d] = messages[d] /\ sent'[d] = sent[d]
        /\ pc'[d] \in Chatting <=> pc[d] \in Chatting
        /\ pc'[d] = "write" => pc[d] = "write"
    <2>1. CASE d # c
      BY <1>0, <2>1, OthersStream
    <2>2. CASE d = c
      BY <1>0, <2>2, QuietSteps DEF Quiet, Loops
    <2> QED  BY <2>1, <2>2
  <1>2. CASE pc[d] \in Chatting
    <2>1. Subscriptions(d)' = Subscriptions(d)
      BY <1>0, <1>2, ListKept
    <2>2. Doubled(d)' = Doubled(d)
      BY <2>1 DEF Doubled
    <2> QED  BY <1>1, <2>1, <2>2 DEF OnceInv
  <1>3. CASE pc[d] \notin Chatting
    <2>1. messages[d] = {} /\ sent[d] = <<>>
      BY <1>3 DEF ChatInv, RoundOrder, OnceInv, Chatting, Loops
    <2>2. DOMAIN sent'[d] = {}
      BY <1>1, <2>1
    <2> QED  BY <1>1, <1>3, <2>1, <2>2 DEF OnceInv
  <1> QED  BY <1>2, <1>3

(* A step of a round leaves the list as it is.                             *)
LEMMA RoundingLists ==
  ASSUME NEW c \in Client, Rounding(c)
  PROVE  Subscriptions(c)' = Subscriptions(c) /\ Doubled(c)' = Doubled(c)
  <1>1. UNCHANGED timelineList
    BY DEF Rounding, Hello, Kill, Recent, Gathering, GatherNext, GatherTest,
           GatherCopy, GatherEnd, GatherDone, WriteNext, WriteDone, lists
  <1>2. Subscriptions(c)' = Subscriptions(c)
    BY <1>1 DEF Subscriptions
  <1> QED  BY <1>2 DEF Doubled

LEMMA OnceBegins ==
  ASSUME ChatInv, NEW c \in Client, Hello(c) \/ Kill(c) \/ Recent(c), OnceInv(c)
  PROVE  OnceInv(c)'
  <1>0. Rounding(c) /\ TypeOK
    BY DEF Rounding, ChatInv
  <1>1. /\ messages'[c] = {} /\ pc'[c] # "write"
        /\ sent'[c] = <<>> \/ (sent'[c] = sent[c] /\ pc'[c] \in Chatting)
    BY <1>0 DEF Hello, Kill, Recent, Goto, TypeOK, ChatInv, RoundOrder, round, stream,
                Chatting, Loops
  <1>2. DOMAIN <<>> = {}
    OBVIOUS
  <1> QED  BY <1>0, <1>1, <1>2, RoundingLists DEF OnceInv

LEMMA OnceCopies ==
  ASSUME ChatInv, Alone, RosterInv, NamedInv, OwnersInv, NEW c \in Client,
         GatherCopy(c), OnceInv(c), GapInv(c)
  PROVE  OnceInv(c)'
  <1>0. Rounding(c) /\ TypeOK /\ ScanInv(c)
    BY DEF Rounding, Gathering, ChatInv, GapInv
  <1>1. sent' = sent /\ pc[c] = "copy" /\ pc'[c] = "scan"
    BY <1>0 DEF GatherCopy, Goto, TypeOK, stream
  <1>2. PICK s \in Scanned(c) :
          s.name # NoName /\ messages'[c] = messages[c] \cup {<<at[c], s>>}
    BY <1>0, CopyTakes
  <1> DEFINE n == Subscriptions(c)[at[c]]
             p == getTimelinePointer(timelineList, n)
  <1>3. at[c] \in DOMAIN Subscriptions(c) /\ source[c] = p
    BY <1>0, <1>1 DEF ScanInv
  <1>4. s.name = n
    <2>1. p \in DOMAIN timelineList /\ s \in timelineList[p].statuses
      BY <1>2, <1>3 DEF Scanned
    <2>2. timelineList[p].name = n
      <3>1. p # NULL
        BY <1>0, <2>1, Domains DEF NULL
      <3> QED  BY <1>0, <3>1, PointerType DEF TypeOK
    <2>3. ~Leaving(p)
      BY <2>1 DEF Leaving, RosterInv, HandInv, EmptyTimeline
    <2> HIDE DEF p, n
    <2> QED  BY <1>2, <2>1, <2>2, <2>3 DEF RosterInv, ListsInStep, OwnersInv, OwnedBy, Whole
  <1>5. \A e \in messages'[c] :
          e[1] \in DOMAIN Subscriptions(c) /\ e[2].name = Subscriptions(c)[e[1]]
    BY <1>2, <1>3, <1>4 DEF OnceInv
  <1> QED  BY <1>0, <1>1, <1>5, RoundingLists DEF OnceInv, Chatting, Loops

(* The other steps of the loop gather nothing.                             *)
LEMMA OnceGathers ==
  ASSUME ChatInv, NEW c \in Client, GatherNext(c) \/ GatherTest(c) \/ GatherEnd(c),
         OnceInv(c)
  PROVE  OnceInv(c)'
  <1>0. Rounding(c) /\ TypeOK
    BY DEF Rounding, Gathering, ChatInv
  <1>1. /\ sent' = sent /\ messages' = messages
        /\ pc[c] \in Chatting /\ pc'[c] \in Chatting /\ pc'[c] # "write"
    BY <1>0 DEF GatherNext, GatherTest, GatherEnd, Goto, TypeOK, stream, Chatting, Loops
  <1> QED  BY <1>0, <1>1, RoundingLists DEF OnceInv

(* All that was gathered is newer than all that was sent.                  *)
LEMMA OnceGathered ==
  ASSUME ChatInv, NEW c \in Client, GatherDone(c), StreamInv(c), OnceInv(c)
  PROVE  OnceInv(c)'
  <1>0. Rounding(c) /\ TypeOK
    BY DEF Rounding, Gathering, ChatInv
  <1>1. /\ sent' = sent /\ messages' = messages
        /\ pc[c] \in Loops \ {"write"} /\ pc'[c] = "write"
    BY <1>0 DEF GatherDone, Goto, TypeOK, stream, Loops
  <1>2. ASSUME NEW e \in messages[c], NEW i \in DOMAIN sent[c], sent[c][i] = e[2]
        PROVE  FALSE
    <2>1. /\ e[2].timestamp > mostRecent[c] /\ e[2].timestamp <= mostRecent[c]
          /\ mostRecent[c] \in Int
      BY <1>0, <1>1, <1>2 DEF ChatInv, RoundOrder, StreamOrder, StreamInv, TypeOK
    <2>2. e[2].timestamp \in Nat
      <3>1. e \in Nat \X Stats
        BY <1>0 DEF TypeOK
      <3> QED  BY <3>1 DEF Stats
    <2> QED  BY <2>1, <2>2
  <1> QED  BY <1>0, <1>1, <1>2, RoundingLists DEF OnceInv, Chatting, Loops

(* What is written and found again in what is left was found under two     *)
(* subscriptions to one name.                                              *)
LEMMA OnceWrites ==
  ASSUME ChatInv, NEW c \in Client, WriteNext(c), StreamInv(c), OnceInv(c)
  PROVE  OnceInv(c)'
  <1>0. Rounding(c) /\ TypeOK
    BY DEF Rounding, ChatInv
  <1> DEFINE len == Len(sent[c])
  <1>1. PICK e \in messages[c] :
         /\ pc[c] = "write" /\ pc'[c] = "write"
         /\ messages'[c] = messages[c] \ {e}
         /\ DOMAIN sent'[c] = 1 .. len + 1
         /\ DOMAIN sent[c] = 1 .. len /\ len \in Nat
         /\ \A i \in 1 .. len : sent'[c][i] = sent[c][i]
         /\ sent'[c][len + 1] = e[2]
    BY WriteAppends
  <1> HIDE DEF len
  <1>2. \A i \in 1 .. len + 1 : i \in 1 .. len \/ i = len + 1
    BY <1>1
  <1>3. \A i \in 1 .. len : sent[c][i] = e[2] => Doubled(c)
    BY <1>1 DEF OnceInv
  <1>4. \A i, j \in DOMAIN sent'[c] : i # j /\ sent'[c][i] = sent'[c][j] => Doubled(c)
    BY <1>1, <1>2, <1>3 DEF OnceInv
  <1>5. ASSUME NEW f \in messages'[c], f[2] = e[2] PROVE Doubled(c)
    <2>1. f \in Nat \X Stats /\ e \in Nat \X Stats /\ f # e /\ f \in messages[c]
      BY <1>0, <1>1, <1>5 DEF TypeOK
    <2>2. f[1] # e[1]
      BY <1>5, <2>1
    <2> QED  BY <1>5, <2>1, <2>2 DEF OnceInv, Doubled
  <1>6. \A f \in messages'[c] : \A i \in DOMAIN sent'[c] : sent'[c][i] = f[2] => Doubled(c)
    BY <1>1, <1>2, <1>5 DEF OnceInv
  <1> QED  BY <1>0, <1>1, <1>4, <1>6, RoundingLists DEF OnceInv, Chatting, Loops

LEMMA OnceStep ==
  ASSUME ChatInv, Alone, RosterInv, NamedInv, OwnersInv, Unshared,
         NEW c \in Client, Handler(c) \/ Calls(c),
         NEW d \in Client, OnceInv(d), StreamInv(d), GapInv(d)
  PROVE  OnceInv(d)'
  <1>1. CASE d = c /\ WriteDone(c)
    <2>1. Rounding(c) /\ TypeOK
      BY <1>1 DEF Rounding, ChatInv
    <2>2. /\ sent' = sent /\ messages'[c] = {} /\ pc[c] = "write" /\ pc'[c] = "read"
      BY <1>1, <2>1 DEF WriteDone, Goto, TypeOK, stream
    <2> QED  BY <1>1, <2>1, <2>2, RoundingLists DEF OnceInv, Chatting, Loops
  <1> QED
    BY <1>1, OnceAside, OnceBegins, OnceGathers, OnceCopies, OnceGathered, OnceWrites
       DEF Rounding, Gathering

(* A post is on a stream once for each time its author is in the client's  *)
(* list, and no later round sends it again: for any number of clients and  *)
(* any K, when handlers do not overlap and names are not shared.           *)
THEOREM SerialNoDuplicate ==
  Serial /\ Unshared /\ LoadedStamps /\ LoadedRoster /\ LoadedOwners
    => (Spec => []NoDuplicate)
  <1> SUFFICES ASSUME Serial, Unshared, LoadedStamps, LoadedRoster, LoadedOwners
               PROVE  Spec => []NoDuplicate
    OBVIOUS
  <1> DEFINE Inv == RoundInv /\ OwnersInv /\ \A c \in Client : OnceInv(c)
  <1>1. Init => Inv
    <2> SUFFICES ASSUME Init PROVE Inv
      OBVIOUS
    <2>1. OwnersInv
      BY DEF Init, OwnersInv, LoadedOwners, NotOwn, Joining
    <2>2. \A c \in Client : OnceInv(c)
      BY DEF Init, OnceInv, Chatting, Loops
    <2> QED  BY <2>1, <2>2, RoundInit
  <1>2. Inv /\ [Next]_vars => Inv'
    <2> SUFFICES ASSUME Inv, [Next]_vars PROVE Inv'
      OBVIOUS
    <2>1. RoundInv' /\ ChatInv /\ TypeOK
      BY RoundNext DEF RoundInv, ChatInv
    <2>2. CASE UNCHANGED vars
      <3> USE <2>2 DEF vars, lists, unary, round, scan, stream
      <3>1. OwnersInv'
        BY DEF OwnersInv, NotOwn
      <3>2. ASSUME NEW c \in Client PROVE OnceInv(c)'
        <4>1. Subscriptions(c)' = Subscriptions(c)
          BY DEF Subscriptions
        <4>2. Doubled(c)' = Doubled(c)
          BY <4>1 DEF Doubled
        <4> QED  BY <4>1, <4>2 DEF OnceInv
      <3> QED  BY <2>1, <3>1, <3>2
    <2>3. CASE Next
      <3>1. PICK c \in Client : Handler(c) \/ Calls(c)
        BY <2>3 DEF Next
      <3>2. OwnersInv'
        BY <2>1, <3>1, OwnersStep DEF RoundInv
      <3>3. \A d \in Client : OnceInv(d)'
        BY <2>1, <3>1, OnceStep DEF RoundInv
      <3> QED  BY <2>1, <3>2, <3>3
    <2> QED  BY <2>2, <2>3
  <1>3. Inv => NoDuplicate
    BY DEF OnceInv, Doubled, NoDuplicate
  <1> HIDE DEF Inv
  <1> QED  BY <1>1, <1>2, <1>3, PTL DEF Spec
=============================================================================
