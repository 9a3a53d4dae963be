-------------------------- MODULE ChatServerProofs --------------------------
(***************************************************************************)
(* Proofs about ChatServer, for every set of clients and names, every K    *)
(* and every bound, with handlers that overlap without restriction.        *)
(***************************************************************************)
EXTENDS ChatServer, SequenceTheorems, TLAPS

-----------------------------------------------------------------------------
(* The operators of ChatData.                                              *)

(* A search returns one of the positions it looks for, or the default.     *)
LEMMA FirstOfType ==
  ASSUME NEW positions, NEW default
  PROVE  FirstOf(positions, default) \in positions \cup {default}
  BY Zenon DEF FirstOf

(* getTimelinePointer returns NULL or the index of a timeline with that    *)
(* name.                                                                   *)
LEMMA PointerType ==
  ASSUME NEW S, NEW timelines \in Seq(S), NEW nameX
  PROVE  /\ getTimelinePointer(timelines, nameX) \in Nat
         /\ getTimelinePointer(timelines, nameX) # NULL =>
              /\ getTimelinePointer(timelines, nameX) \in DOMAIN timelines
              /\ timelines[getTimelinePointer(timelines, nameX)].name = nameX
         /\ OwnIndex(timelines, nameX) \in Nat
  <1> DEFINE P == {i \in DOMAIN timelines : timelines[i].name = nameX}
  <1>1. P \subseteq Nat
    BY LenProperties
  <1>2. /\ getTimelinePointer(timelines, nameX) \in P \cup {NULL}
        /\ OwnIndex(timelines, nameX) \in P \cup {1}
    BY FirstOfType DEF getTimelinePointer, OwnIndex
  <1> QED  BY <1>1, <1>2 DEF NULL

(* LEAVE copies a sequence of names, none of which is new.                 *)
LEMMA CopyType ==
  ASSUME NEW S, NEW subs \in Seq(S), NEW room, subs # <<>>
  PROVE  /\ CopyAllButOne(subs, room) \in Seq(S)
         /\ \A j \in DOMAIN CopyAllButOne(subs, room) :
              \E k \in DOMAIN subs : CopyAllButOne(subs, room)[j] = subs[k]
  <1> DEFINE m == RoomIndex(subs, room)
             s1 == SubSeq(subs, 1, m - 1)
             s2 == SubSeq(subs, m + 1, Len(subs))
             n1 == m - 1
             n2 == Len(subs) - m
  <1>1. Len(subs) \in Nat \ {0} /\ DOMAIN subs = 1 .. Len(subs)
    BY LenProperties, EmptySeq
  <1>2. m \in 1 .. Len(subs)
    <2>1. m \in {i \in DOMAIN subs : subs[i] = room} \cup {1}
      BY FirstOfType DEF RoomIndex
    <2> QED  BY <2>1, <1>1
  <1>3. \A i \in 1 .. Len(subs) : subs[i] \in S
    BY ElementOfSeq
  <1>4. /\ s1 \in Seq(S) /\ Len(s1) = n1
        /\ \A i \in 1 .. n1 : s1[i] = subs[i]
    <2>1. \A i \in 1 .. m - 1 : subs[i] \in S
      BY <1>1, <1>2, <1>3
    <2> QED  BY <1>1, <1>2, <2>1, SubSeqProperties
  <1>5. /\ s2 \in Seq(S) /\ Len(s2) = n2
        /\ \A i \in 1 .. n2 : s2[i] = subs[m + i]
    <2>1. \A i \in m + 1 .. Len(subs) : subs[i] \in S
      BY <1>1, <1>2, <1>3
    <2>2. /\ s2 \in Seq(S)
          /\ Len(s2) = IF m + 1 <= Len(subs) THEN Len(subs) - (m + 1) + 1 ELSE 0
          /\ \A i \in 1 .. Len(subs) - (m + 1) + 1 : s2[i] = subs[(m + 1) + i - 1]
      BY <1>1, <1>2, <2>1, SubSeqProperties
    <2> QED  BY <1>1, <1>2, <2>2
  <1>6. /\ s1 \o s2 \in Seq(S)
        /\ DOMAIN (s1 \o s2) = 1 .. n1 + n2
        /\ \A i \in 1 .. n1 + n2 :
             (s1 \o s2)[i] = IF i <= n1 THEN s1[i] ELSE s2[i - n1]
    <2>1. s1 \in Seq(S) /\ Len(s1) = n1 /\ s2 \in Seq(S) /\ Len(s2) = n2
      BY <1>4, <1>5
    <2> HIDE DEF s1, s2, n1, n2
    <2>2. /\ s1 \o s2 \in Seq(S)
          /\ Len(s1 \o s2) = n1 + n2
          /\ \A i \in 1 .. n1 + n2 :
               (s1 \o s2)[i] = IF i <= n1 THEN s1[i] ELSE s2[i - n1]
      BY <2>1, ConcatProperties
    <2> QED  BY <2>2, LenProperties
  <1> HIDE DEF s1, s2, m
  <1>7. ASSUME NEW j \in 1 .. n1 + n2
        PROVE  \E k \in DOMAIN subs : (s1 \o s2)[j] = subs[k]
    <2>1. CASE j <= n1
      <3>1. j \in 1 .. n1 /\ j \in DOMAIN subs
        BY <2>1, <1>1, <1>2
      <3>2. (s1 \o s2)[j] = subs[j]
        BY <2>1, <3>1, <1>4, <1>6
      <3> QED  BY <3>1, <3>2
    <2>2. CASE ~(j <= n1)
      <3>1. j - n1 \in 1 .. n2 /\ m + (j - n1) \in 1 .. Len(subs)
        BY <2>2, <1>1, <1>2
      <3> QED  BY <3>1, <2>2, <1>1, <1>5, <1>6
    <2> QED  BY <2>1, <2>2
  <1>8. CopyAllButOne(subs, room) = s1 \o s2
    BY DEF CopyAllButOne, s1, s2, m
  <1> QED  BY <1>6, <1>7, <1>8

-----------------------------------------------------------------------------
(* Type correctness.                                                       *)

(* One timeline of the list is replaced.                                   *)
LEMMA ReplaceTimeline ==
  ASSUME NEW timelines \in Seq(Timelines), NEW i \in DOMAIN timelines,
         NEW t \in Timelines
  PROVE  /\ [timelines EXCEPT ![i] = t] \in Seq(Timelines)
         /\ DOMAIN [timelines EXCEPT ![i] = t] = DOMAIN timelines
         /\ \A j \in DOMAIN timelines :
              [timelines EXCEPT ![i] = t][j] = IF j = i THEN t ELSE timelines[j]
  BY ExceptSeq, LenProperties

(* The elements of a typed list, and the timelines the server holds.       *)
LEMMA ElementType ==
  ASSUME NEW S, NEW list \in Seq(S)
  PROVE  \A i \in DOMAIN list : list[i] \in S
  BY ElementOfSeq, LenProperties

LEMMA TimelineType ==
  ASSUME TypeOK
  PROVE  \A i \in DOMAIN timelineList : timelineList[i] \in Timelines
  BY ElementType DEF TypeOK

(* What follows a list does not disturb its elements.                      *)
LEMMA AppendKeeps ==
  ASSUME NEW S, NEW list \in Seq(S), NEW e \in S
  PROVE  \A i \in DOMAIN list :
           i \in DOMAIN Append(list, e) /\ Append(list, e)[i] = list[i]
  BY AppendProperties, LenProperties

(* The calls of a client keep the types.                                   *)
LEMMA CallsType ==
  ASSUME TypeOK, NEW c \in Client, Calls(c)
  PROVE  TypeOK'
  <1> USE DEF TypeOK, Goto, Call, Stage, Waiting, lists, unary, pointer, round, scan,
              stream
  <1>CallUser. CASE CallUser(c)
    BY <1>CallUser DEF CallUser
  <1>CallJoin. CASE CallJoin(c)
    <2>1. target' \in [Client -> Name]
      BY <1>CallJoin DEF CallJoin
    <2>2. pc' \in [Client -> Stage] /\ up' \in BOOLEAN
      BY <1>CallJoin DEF CallJoin
    <2> QED  BY <1>CallJoin, <2>1, <2>2 DEF CallJoin
  <1>CallLeave. CASE CallLeave(c)
    <2>1. target' \in [Client -> Name]
      BY <1>CallLeave DEF CallLeave
    <2>2. pc' \in [Client -> Stage] /\ up' \in BOOLEAN
      BY <1>CallLeave DEF CallLeave
    <2> QED  BY <1>CallLeave, <2>1, <2>2 DEF CallLeave
  <1>CallList. CASE CallList(c)
    BY <1>CallList DEF CallList
  <1>CallChat. CASE CallChat(c)
    BY <1>CallChat DEF CallChat
  <1>CallMessage. CASE CallMessage(c)
    <2>1. taken' \in [Client -> Nat]
      BY <1>CallMessage DEF CallMessage
    <2>2. pc' \in [Client -> Stage] /\ up' \in BOOLEAN
      BY <1>CallMessage DEF CallMessage
    <2> QED  BY <1>CallMessage, <2>1, <2>2 DEF CallMessage
  <1>Kill. CASE Kill(c)
    <2>1. <<>> \in Seq(Stats) /\ -1 \in Int
      OBVIOUS
    <2>2. sent' \in [Client -> Seq(Stats)] /\ mostRecent' \in [Client -> Int]
      BY <1>Kill, <2>1 DEF Kill
    <2>3. pc' \in [Client -> Stage] /\ up' \in BOOLEAN
      BY <1>Kill DEF Kill
    <2>4. UNCHANGED <<lists, serverCounter, unary, pointer, reg, round, taken,
                      posted>>
      BY <1>Kill DEF Kill
    <2> QED  BY <2>2, <2>3, <2>4
  <1> QED
    BY <1>CallUser, <1>CallJoin, <1>CallLeave, <1>CallList, <1>CallChat, <1>CallMessage, <1>Kill DEF Calls

(* Registering a user keeps the types.                                     *)
LEMMA UserType ==
  ASSUME TypeOK, NEW c \in Client, User(c)
  PROVE  TypeOK'
  <1> USE DEF TypeOK, Goto, Stage, Waiting, lists, unary, pointer, round, scan, stream
  <1>0. NameOf[c] \in Name
    BY ServerAssumption
  <1>1. CASE CheckUser(c)
    BY <1>1 DEF CheckUser
  <1>2. CASE PushUser(c)
    <2>1. Append(userList, NameOf[c]) \in Seq(Name \cup {NoName})
      BY <1>0, AppendProperties
    <2> QED  BY <1>2, <2>1 DEF PushUser
  <1>3. CASE PushTimeline(c)
    <2>1. EmptyTimeline(NameOf[c]) \in Timelines
      BY <1>0 DEF EmptyTimeline, Timelines
    <2>2. Append(timelineList, EmptyTimeline(NameOf[c])) \in Seq(Timelines)
      BY <2>1, AppendProperties
    <2> QED  BY <1>3, <2>2 DEF PushTimeline
  <1> QED  BY <1>1, <1>2, <1>3 DEF User

(* The locals of a JOIN or LEAVE handler have their types when it replies. *)
LEMMA ReplyType ==
  ASSUME TypeOK, NEW c \in Client, NEW from, Reply(c, from)
  PROVE  /\ pc' \in [Client -> Stage] /\ up' \in BOOLEAN
         /\ target' \in [Client -> Name] /\ copy' \in [Client -> Seq(Name \cup {NoName})]
         /\ slot' \in [Client -> Nat] /\ storage' \in [Client -> Nat]
         /\ hold' \in [Client -> Nat]
  <1>1. NameOf[c] \in Name /\ <<>> \in Seq(Name \cup {NoName})
    BY ServerAssumption
  <1> QED  BY <1>1 DEF TypeOK, Reply, Goto, Stage, Waiting, DropPointer, NULL

(* The first step of JOIN and LEAVE keeps the types.                       *)
LEMMA FindOwnType ==
  ASSUME TypeOK, NEW c \in Client,
         JoinFind(c) \/ LeaveFind(c)
  PROVE  TypeOK'
  <1> DEFINE Rest == UNCHANGED <<lists, serverCounter, reg, round, stream, posted>>
  <1>1. Rest
    BY DEF JoinFind, LeaveFind, FindOwn
  <1>2. CASE \E from \in {"joinFind", "leaveFind"} : Reply(c, from)
    BY <1>1, <1>2, ReplyType DEF TypeOK, lists, round, scan, stream
  <1>3. CASE /\ \E from, to \in Stage : Goto(c, from, to)
             /\ slot' = [slot EXCEPT ![c] = OwnIndex(timelineList, NameOf[c])]
             /\ UNCHANGED <<storage, unary>>
    <2>1. OwnIndex(timelineList, NameOf[c]) \in Nat
      BY PointerType DEF TypeOK
    <2> QED  BY <1>1, <1>3, <2>1 DEF TypeOK, Goto, lists, unary, round, scan, stream
  <1> QED  BY <1>2, <1>3 DEF JoinFind, LeaveFind, FindOwn, Stage

(* add_subscribed() puts an empty name at the end of one list.             *)
LEMMA JoinAddEffect ==
  ASSUME TypeOK, NEW c \in Client, JoinAdd(c)
  PROVE  /\ timelineList' \in Seq(Timelines)
         /\ DOMAIN timelineList' = DOMAIN timelineList
         /\ \A i \in DOMAIN timelineList :
              /\ timelineList'[i].name = timelineList[i].name
              /\ timelineList'[i].statuses = timelineList[i].statuses
              /\ timelineList'[i].subscribed \in
                   {timelineList[i].subscribed,
                    Append(timelineList[i].subscribed, NoName)}
  <1> DEFINE t == timelineList[slot[c]]
             u == [t EXCEPT !.subscribed = Append(@, NoName)]
  <1>1. slot[c] \in DOMAIN timelineList /\ timelineList \in Seq(Timelines)
    BY DEF TypeOK, JoinAdd
  <1>2. t \in Timelines
    BY <1>1, TimelineType
  <1>3. Append(t.subscribed, NoName) \in Seq(Name \cup {NoName})
    BY <1>2, AppendProperties DEF Timelines
  <1>4. /\ u \in Timelines /\ u.name = t.name /\ u.statuses = t.statuses
        /\ u.subscribed = Append(t.subscribed, NoName)
    BY <1>2, <1>3 DEF Timelines
  <1>5. \/ timelineList' = [timelineList EXCEPT ![slot[c]] = u]
        \/ timelineList' = timelineList
    BY <1>1 DEF JoinAdd
  <1> HIDE DEF u
  <1>6. CASE timelineList' = [timelineList EXCEPT ![slot[c]] = u]
    <2>1. /\ timelineList' \in Seq(Timelines)
          /\ DOMAIN timelineList' = DOMAIN timelineList
          /\ \A j \in DOMAIN timelineList :
               timelineList'[j] = IF j = slot[c] THEN u ELSE timelineList[j]
      BY <1>1, <1>4, <1>6, ReplaceTimeline
    <2> QED  BY <2>1, <1>4
  <1> QED  BY <1>1, <1>5, <1>6

(* The assignment puts the name that the caller joins at one position of   *)
(* one list, or nowhere.                                                   *)
LEMMA JoinAssignEffect ==
  ASSUME TypeOK, NEW c \in Client, JoinAssign(c)
  PROVE  /\ timelineList' \in Seq(Timelines)
         /\ DOMAIN timelineList' = DOMAIN timelineList
         /\ \A i \in DOMAIN timelineList :
              /\ timelineList'[i].name = timelineList[i].name
              /\ timelineList'[i].statuses = timelineList[i].statuses
              /\ DOMAIN timelineList'[i].subscribed = DOMAIN timelineList[i].subscribed
              /\ \A j \in DOMAIN timelineList[i].subscribed :
                   timelineList'[i].subscribed[j] \in
                     {timelineList[i].subscribed[j], target[c]}
  <1>1. CASE UNCHANGED timelineList
    BY <1>1 DEF TypeOK
  <1>2. CASE /\ slot[c] \in DOMAIN timelineList
             /\ hold[c] \in DOMAIN timelineList[slot[c]].subscribed
             /\ timelineList' =
                  [timelineList EXCEPT ![slot[c]].subscribed[hold[c]] = target[c]]
    <2> DEFINE t == timelineList[slot[c]]
               l == [t.subscribed EXCEPT ![hold[c]] = target[c]]
               u == [t EXCEPT !.subscribed = l]
    <2>1. timelineList \in Seq(Timelines) /\ t \in Timelines
      BY <1>2, TimelineType DEF TypeOK
    <2>2. t.subscribed \in Seq(Name \cup {NoName}) /\ target[c] \in Name \cup {NoName}
      BY <2>1 DEF TypeOK, Timelines
    <2>3. /\ l \in Seq(Name \cup {NoName}) /\ DOMAIN l = DOMAIN t.subscribed
          /\ \A j \in DOMAIN t.subscribed : l[j] \in {t.subscribed[j], target[c]}
      BY <1>2, <2>2, ExceptSeq, LenProperties
    <2>4. timelineList' = [timelineList EXCEPT ![slot[c]] = u]
      BY <1>2, <2>1 DEF Timelines
    <2> HIDE DEF l
    <2>5. u \in Timelines /\ u.name = t.name /\ u.statuses = t.statuses /\ u.subscribed = l
      BY <2>1, <2>3 DEF Timelines
    <2> HIDE DEF u
    <2>6. /\ timelineList' \in Seq(Timelines)
          /\ DOMAIN timelineList' = DOMAIN timelineList
          /\ \A j \in DOMAIN timelineList :
               timelineList'[j] = IF j = slot[c] THEN u ELSE timelineList[j]
      <3>1. /\ slot[c] \in DOMAIN timelineList /\ timelineList \in Seq(Timelines)
            /\ u \in Timelines
        BY <1>2, <2>1, <2>5
      <3> QED  BY <3>1, <2>4, ReplaceTimeline
    <2> QED  BY <2>3, <2>5, <2>6
  <1> QED  BY <1>1, <1>2 DEF JoinAssign

(* The test, the addition and the assignment of JOIN keep the types.       *)
LEMMA JoinType ==
  ASSUME TypeOK, NEW c \in Client, JoinTest(c) \/ JoinAdd(c) \/ JoinAssign(c)
  PROVE  TypeOK'
  <1>1. CASE JoinTest(c)
    <2>1. CASE Reply(c, "joinTest")
      BY <1>1, <2>1, ReplyType DEF TypeOK, JoinTest, lists, round, scan, stream
    <2>2. CASE ~Reply(c, "joinTest")
      BY <1>1, <2>2 DEF TypeOK, JoinTest, Goto, Stage, Waiting, lists, unary,
                        pointer, round, scan, stream
    <2> QED  BY <2>1, <2>2
  <1>2. CASE JoinAdd(c)
    <2>1. timelineList' \in Seq(Timelines)
      BY <1>2, JoinAddEffect
    <2>2. /\ Len(timelineList) \in Nat
          /\ Len(timelineList[slot[c]].subscribed) + 1 \in Nat
      <3>1. slot[c] \in DOMAIN timelineList
        BY <1>2 DEF JoinAdd
      <3>2. timelineList[slot[c]].subscribed \in Seq(Name \cup {NoName})
        BY <3>1, TimelineType DEF Timelines
      <3> QED  BY <3>2, LenProperties DEF TypeOK
    <2>3. hold' \in [Client -> Nat] /\ storage' \in [Client -> Nat]
      BY <1>2, <2>2 DEF TypeOK, JoinAdd
    <2> QED
      BY <1>2, <2>1, <2>3 DEF TypeOK, JoinAdd, Goto, Stage, Waiting, round, scan,
                              stream
  <1>3. CASE JoinAssign(c)
    <2>1. timelineList' \in Seq(Timelines)
      BY <1>3, JoinAssignEffect
    <2> QED
      BY <1>3, <2>1, ReplyType DEF TypeOK, JoinAssign, round, scan, stream
  <1> QED  BY <1>1, <1>2, <1>3

(* Copying, clearing and merging a timeline keeps the types.               *)
LEMMA LeaveType ==
  ASSUME TypeOK, NEW c \in Client,
         LeaveNobody(c) \/ LeaveCopy(c) \/ LeaveClear(c) \/ LeaveMerge(c)
  PROVE  TypeOK'
  <1> DEFINE t == timelineList[slot[c]]
  <1>0. slot[c] \in DOMAIN timelineList
    BY DEF LeaveNobody, LeaveCopy, LeaveClear, LeaveMerge
  <1>1. t \in Timelines
    BY <1>0, ElementOfSeq, LenProperties DEF TypeOK
  <1>2. CASE LeaveNobody(c)
    BY <1>2, ReplyType DEF TypeOK, LeaveNobody, lists, round, scan, stream
  <1>3. CASE LeaveCopy(c)
    <2>1. CopyAllButOne(t.subscribed, target[c]) \in Seq(Name \cup {NoName})
      BY <1>1, <1>3, CopyType DEF Timelines, LeaveCopy
    <2> QED
      BY <1>3, <2>1 DEF TypeOK, LeaveCopy, Goto, Stage, Waiting, lists, pointer,
                        round, scan, stream
  <1>4. CASE LeaveClear(c)
    <2>1. EmptyTimeline(NoName) \in Timelines
      BY DEF EmptyTimeline, Timelines
    <2>2. timelineList' \in Seq(Timelines)
      BY <1>0, <1>4, <2>1, ReplaceTimeline DEF TypeOK, LeaveClear
    <2> QED
      BY <1>4, <2>2 DEF TypeOK, LeaveClear, Goto, Stage, Waiting, unary, pointer,
                        round, scan, stream
  <1>5. CASE LeaveMerge(c)
    <2> DEFINE u == [t EXCEPT !.name = NameOf[c], !.subscribed = @ \o copy[c]]
    <2>1. t.subscribed \o copy[c] \in Seq(Name \cup {NoName})
      BY <1>1, ConcatProperties DEF TypeOK, Timelines
    <2>2. u \in Timelines
      BY <1>1, <2>1, ServerAssumption DEF Timelines
    <2>3. timelineList' = [timelineList EXCEPT ![slot[c]] = u]
      BY <1>0, <1>1, <1>5 DEF LeaveMerge, TypeOK, Timelines
    <2>4. timelineList' \in Seq(Timelines)
      BY <1>0, <2>2, <2>3, ReplaceTimeline DEF TypeOK
    <2> QED  BY <1>5, <2>4, ReplyType DEF TypeOK, LeaveMerge, round, scan, stream
  <1> QED  BY <1>2, <1>3, <1>4, <1>5

(* The steps of chat that take or drop a pointer, and stamp, keep them.    *)
LEMMA StampType ==
  ASSUME TypeOK, NEW c \in Client,
         Hello(c) \/ FindMailbox(c) \/ stamp(c) \/ Recent(c)
  PROVE  TypeOK'
  <1> USE DEF TypeOK, Goto, Stage, Waiting, lists, unary, pointer, round, scan, stream
  <1>1. /\ getTimelinePointer(timelineList, NameOf[c]) \in Nat
        /\ Len(timelineList) \in Nat
        /\ <<>> \in Seq(Stats)
    BY PointerType, LenProperties
  <1>2. CASE Hello(c)
    <2>1. /\ mostRecent' \in [Client -> Int] /\ sent' \in [Client -> Seq(Stats)]
          /\ slot' \in [Client -> Nat] /\ storage' \in [Client -> Nat]
      BY <1>1, <1>2 DEF Hello, TakePointer
    <2>2. pc' \in [Client -> Stage]
      BY <1>2 DEF Hello
    <2> QED  BY <1>2, <2>1, <2>2 DEF Hello
  <1>3. CASE FindMailbox(c)
    BY <1>1, <1>3 DEF FindMailbox, TakePointer
  <1>4. CASE stamp(c)
    <2>1. CASE StampLoad(c)
      BY <2>1 DEF StampLoad
    <2>2. CASE StampStore(c)
      <3>1. serverCounter' \in Nat
        BY <2>2 DEF StampStore
      <3> QED  BY <2>2, <3>1 DEF StampStore
    <2>3. CASE StampReturn(c)
      BY <2>3 DEF StampReturn
    <2> QED  BY <1>4, <2>1, <2>2, <2>3 DEF stamp
  <1>5. CASE Recent(c)
    BY <1>1, <1>5 DEF Recent, TakePointer
  <1> QED  BY <1>2, <1>3, <1>4, <1>5

(* What add_statuses() makes of the lists: one status more, without a name.*)
LEMMA PublishEffect ==
  ASSUME TypeOK, NEW c \in Client, Publish(c)
  PROVE  /\ timelineList' \in Seq(Timelines)
         /\ DOMAIN timelineList' = DOMAIN timelineList
         /\ \A i \in DOMAIN timelineList :
              /\ timelineList'[i].name = timelineList[i].name
              /\ timelineList'[i].subscribed = timelineList[i].subscribed
              /\ Whole(timelineList'[i].statuses) = Whole(timelineList[i].statuses)
  <1> DEFINE t == timelineList[slot[c]]
             u == [t EXCEPT !.statuses = @ \cup {Blank(c)}]
  <1>1. Blank(c) \in Statuses /\ Blank(c).name = NoName
    BY DEF TypeOK, Blank, Stats, Statuses
  <1>2. CASE /\ slot[c] \in DOMAIN timelineList
             /\ timelineList' = [timelineList EXCEPT
                                   ![slot[c]].statuses = @ \cup {Blank(c)}]
    <2>1. t \in Timelines /\ timelineList \in Seq(Timelines)
      BY <1>2, TimelineType DEF TypeOK
    <2>2. /\ u \in Timelines /\ u.name = t.name /\ u.subscribed = t.subscribed
          /\ u.statuses = t.statuses \cup {Blank(c)}
      BY <1>1, <2>1 DEF Timelines
    <2>3. timelineList' = [timelineList EXCEPT ![slot[c]] = u]
      BY <1>2
    <2>4. Whole(u.statuses) = Whole(t.statuses)
      BY <1>1, <2>2 DEF Whole
    <2> HIDE DEF u
    <2>5. /\ timelineList' \in Seq(Timelines)
          /\ DOMAIN timelineList' = DOMAIN timelineList
          /\ \A j \in DOMAIN timelineList :
               timelineList'[j] = IF j = slot[c] THEN u ELSE timelineList[j]
      <3>1. /\ slot[c] \in DOMAIN timelineList /\ timelineList \in Seq(Timelines)
            /\ u \in Timelines
        BY <1>2, <2>1, <2>2
      <3> QED  BY <3>1, <2>3, ReplaceTimeline
    <2> QED  BY <2>2, <2>4, <2>5
  <1>3. CASE UNCHANGED timelineList
    BY <1>3 DEF TypeOK
  <1> QED  BY <1>2, <1>3 DEF Publish

(* What the assignment makes of the lists and the history.                 *)
LEMMA AssignEffect ==
  ASSUME TypeOK, NEW c \in Client, Assign(c)
  PROVE  /\ Recved(c) \in Stats /\ Recved(c).name # NoName
         /\ posted' = posted \cup {Recved(c)}
         /\ timelineList' \in Seq(Timelines)
         /\ DOMAIN timelineList' = DOMAIN timelineList
         /\ \A i \in DOMAIN timelineList :
              /\ timelineList'[i].name = timelineList[i].name
              /\ timelineList'[i].subscribed = timelineList[i].subscribed
              /\ timelineList'[i].statuses
                   \subseteq timelineList[i].statuses \cup {Recved(c)}
  <1> DEFINE t == timelineList[slot[c]]
  <1>1. Recved(c) \in Statuses /\ Recved(c).name # NoName /\ Recved(c) \in Stats
    <2>1. /\ NameOf[c] \in Name /\ NoName \notin Name
          /\ <<c, taken[c]>> \in Client \X Nat /\ reg[c] \in Nat
      BY ServerAssumption DEF TypeOK
    <2> QED  BY <2>1 DEF Recved, Stats, Statuses
  <1>2. ASSUME slot[c] \in DOMAIN timelineList, NEW s \in Temp(c),
               timelineList' = [timelineList EXCEPT
                                  ![slot[c]].statuses = (@ \ {s}) \cup {Recved(c)}]
        PROVE  /\ timelineList' \in Seq(Timelines)
               /\ DOMAIN timelineList' = DOMAIN timelineList
               /\ \A i \in DOMAIN timelineList :
                    /\ timelineList'[i].name = timelineList[i].name
                    /\ timelineList'[i].subscribed = timelineList[i].subscribed
                    /\ timelineList'[i].statuses
                         \subseteq timelineList[i].statuses \cup {Recved(c)}
    <2> DEFINE u == [t EXCEPT !.statuses = (@ \ {s}) \cup {Recved(c)}]
    <2>1. t \in Timelines /\ timelineList \in Seq(Timelines)
      BY <1>2, TimelineType DEF TypeOK
    <2>2. /\ u \in Timelines /\ u.name = t.name /\ u.subscribed = t.subscribed
          /\ u.statuses \subseteq t.statuses \cup {Recved(c)}
      BY <1>1, <2>1 DEF Timelines
    <2>3. timelineList' = [timelineList EXCEPT ![slot[c]] = u]
      BY <1>2
    <2> HIDE DEF u
    <2>4. /\ timelineList' \in Seq(Timelines)
          /\ DOMAIN timelineList' = DOMAIN timelineList
          /\ \A j \in DOMAIN timelineList :
               timelineList'[j] = IF j = slot[c] THEN u ELSE timelineList[j]
      <3>1. /\ slot[c] \in DOMAIN timelineList /\ timelineList \in Seq(Timelines)
            /\ u \in Timelines
        BY <1>2, <2>1, <2>2
      <3> QED  BY <3>1, <2>3, ReplaceTimeline
    <2> QED  BY <2>2, <2>4
  <1>3. CASE UNCHANGED timelineList
    BY <1>1, <1>3 DEF TypeOK, Assign
  <1>4. posted' = posted \cup {Recved(c)}
    BY DEF Assign
  <1> QED  BY <1>1, <1>2, <1>3, <1>4 DEF Assign

(* Adding a status and assigning to it keep the types.                     *)
LEMMA PublishType ==
  ASSUME TypeOK, NEW c \in Client, Publish(c) \/ Assign(c)
  PROVE  TypeOK'
  <1>1. CASE Publish(c)
    BY <1>1, PublishEffect DEF TypeOK, Publish, Goto, Stage, Waiting, unary,
                               pointer, round, scan, stream
  <1>2. CASE Assign(c)
    <2>1. posted' \in SUBSET Stats /\ Whole(posted') = posted'
      BY <1>2, AssignEffect DEF TypeOK, Whole
    <2> QED
      BY <1>2, <2>1, AssignEffect DEF TypeOK, Assign, Goto, Stage, Waiting,
            DropPointer, NULL, unary, round, scan, stream
  <1> QED  BY <1>1, <1>2

(* The statuses that the loop over j is in are those of a timeline.        *)
LEMMA ScannedType ==
  ASSUME TypeOK, NEW c \in Client
  PROVE  /\ Scanned(c) \subseteq Statuses
         /\ \A s \in Scanned(c) :
              \E i \in DOMAIN timelineList : s \in timelineList[i].statuses
  BY TimelineType DEF Scanned, Timelines

(* What the test lets through: one status, newer than                      *)
(* mostRecentMessageSent, or none.                                         *)
LEMMA TestEffect ==
  ASSUME TypeOK, NEW c \in Client, GatherTest(c)
  PROVE  /\ tested' \in [Client -> SUBSET Statuses]
         /\ seen' \in [Client -> SUBSET Statuses]
         /\ \A d \in Client \ {c} : tested'[d] = tested[d] /\ pc'[d] = pc[d]
         /\ tested'[c] \subseteq Scanned(c)
         /\ \A t \in tested'[c] : t.timestamp > mostRecent[c]
         /\ pc[c] = "scan" /\ pc'[c] \in {"scan", "copy"}
         /\ pc'[c] # "copy" => tested'[c] = {}
  <1>1. PICK s \in Scanned(c) :
          /\ Goto(c, "scan", IF Newer({s}, mostRecent[c]) = {} THEN "scan" ELSE "copy")
          /\ seen' = [seen EXCEPT ![c] = @ \cup {s}]
          /\ tested' = [tested EXCEPT ![c] = Newer({s}, mostRecent[c])]
    BY DEF GatherTest
  <1>2. s \in Statuses
    BY ScannedType
  <1>3. Newer({s}, mostRecent[c]) \subseteq {s}
        /\ \A t \in Newer({s}, mostRecent[c]) : t.timestamp > mostRecent[c]
    BY DEF Newer
  <1> QED  BY <1>1, <1>2, <1>3 DEF TypeOK, Goto

(* What the copy adds to the messages: something without a name, or a      *)
(* status of a timeline, newer than mostRecentMessageSent.                 *)
LEMMA CopyEffect ==
  ASSUME TypeOK, NEW c \in Client, GatherCopy(c)
  PROVE  /\ messages' \in [Client -> SUBSET (Nat \X Stats)]
         /\ \A d \in Client \ {c} : messages'[d] = messages[d]
         /\ \A e \in messages'[c] :
              \/ e \in messages[c]
              \/ e[2].name = NoName
              \/ /\ (\A t \in tested[c] : t.timestamp > mostRecent[c])
                       => e[2].timestamp > mostRecent[c]
                 /\ \E i \in DOMAIN timelineList : e[2] \in timelineList[i].statuses
  <1> DEFINE New == \A t \in tested[c] : t.timestamp > mostRecent[c]
  <1>0. PICK t \in tested[c] : \E s \in Copies(c, t) :
          messages' = [messages EXCEPT ![c] = @ \cup {<<at[c], s>>}]
    BY DEF GatherCopy
  <1>1. PICK s \in Copies(c, t) :
          messages' = [messages EXCEPT ![c] = @ \cup {<<at[c], s>>}]
    BY <1>0
  <1>2. /\ t \in Statuses /\ t.timestamp \in Nat /\ (New => t.timestamp > mostRecent[c])
        /\ mostRecent[c] \in Int /\ at[c] \in Nat
        /\ messages \in [Client -> SUBSET (Nat \X Stats)]
    BY DEF TypeOK, Statuses, Stats
  <1>3. /\ s \in Stats
        /\ \/ s.name = NoName
           \/ s \in Scanned(c) /\ (New => s.timestamp > mostRecent[c])
    <2>1. CASE s \in Scanned(c) /\ Became(t, s)
      <3>1. s \in Statuses
        BY <2>1, ScannedType
      <3>2. s.timestamp \in Nat /\ s \in Stats
        BY <3>1 DEF Statuses, Stats
      <3>3. CASE s = t
        BY <1>2, <2>1, <3>2, <3>3
      <3>4. CASE t.name = NoName
        <4>1. t.timestamp = 0
          BY <1>2, <3>4 DEF Statuses
        <4> QED  BY <1>2, <2>1, <3>2, <4>1
      <3> QED  BY <2>1, <3>3, <3>4 DEF Became
    <2>2. CASE ~(s \in Scanned(c) /\ Became(t, s))
      <3>1. PICK n \in {0, t.timestamp} \cup {r.timestamp : r \in Scanned(c)} :
              s = [t EXCEPT !.name = NoName, !.timestamp = n]
        BY <2>2 DEF Copies
      <3>2. n \in Nat
        BY <1>2, ScannedType DEF Statuses, Stats
      <3>3. t \in Stats
        BY <1>2 DEF Statuses
      <3> QED  BY <3>1, <3>2, <3>3 DEF Stats
    <2> QED  BY <2>1, <2>2
  <1>4. <<at[c], s>> \in Nat \X Stats /\ <<at[c], s>>[2] = s
    BY <1>2, <1>3
  <1>5. s \in Scanned(c) =>
          \E i \in DOMAIN timelineList : s \in timelineList[i].statuses
    BY ScannedType
  <1>6. /\ messages'[c] = messages[c] \cup {<<at[c], s>>}
        /\ \A d \in Client \ {c} : messages'[d] = messages[d]
    BY <1>1, <1>2
  <1>7. messages' \in [Client -> SUBSET (Nat \X Stats)]
    BY <1>1, <1>2, <1>4
  <1> QED  BY <1>3, <1>4, <1>5, <1>6, <1>7

(* The steps of the gather loops.                                          *)
Gathering(c) ==
  GatherNext(c) \/ GatherTest(c) \/ GatherCopy(c) \/ GatherEnd(c) \/ GatherDone(c)

(* The loops over i and j keep the types.                                  *)
LEMMA GatherType ==
  ASSUME TypeOK, NEW c \in Client, Gathering(c)
  PROVE  TypeOK'
  <1>1. /\ UNCHANGED <<lists, serverCounter, unary, reg, wrote, stream, posted>>
        /\ pc' \in [Client -> Stage] /\ up' \in BOOLEAN
    BY DEF TypeOK, Gathering, GatherNext, GatherTest, GatherCopy, GatherEnd,
           GatherDone, Goto, Stage, Waiting
  <1>2. slot' \in [Client -> Nat] /\ storage' \in [Client -> Nat]
    <2>1. CASE GatherDone(c)
      BY <2>1 DEF TypeOK, GatherDone, DropPointer, NULL
    <2>2. CASE ~GatherDone(c)
      BY <2>2 DEF TypeOK, Gathering, GatherNext, GatherTest, GatherCopy, GatherEnd,
                  pointer
    <2> QED  BY <2>1, <2>2
  <1>3. at' \in [Client -> Nat \ {0}]
    <2>1. CASE GatherEnd(c)
      <3>1. at \in [Client -> Nat \ {0}] /\ at' = [at EXCEPT ![c] = @ + 1]
        BY <2>1 DEF TypeOK, GatherEnd
      <3> QED  BY <3>1
    <2> QED  BY <2>1 DEF TypeOK, Gathering, GatherNext, GatherTest, GatherCopy, GatherDone
  <1>4. source' \in [Client -> Nat]
    <2>1. GatherIndex(c) \in Nat
      BY PointerType DEF TypeOK, GatherIndex, NULL
    <2>2. source' = source \/ \E i \in Nat : source' = [source EXCEPT ![c] = i]
      BY <2>1 DEF Gathering, GatherNext, GatherTest, GatherCopy, GatherEnd,
                  GatherDone, NULL
    <2> QED  BY <2>2 DEF TypeOK
  <1>5. seen' \in [Client -> SUBSET Statuses] /\ tested' \in [Client -> SUBSET Statuses]
    BY TestEffect DEF TypeOK, Gathering, GatherNext, GatherCopy, GatherEnd, GatherDone
  <1>6. messages' \in [Client -> SUBSET (Nat \X Stats)]
    BY CopyEffect DEF TypeOK, Gathering, GatherNext, GatherTest,
                      GatherEnd, GatherDone
  <1> QED
    BY <1>1, <1>2, <1>3, <1>4, <1>5, <1>6 DEF TypeOK, lists, unary, stream

(* What one iteration writes.                                              *)
LEMMA WriteEffect ==
  ASSUME TypeOK, NEW c \in Client, WriteNext(c)
  PROVE  \E e \in messages[c] :
           /\ e[2] \in Stats
           /\ \A f \in messages[c] : e[2].timestamp <= f[2].timestamp
           /\ messages' = [messages EXCEPT ![c] = @ \ {e}]
           /\ sent' = [sent EXCEPT ![c] = Append(@, e[2])]
           /\ mostRecent' = [mostRecent EXCEPT
                ![c] = IF e[2].timestamp > @ THEN e[2].timestamp ELSE @]
  <1>1. messages[c] \subseteq Nat \X Stats
    BY DEF TypeOK
  <1>2. \A e \in messages[c] : e[2] \in Stats
    BY <1>1
  <1> QED  BY <1>2 DEF WriteNext, Oldest

(* An iteration of the write loop and its end keep the types.              *)
LEMMA WriteType ==
  ASSUME TypeOK, NEW c \in Client, WriteNext(c) \/ WriteDone(c)
  PROVE  TypeOK'
  <1> USE DEF TypeOK, Goto, Stage, Waiting, lists, unary, pointer, round, scan, stream
  <1>1. CASE WriteNext(c)
    <2>1. PICK e \in messages[c] :
           /\ e[2] \in Stats
           /\ messages' = [messages EXCEPT ![c] = @ \ {e}]
           /\ sent' = [sent EXCEPT ![c] = Append(@, e[2])]
           /\ mostRecent' = [mostRecent EXCEPT
                ![c] = IF e[2].timestamp > @ THEN e[2].timestamp ELSE @]
      BY <1>1, WriteEffect
    <2>2. Append(sent[c], e[2]) \in Seq(Stats)
      BY <2>1, AppendProperties
    <2>3. sent' \in [Client -> Seq(Stats)]
      BY <2>1, <2>2
    <2>4. mostRecent' \in [Client -> Int]
      <3>1. e[2].timestamp \in Int
        <4> HIDE DEF TypeOK, Goto, Stage, Waiting
        <4> QED  BY <2>1 DEF Stats
      <3>2. mostRecent[c] \in Int /\ mostRecent \in [Client -> Int]
        OBVIOUS
      <3> HIDE DEF TypeOK, Goto, Stage, Waiting
      <3> QED  BY <2>1, <3>1, <3>2
    <2>6. messages' \in [Client -> SUBSET (Nat \X Stats)]
      BY <2>1
    <2>7. pc' \in [Client -> Stage]
      BY <1>1 DEF WriteNext
    <2>5. wrote' \in [Client -> 0..K]
      <3>1. K \in Nat /\ wrote[c] \in 0..K /\ wrote[c] < K
        BY <1>1, ServerAssumption DEF WriteNext
      <3>2. wrote[c] + 1 \in 0..K
        <4> HIDE DEF TypeOK, Goto, Stage, Waiting
        <4> QED  BY <3>1
      <3>3. wrote \in [Client -> 0..K] /\ wrote' = [wrote EXCEPT ![c] = @ + 1]
        BY <1>1 DEF WriteNext
      <3> HIDE DEF TypeOK, Goto, Stage, Waiting
      <3> QED  BY <3>2, <3>3
    <2> QED  BY <1>1, <2>3, <2>4, <2>5, <2>6, <2>7 DEF WriteNext
  <1>2. CASE WriteDone(c)
    <2>1. 0 \in 0..K
      BY ServerAssumption
    <2>2. /\ pc' \in [Client -> Stage] /\ wrote' \in [Client -> 0..K]
          /\ at' \in [Client -> Nat \ {0}]
          /\ messages' \in [Client -> SUBSET (Nat \X Stats)]
      BY <1>2, <2>1 DEF WriteDone
    <2> QED  BY <1>2, <2>2 DEF WriteDone
  <1> QED  BY <1>1, <1>2

(* LIST, the end of a chat and the death of the process keep the types.    *)
LEMMA OtherType ==
  ASSUME TypeOK, NEW c \in Client, List(c) \/ EndChat(c) \/ Crash(c)
  PROVE  TypeOK'
  BY DEF TypeOK, List, EndChat, Crash, Goto, Stage, Waiting, lists, unary,
         pointer, round, scan, stream

(* What TimelinesFromDisk leaves in the variables has the types.           *)
LEMMA TypeInit == Init => TypeOK
  <1> SUFFICES ASSUME Init PROVE TypeOK
    OBVIOUS
  <1>1. /\ Loaded.timelines \in Seq(Timelines) /\ Loaded.counter \in Nat
        /\ \A i \in DOMAIN Loaded.timelines : Loaded.timelines[i].name \in Name
    BY ServerAssumption
  <1>2. userList \in Seq(Name \cup {NoName})
    <2>1. DOMAIN Loaded.timelines = 1 .. Len(Loaded.timelines)
          /\ Len(Loaded.timelines) \in Nat
      BY <1>1, LenProperties
    <2>2. userList \in [1 .. Len(Loaded.timelines) -> Name \cup {NoName}]
      BY <1>1, <2>1 DEF Init
    <2> QED  BY <2>1, <2>2, SeqDef
  <1>3. posted \in SUBSET Stats /\ Whole(posted) = posted
    <2>1. \A i \in DOMAIN Loaded.timelines : Loaded.timelines[i] \in Timelines
      BY <1>1, ElementOfSeq, LenProperties
    <2>2. \A i \in DOMAIN Loaded.timelines : \A s \in Loaded.timelines[i].statuses :
            s \in Stats /\ s.name # NoName
      BY <2>1, ServerAssumption DEF Timelines, Statuses, Whole
    <2> QED  BY <2>2 DEF Init, Whole
  <1>4. <<>> \in Seq(Name \cup {NoName}) /\ <<>> \in Seq(Stats)
    OBVIOUS
  <1>5. /\ target \in [Client -> Name] /\ wrote \in [Client -> 0..K]
        /\ messages \in [Client -> SUBSET (Nat \X Stats)]
        /\ seen \in [Client -> SUBSET Statuses] /\ tested \in [Client -> SUBSET Statuses]
    BY ServerAssumption DEF Init
  <1>6. /\ up \in BOOLEAN /\ pc \in [Client -> Stage]
        /\ copy \in [Client -> Seq(Name \cup {NoName})] /\ sent \in [Client -> Seq(Stats)]
    BY <1>4 DEF Init, Stage, Waiting
  <1>7. /\ slot \in [Client -> Nat] /\ storage \in [Client -> Nat]
        /\ hold \in [Client -> Nat] /\ reg \in [Client -> Nat]
        /\ at \in [Client -> Nat \ {0}] /\ source \in [Client -> Nat]
        /\ mostRecent \in [Client -> Int] /\ taken \in [Client -> Nat]
    BY DEF Init, NULL
  <1>8. timelineList \in Seq(Timelines) /\ serverCounter \in Nat
    BY <1>1 DEF Init
  <1> QED
    BY <1>2, <1>3, <1>5, <1>6, <1>7, <1>8 DEF TypeOK

(* Every step keeps the types.                                             *)
LEMMA TypeNext == TypeOK /\ [Next]_vars => TypeOK'
  <1> SUFFICES ASSUME TypeOK, [Next]_vars PROVE TypeOK'
    OBVIOUS
  <1>1. ASSUME NEW c \in Client, Handler(c) PROVE TypeOK'
    <2>1. CASE User(c)
      BY <2>1, UserType
    <2>2. CASE Join(c)
      BY <2>2, FindOwnType, JoinType DEF Join
    <2>3. CASE Leave(c)
      BY <2>3, FindOwnType, LeaveType DEF Leave
    <2>4. CASE List(c) \/ Crash(c)
      BY <2>4, OtherType
    <2>5. CASE chat(c)
      BY <2>5, StampType, PublishType, GatherType, WriteType, OtherType
         DEF chat, getRecentMessages, Gathering
    <2> QED  BY <1>1, <2>1, <2>2, <2>3, <2>4, <2>5 DEF Handler
  <1>2. ASSUME NEW c \in Client, Calls(c) PROVE TypeOK'
    BY <1>2, CallsType
  <1>3. CASE UNCHANGED vars
    BY <1>3 DEF TypeOK, vars, lists, unary, pointer, round, scan, stream
  <1> QED  BY <1>1, <1>2, <1>3 DEF Next

(* Every variable keeps its type: the globals, the locals of every handler *)
(* and what is on the streams, after any interleaving of the handlers.     *)
THEOREM TypeCorrect == Spec => []TypeOK
  BY TypeInit, TypeNext, PTL DEF Spec

-----------------------------------------------------------------------------
(* The order of a stream.  Only Hello, Kill, the gather loop and the write *)
(* loop touch what RoundOrder and StreamOrder speak of, and they touch it  *)
(* for their own client.                                                   *)

(* The stages in which a handler is in one of its loops.                   *)
Loops == {"gather", "scan", "copy", "write"}

(* A step that leaves the round of every handler alone: none is in its     *)
(* loops, or the step does not move it.  It may reset the stream of c.     *)
Aside(c) ==
  /\ messages' = messages /\ tested' = tested
  /\ \A d \in Client \ {c} :
       pc'[d] = pc[d] /\ sent'[d] = sent[d] /\ mostRecent'[d] = mostRecent[d]
  /\ \/ /\ pc'[c] = pc[c] \/ pc[c] \notin Loops
        /\ sent'[c] = sent[c] /\ mostRecent'[c] = mostRecent[c]
     \/ /\ pc[c] \notin Loops
        /\ sent'[c] = <<>> /\ mostRecent'[c] = -1

(* A step that leaves a stream aside keeps the order of all streams.       *)
LEMMA AsideOrder ==
  ASSUME TypeOK, RoundOrder, StreamOrder, NEW c \in Client, Aside(c)
  PROVE  RoundOrder' /\ StreamOrder'
  <1>1. ASSUME NEW d \in Client \ {c}
        PROVE  /\ pc'[d] = pc[d] /\ messages'[d] = messages[d] /\ tested'[d] = tested[d]
               /\ sent'[d] = sent[d] /\ mostRecent'[d] = mostRecent[d]
    BY DEF Aside
  <1>2. RoundOrder'
    <2>1. pc[c] \notin Loops => messages'[c] = {} /\ tested'[c] = {}
      BY DEF RoundOrder, Aside, Loops
    <2> QED  BY <1>1, <2>1 DEF RoundOrder, Aside, Loops
  <1>3. StreamOrder'
    <2>1. \/ sent'[c] = sent[c] /\ mostRecent'[c] = mostRecent[c]
          \/ sent'[c] = <<>>
      BY DEF Aside
    <2>2. DOMAIN <<>> = {}
      OBVIOUS
    <2> QED  BY <1>1, <2>1, <2>2 DEF StreamOrder
  <1> QED  BY <1>2, <1>3

(* The steps of a handler outside of its loops, and the calls.             *)
Outside(c) ==
  \/ User(c) \/ Join(c) \/ Leave(c) \/ List(c) \/ Crash(c) \/ Calls(c)
  \/ Hello(c) \/ FindMailbox(c) \/ stamp(c) \/ Publish(c) \/ Assign(c)
  \/ Recent(c) \/ EndChat(c)

(* Every step outside the two loops leaves the stream aside.               *)
LEMMA OutsideAside ==
  ASSUME TypeOK, NEW c \in Client, Outside(c)
  PROVE  Aside(c)
  <1> USE DEF Aside, Loops, TypeOK, Goto, round, scan, stream
  <1>1. CASE User(c)
    BY <1>1 DEF User, CheckUser, PushUser, PushTimeline
  <1>2. CASE Join(c)
    BY <1>2 DEF Join, JoinFind, FindOwn, JoinTest, JoinAdd, JoinAssign, Reply
  <1>3. CASE Leave(c)
    BY <1>3 DEF Leave, LeaveFind, FindOwn, LeaveNobody, LeaveCopy, LeaveClear,
                LeaveMerge, Reply
  <1>4. CASE List(c) \/ Crash(c) \/ EndChat(c)
    BY <1>4 DEF List, Crash, EndChat
  <1>5. CASE Calls(c)
    BY <1>5 DEF Calls, Call, CallUser, CallJoin, CallLeave, CallList, CallChat,
                CallMessage, Kill
  <1>6. CASE Hello(c) \/ FindMailbox(c) \/ Recent(c)
    BY <1>6 DEF Hello, FindMailbox, Recent
  <1>7. CASE stamp(c)
    BY <1>7 DEF stamp, StampLoad, StampStore, StampReturn
  <1>8. CASE Publish(c) \/ Assign(c)
    BY <1>8 DEF Publish, Assign
  <1> QED  BY <1>1, <1>2, <1>3, <1>4, <1>5, <1>6, <1>7, <1>8 DEF Outside

(* The stamps of gathered messages, and the mark they are compared with.   *)
LEMMA StampNat ==
  ASSUME TypeOK, NEW c \in Client
  PROVE  /\ mostRecent[c] \in Int
         /\ \A e \in messages[c] : e[2] \in Stats /\ e[2].timestamp \in Nat
         /\ \A t \in tested[c] : t.timestamp \in Nat
  <1>1. messages[c] \subseteq Nat \X Stats /\ tested[c] \subseteq Statuses
    BY DEF TypeOK
  <1> QED  BY <1>1 DEF TypeOK, Stats, Statuses

(* The loops: gathering tests and copies only what is newer than           *)
(* mostRecent, or what is no message; writing takes the oldest, so all     *)
(* that remains is at least as new.                                        *)
LEMMA GatherOrder ==
  ASSUME TypeOK, RoundOrder, StreamOrder, NEW c \in Client, Gathering(c)
  PROVE  RoundOrder' /\ StreamOrder'
  <1>1. /\ sent' = sent /\ mostRecent' = mostRecent
        /\ pc[c] \in {"gather", "scan", "copy"} /\ pc'[c] \in Loops
        /\ \A d \in Client \ {c} :
             /\ pc'[d] = pc[d] /\ messages'[d] = messages[d]
             /\ tested'[d] = tested[d]
    BY CopyEffect, TestEffect
       DEF Gathering, GatherNext, GatherTest, GatherCopy, GatherEnd, GatherDone,
           Goto, TypeOK, Loops, stream
  <1>2. ASSUME NEW e \in messages'[c], e[2].name # NoName
        PROVE  e[2].timestamp >= mostRecent[c] /\ e[2].timestamp > mostRecent[c]
    <2>1. \A f \in messages[c] : f[2].name # NoName => f[2].timestamp > mostRecent[c]
      BY <1>1 DEF RoundOrder
    <2>2. CASE GatherCopy(c)
      <3>1. \A t \in tested[c] : t.timestamp > mostRecent[c]
        BY DEF RoundOrder
      <3>2. e[2].timestamp > mostRecent[c]
        BY <1>2, <2>1, <2>2, <3>1, CopyEffect
      <3>3. e[2].timestamp \in Nat /\ mostRecent[c] \in Int
        <4>1. messages'[c] \subseteq Nat \X Stats
          BY <2>2, CopyEffect DEF TypeOK
        <4> QED  BY <4>1 DEF TypeOK, Stats
      <3> QED  BY <3>2, <3>3
    <2>3. CASE ~GatherCopy(c)
      <3>1. messages' = messages
        BY <2>3 DEF Gathering, GatherNext, GatherTest, GatherEnd, GatherDone
      <3> QED  BY <1>2, <2>1, <3>1, StampNat
    <2> QED  BY <2>2, <2>3
  <1>3. /\ pc'[c] # "copy" => tested'[c] = {}
        /\ \A t \in tested'[c] : t.timestamp > mostRecent[c]
    <2>1. CASE GatherTest(c)
      BY <2>1, TestEffect
    <2>2. CASE GatherNext(c) \/ GatherEnd(c)
      BY <2>2 DEF GatherNext, GatherEnd, RoundOrder, Goto
    <2>3. CASE GatherCopy(c) \/ GatherDone(c)
      BY <2>3 DEF GatherCopy, GatherDone, TypeOK
    <2> QED  BY <2>1, <2>2, <2>3 DEF Gathering
  <1>4. RoundOrder'
    BY <1>1, <1>2, <1>3 DEF RoundOrder, Loops
  <1>5. StreamOrder'
    BY <1>1 DEF StreamOrder
  <1> QED  BY <1>4, <1>5

(* Writing the oldest message, or ending the round, keeps the order.       *)
LEMMA WriteOrder ==
  ASSUME TypeOK, RoundOrder, StreamOrder, NEW c \in Client,
         WriteNext(c) \/ WriteDone(c)
  PROVE  RoundOrder' /\ StreamOrder'
  <1>1. CASE WriteDone(c)
    <2>1. /\ sent' = sent /\ mostRecent' = mostRecent /\ messages'[c] = {}
          /\ tested' = tested /\ pc[c] = "write" /\ pc'[c] = "read"
          /\ \A d \in Client \ {c} : pc'[d] = pc[d] /\ messages'[d] = messages[d]
      BY <1>1 DEF WriteDone, Goto, TypeOK, stream, scan
    <2> QED  BY <2>1 DEF RoundOrder, StreamOrder
  <1>2. CASE WriteNext(c)
    <2>1. PICK e \in messages[c] :
           /\ e[2] \in Stats
           /\ \A f \in messages[c] : e[2].timestamp <= f[2].timestamp
           /\ messages' = [messages EXCEPT ![c] = @ \ {e}]
           /\ sent' = [sent EXCEPT ![c] = Append(@, e[2])]
           /\ mostRecent' = [mostRecent EXCEPT
                ![c] = IF e[2].timestamp > @ THEN e[2].timestamp ELSE @]
      BY <1>2, WriteEffect
    <2>2. /\ e[2].timestamp \in Nat /\ mostRecent[c] \in Int
          /\ e[2].name # NoName => e[2].timestamp >= mostRecent[c]
      BY <2>1, StampNat DEF RoundOrder
    <2>3. /\ mostRecent'[c] \in Int
          /\ mostRecent[c] <= mostRecent'[c] /\ e[2].timestamp <= mostRecent'[c]
          /\ mostRecent'[c] = mostRecent[c] \/ mostRecent'[c] = e[2].timestamp
      <3>1. mostRecent'[c] = IF e[2].timestamp > mostRecent[c]
                             THEN e[2].timestamp ELSE mostRecent[c]
        BY <2>1 DEF TypeOK
      <3> QED  BY <2>2, <3>1
    <2>4. /\ pc[c] = "write" /\ pc'[c] = "write" /\ tested' = tested
          /\ \A d \in Client \ {c} :
               /\ pc'[d] = pc[d] /\ messages'[d] = messages[d]
               /\ sent'[d] = sent[d] /\ mostRecent'[d] = mostRecent[d]
      BY <1>2, <2>1 DEF WriteNext, Goto, TypeOK, scan
    <2>5. RoundOrder'
      <3>1. ASSUME NEW f \in messages'[c], f[2].name # NoName
            PROVE  f[2].timestamp >= mostRecent'[c]
        <4>1. f \in messages[c] /\ f[2].timestamp \in Nat
          BY <2>1, <3>1, StampNat DEF TypeOK
        <4>2. f[2].timestamp >= mostRecent[c] /\ f[2].timestamp >= e[2].timestamp
          BY <2>1, <2>2, <3>1, <4>1 DEF RoundOrder
        <4> QED  BY <2>3, <4>2
      <3>2. tested[c] = {}
        BY <2>4 DEF RoundOrder
      <3> QED  BY <2>4, <3>1, <3>2 DEF RoundOrder
    <2>6. StreamOrder'
      <3> DEFINE n == Len(sent[c])
      <3>1. /\ sent[c] \in Seq(Stats) /\ n \in Nat /\ DOMAIN sent[c] = 1 .. n
            /\ \A i \in 1 .. n : sent[c][i].timestamp \in Nat
        <4>1. sent[c] \in Seq(Stats)
          BY DEF TypeOK
        <4>2. n \in Nat /\ DOMAIN sent[c] = 1 .. n /\ \A i \in 1 .. n : sent[c][i] \in Stats
          BY <4>1, ElementOfSeq, LenProperties
        <4> QED  BY <4>1, <4>2 DEF Stats
      <3>2. /\ DOMAIN sent'[c] = 1 .. n + 1
            /\ \A i \in 1 .. n : sent'[c][i] = sent[c][i]
            /\ sent'[c][n + 1] = e[2]
        <4>1. sent'[c] = Append(sent[c], e[2])
          BY <2>1 DEF TypeOK
        <4> QED  BY <2>1, <3>1, <4>1, AppendProperties, LenProperties
      <3>3. \A i \in 1 .. n : sent[c][i].timestamp <= mostRecent[c]
        BY <3>1 DEF StreamOrder
      <3>4. \A i \in DOMAIN sent'[c] : sent'[c][i].timestamp <= mostRecent'[c]
        <4>1. ASSUME NEW i \in 1 .. n + 1
              PROVE  sent'[c][i].timestamp <= mostRecent'[c]
          <5>1. CASE i \in 1 .. n
            <6>1. sent'[c][i].timestamp <= mostRecent[c] /\ sent'[c][i].timestamp \in Nat
              BY <5>1, <3>1, <3>2, <3>3
            <6> QED  BY <6>1, <2>2, <2>3
          <5>2. CASE i = n + 1
            BY <5>2, <2>3, <3>2
          <5> QED  BY <5>1, <5>2, <3>1
        <4> QED  BY <4>1, <3>2
      <3>5. \A i, j \in DOMAIN sent'[c] :
              i < j /\ sent'[c][j].name # NoName =>
                sent'[c][i].timestamp <= sent'[c][j].timestamp
        <4>1. ASSUME NEW i \in 1 .. n + 1, NEW j \in 1 .. n + 1, i < j,
                     sent'[c][j].name # NoName
              PROVE  sent'[c][i].timestamp <= sent'[c][j].timestamp
          <5>1. i \in 1 .. n
            BY <3>1, <4>1
          <5>2. CASE j \in 1 .. n
            BY <4>1, <5>1, <5>2, <3>1, <3>2 DEF StreamOrder
          <5>3. CASE j = n + 1
            <6>1. sent'[c][j] = e[2] /\ e[2].timestamp >= mostRecent[c]
              BY <5>3, <4>1, <3>2, <2>2
            <6>2. sent'[c][i].timestamp <= mostRecent[c] /\ sent'[c][i].timestamp \in Nat
              BY <5>1, <3>1, <3>2, <3>3
            <6> QED  BY <6>1, <6>2, <2>2
          <5> QED  BY <5>2, <5>3, <3>1
        <4> QED  BY <4>1, <3>2
      <3> QED  BY <2>4, <3>4, <3>5 DEF StreamOrder
    <2> QED  BY <2>5, <2>6
  <1> QED  BY <1>1, <1>2

-----------------------------------------------------------------------------
(* What is stored and what is gathered was posted.                         *)

(* No step stores a message in a timeline that it does not post.           *)
LEMMA PostedLists ==
  ASSUME TypeOK, AllPosted, NEW c \in Client, Handler(c) \/ Calls(c)
  PROVE  /\ posted \subseteq posted'
         /\ \A i \in DOMAIN timelineList' : Whole(timelineList'[i].statuses) \subseteq posted'
  <1> DEFINE Goal == \A i \in DOMAIN timelineList' :
                       Whole(timelineList'[i].statuses) \subseteq posted'
  <1>0. /\ \A i \in DOMAIN timelineList : timelineList[i] \in Timelines
        /\ \A i \in DOMAIN timelineList : Whole(timelineList[i].statuses) \subseteq posted
    BY TimelineType DEF AllPosted
  <1>1. CASE UNCHANGED <<timelineList, posted>>
    BY <1>0, <1>1
  <1>2. CASE PushTimeline(c)
    <2>1. posted' = posted
      BY <1>2 DEF PushTimeline
    <2>2. CASE timelineList' = Append(timelineList, EmptyTimeline(NameOf[c]))
      <3>1. EmptyTimeline(NameOf[c]) \in Timelines
            /\ Whole(EmptyTimeline(NameOf[c]).statuses) = {}
        BY ServerAssumption DEF EmptyTimeline, Timelines, Whole
      <3>2. /\ Len(timelineList) \in Nat
            /\ DOMAIN timelineList = 1 .. Len(timelineList)
            /\ DOMAIN timelineList' = 1 .. Len(timelineList) + 1
            /\ \A i \in 1 .. Len(timelineList) : timelineList'[i] = timelineList[i]
            /\ timelineList'[Len(timelineList) + 1] = EmptyTimeline(NameOf[c])
        BY <2>2, <3>1, AppendProperties, LenProperties DEF TypeOK
      <3> QED  BY <1>0, <2>1, <3>1, <3>2
    <2>3. CASE timelineList' = timelineList
      BY <1>0, <2>1, <2>3
    <2> QED  BY <1>2, <2>2, <2>3 DEF PushTimeline
  <1>3. CASE LeaveClear(c) \/ LeaveMerge(c)
    <2>1. posted' = posted
      BY <1>3 DEF LeaveClear, LeaveMerge
    <2>2. /\ DOMAIN timelineList' = DOMAIN timelineList
          /\ \A i \in DOMAIN timelineList :
               timelineList'[i].statuses \subseteq timelineList[i].statuses
      BY <1>0, <1>3 DEF LeaveClear, LeaveMerge, EmptyTimeline, Timelines
    <2> QED  BY <1>0, <2>1, <2>2 DEF Whole
  <1>4. CASE JoinAdd(c) \/ JoinAssign(c) \/ Publish(c)
    <2>1. posted' = posted
      BY <1>4 DEF JoinAdd, JoinAssign, Publish
    <2>2. /\ DOMAIN timelineList' = DOMAIN timelineList
          /\ \A i \in DOMAIN timelineList :
               Whole(timelineList'[i].statuses) = Whole(timelineList[i].statuses)
      BY <1>4, JoinAddEffect, JoinAssignEffect, PublishEffect DEF Whole
    <2> QED  BY <1>0, <2>1, <2>2
  <1>5. CASE Assign(c)
    BY <1>0, <1>5, AssignEffect DEF Whole
  <1>6. \/ UNCHANGED <<timelineList, posted>>
        \/ PushTimeline(c) \/ LeaveClear(c) \/ LeaveMerge(c)
        \/ JoinAdd(c) \/ JoinAssign(c) \/ Publish(c) \/ Assign(c)
    <2>1. CASE User(c) \/ Join(c) \/ Leave(c) \/ List(c) \/ Crash(c)
      BY <2>1 DEF User, CheckUser, PushUser, Join, JoinFind, FindOwn, JoinTest, Leave,
                  LeaveFind, LeaveNobody, LeaveCopy, List, Crash, lists
    <2>2. CASE Calls(c)
      BY <2>2 DEF Calls, CallUser, CallJoin, CallLeave, CallList, CallChat,
                  CallMessage, Kill, lists
    <2>3. CASE chat(c)
      BY <2>3 DEF chat, stamp, getRecentMessages, Hello, FindMailbox, StampLoad,
                  StampStore, StampReturn, Recent, GatherNext, GatherTest,
                  GatherCopy, GatherEnd, GatherDone, WriteNext, WriteDone, EndChat,
                  lists
    <2> QED  BY <2>1, <2>2, <2>3 DEF Handler
  <1> QED  BY <1>1, <1>2, <1>3, <1>4, <1>5, <1>6

(* Every step keeps what is stored and gathered among what was posted.     *)
LEMMA PostedNext ==
  ASSUME TypeOK, AllPosted, NEW c \in Client, Handler(c) \/ Calls(c)
  PROVE  AllPosted'
  <1>0. Whole(posted) = posted
    BY DEF TypeOK
  <1>1. \A d \in Client : \A e \in messages'[d] : e[2].name # NoName => e[2] \in posted
    <2>1. CASE GatherCopy(c)
      <3>1. \A i \in DOMAIN timelineList : \A s \in timelineList[i].statuses :
              s.name # NoName => s \in posted
        BY DEF AllPosted, Whole
      <3> QED  BY <2>1, <3>1, CopyEffect DEF AllPosted
    <2>2. CASE GatherNext(c) \/ GatherTest(c) \/ GatherEnd(c) \/ GatherDone(c)
      BY <2>2 DEF AllPosted, GatherNext, GatherTest, GatherEnd, GatherDone
    <2>3. CASE WriteNext(c) \/ WriteDone(c)
      <3>1. \A d \in Client : messages'[d] \subseteq messages[d]
        <4>1. CASE WriteNext(c)
          <5>1. PICK e \in messages[c] : messages' = [messages EXCEPT ![c] = @ \ {e}]
            BY <4>1, WriteEffect
          <5> QED  BY <5>1 DEF TypeOK
        <4>2. CASE WriteDone(c)
          BY <4>2 DEF WriteDone, TypeOK
        <4> QED  BY <2>3, <4>1, <4>2
      <3> QED  BY <3>1 DEF AllPosted
    <2>4. CASE Outside(c)
      BY <2>4, OutsideAside DEF AllPosted, Aside
    <2> QED
      BY <2>1, <2>2, <2>3, <2>4 DEF Handler, chat, getRecentMessages, Outside
  <1>2. \A d \in Client : Whole(tested'[d]) \subseteq posted
    <2>1. CASE GatherTest(c)
      <3>1. \A i \in DOMAIN timelineList : \A s \in timelineList[i].statuses :
              s.name # NoName => s \in posted
        BY DEF AllPosted, Whole
      <3>2. \A s \in Scanned(c) : s.name # NoName => s \in posted
        BY <3>1, ScannedType
      <3> QED  BY <2>1, <3>2, TestEffect DEF AllPosted, Whole
    <2>2. CASE GatherCopy(c) \/ GatherDone(c)
      BY <2>2 DEF AllPosted, GatherCopy, GatherDone, TypeOK, Whole
    <2>3. CASE GatherNext(c) \/ GatherEnd(c) \/ WriteNext(c) \/ WriteDone(c)
      BY <2>3 DEF AllPosted, GatherNext, GatherEnd, WriteNext, WriteDone, scan
    <2>4. CASE Outside(c)
      BY <2>4, OutsideAside DEF AllPosted, Aside
    <2> QED
      BY <2>1, <2>2, <2>3, <2>4 DEF Handler, chat, getRecentMessages, Outside
  <1> QED  BY <1>1, <1>2, PostedLists DEF AllPosted

(* The inductive invariant holds when the server starts.                   *)
LEMMA InvInit == Init => ChatInv
  <1> SUFFICES ASSUME Init PROVE ChatInv
    OBVIOUS
  <1>1. RoundOrder /\ StreamOrder
    BY DEF Init, RoundOrder, StreamOrder
  <1>2. AllPosted
    <2>1. Whole({}) = {} /\ \A S : Whole(S) \subseteq S
      BY DEF Whole
    <2>2. \A i \in DOMAIN timelineList : timelineList[i].statuses \subseteq posted
      BY DEF Init
    <2>3. \A c \in Client : tested[c] = {} /\ messages[c] = {}
      BY DEF Init
    <2> QED  BY <2>1, <2>2, <2>3 DEF AllPosted
  <1> QED  BY <1>1, <1>2, TypeInit DEF ChatInv

(* Every step of every handler and client keeps the invariant.             *)
LEMMA InvNext == ChatInv /\ [Next]_vars => ChatInv'
  <1> SUFFICES ASSUME ChatInv, [Next]_vars PROVE ChatInv'
    OBVIOUS
  <1> USE DEF ChatInv
  <1>1. TypeOK'
    BY TypeNext
  <1>2. ASSUME NEW c \in Client, Handler(c) \/ Calls(c)
        PROVE  RoundOrder' /\ StreamOrder' /\ AllPosted'
    <2>1. Outside(c) => RoundOrder' /\ StreamOrder'
      BY OutsideAside, AsideOrder
    <2>2. Outside(c) \/ Gathering(c) \/ WriteNext(c) \/ WriteDone(c)
      BY <1>2 DEF Outside, Handler, chat, getRecentMessages, Gathering
    <2>3. RoundOrder' /\ StreamOrder'
      BY <2>1, <2>2, GatherOrder, WriteOrder
    <2> QED  BY <1>2, <2>3, PostedNext
  <1>3. CASE UNCHANGED vars
    <2>1. RoundOrder'
      BY <1>3 DEF RoundOrder, vars, round, scan, stream
    <2>2. StreamOrder'
      BY <1>3 DEF StreamOrder, vars, stream
    <2>3. AllPosted'
      BY <1>3 DEF AllPosted, vars, lists, round, scan
    <2> QED  BY <1>1, <2>1, <2>2, <2>3
  <1> QED  BY <1>1, <1>2, <1>3 DEF Next

(* The messages of each stream come with stamps that never decrease,       *)
(* whatever other handlers do to the timelines while a round is gathered   *)
(* and written: a LEAVE between the test and the copy of a status, or a    *)
(* post that is added and not yet assigned, puts nothing among them but    *)
(* what is no message.                                                     *)
THEOREM StreamsInOrder == Spec => []StreamOrder
  <1>1. ChatInv => StreamOrder
    BY DEF ChatInv
  <1> QED  BY <1>1, InvInit, InvNext, PTL DEF Spec

(* The invariant itself: order, and the origin of what timelines hold, of  *)
(* what is about to be copied and of what is gathered.                     *)
THEOREM Invariant == Spec => []ChatInv
  BY InvInit, InvNext, PTL DEF Spec

(* No round gathers again a message that an earlier round of that stream   *)
(* has sent, and while a round is written no message that is left of it is *)
(* older than what has been written, under every interleaving.             *)
THEOREM RoundsInOrder == Spec => []RoundOrder
  <1>1. ChatInv => RoundOrder
    BY DEF ChatInv
  <1> QED  BY <1>1, InvInit, InvNext, PTL DEF Spec

-----------------------------------------------------------------------------
(* Refinement: each step of a handler is a step of ChatFeed or a stutter.  *)

(* The server starts as a feed does.                                       *)
LEMMA FeedInit == Init => Feed!Init
  <1> SUFFICES ASSUME Init PROVE Feed!Init
    OBVIOUS
  <1>1. posted \in SUBSET Stats
    BY TypeInit DEF TypeOK
  <1> QED  BY <1>1 DEF Init, Feed!Init

(* Every step of the server is a step of the feed or a stutter.            *)
LEMMA FeedNext == ChatInv /\ [Next]_vars => [Feed!Next]_(Feed!feed)
  <1> SUFFICES ASSUME ChatInv, [Next]_vars
               PROVE  Feed!Next \/ UNCHANGED <<posted, sent, mostRecent>>
    BY DEF Feed!feed
  <1> USE DEF ChatInv
  <1>1. ASSUME NEW c \in Client, Assign(c)
        PROVE  Feed!Next \/ UNCHANGED <<posted, sent, mostRecent>>
    <2>1. sent' = sent /\ mostRecent' = mostRecent
      BY <1>1 DEF Assign, stream
    <2>2. CASE posted' = posted
      BY <2>1, <2>2
    <2>3. CASE posted' # posted
      <3>1. /\ Recved(c) \in posted' /\ Recved(c) \in Stats \ posted
            /\ posted' = posted \cup {Recved(c)}
        BY <1>1, <2>3, AssignEffect
      <3> QED  BY <2>1, <3>1 DEF Feed!Next, Feed!Post
    <2> QED  BY <2>2, <2>3
  <1>2. ASSUME NEW c \in Client, WriteNext(c)
        PROVE  Feed!Next
    <2>1. PICK e \in messages[c] :
           /\ e[2] \in Stats
           /\ \A f \in messages[c] : e[2].timestamp <= f[2].timestamp
           /\ messages' = [messages EXCEPT ![c] = @ \ {e}]
           /\ sent' = [sent EXCEPT ![c] = Append(@, e[2])]
           /\ mostRecent' = [mostRecent EXCEPT
                ![c] = IF e[2].timestamp > @ THEN e[2].timestamp ELSE @]
      BY <1>2, WriteEffect
    <2>2. posted' = posted
      BY <1>2 DEF WriteNext
    <2>3. CASE e[2].name # NoName
      <3>1. /\ e[2].timestamp \in Nat /\ mostRecent[c] \in Int
            /\ e[2].timestamp >= mostRecent[c]
        BY <2>1, <2>3, StampNat DEF RoundOrder
      <3>2. (IF e[2].timestamp > mostRecent[c] THEN e[2].timestamp ELSE mostRecent[c])
              = e[2].timestamp
        BY <3>1
      <3>3. mostRecent' = [mostRecent EXCEPT ![c] = e[2].timestamp]
        BY <2>1, <3>2
      <3>4. e[2] \in posted
        BY <2>1, <2>3 DEF AllPosted
      <3>5. Feed!Deliver(c)
        BY <2>1, <2>2, <3>1, <3>3, <3>4 DEF Feed!Deliver
      <3> QED  BY <3>5 DEF Feed!Next
    <2>4. CASE e[2].name = NoName
      <3>1. e[2] \in {sent'[c][i] : i \in DOMAIN sent'[c]}
        <4>1. sent[c] \in Seq(Stats) /\ sent'[c] = Append(sent[c], e[2])
          BY <2>1 DEF TypeOK
        <4>2. /\ Len(sent[c]) \in Nat /\ DOMAIN sent'[c] = 1 .. Len(sent[c]) + 1
              /\ sent'[c][Len(sent[c]) + 1] = e[2]
          BY <2>1, <4>1, AppendProperties, LenProperties
        <4> QED  BY <4>2
      <3>2. Feed!Garble(c)
        BY <2>1, <2>2, <2>4, <3>1 DEF Feed!Garble
      <3> QED  BY <3>2 DEF Feed!Next
    <2> QED  BY <2>3, <2>4
  <1>3. ASSUME NEW c \in Client, Hello(c) \/ Kill(c)
        PROVE  Feed!Next
    BY <1>3 DEF Hello, Kill, Feed!Next, Feed!Reset
  <1>4. ASSUME NEW c \in Client, Handler(c) \/ Calls(c),
               ~Assign(c), ~WriteNext(c), ~Hello(c), ~Kill(c)
        PROVE  UNCHANGED <<posted, sent, mostRecent>>
    <2>1. CASE User(c) \/ Join(c) \/ Leave(c) \/ List(c) \/ Crash(c)
      BY <2>1 DEF User, CheckUser, PushUser, PushTimeline, Join, JoinFind, FindOwn,
                  JoinTest, JoinAdd, JoinAssign, Leave, LeaveFind, LeaveNobody,
                  LeaveCopy, LeaveClear, LeaveMerge, List, Crash, stream
    <2>2. CASE Calls(c)
      BY <1>4, <2>2 DEF Calls, CallUser, CallJoin, CallLeave, CallList, CallChat,
                        CallMessage, stream
    <2>3. CASE chat(c)
      BY <1>4, <2>3 DEF chat, stamp, getRecentMessages, FindMailbox, StampLoad,
                        StampStore, StampReturn, Publish, Recent, GatherNext,
                        GatherTest, GatherCopy, GatherEnd, GatherDone, WriteDone,
                        EndChat, stream
    <2> QED  BY <1>4, <2>1, <2>2, <2>3 DEF Handler
  <1>5. CASE UNCHANGED vars
    BY <1>5 DEF vars, stream
  <1> QED  BY <1>1, <1>2, <1>3, <1>4, <1>5 DEF Next

(* The chat server implements the abstract feed: every message a client is *)
(* sent was posted, and messages come in timestamp order, under every      *)
(* interleaving of the handlers, lost stamps and lost updates included.    *)
(* What else a client is sent names nobody.                                *)
THEOREM ImplementsFeed == Spec => FeedSpec
  BY FeedInit, FeedNext, Invariant, PTL DEF Spec, FeedSpec, Feed!Spec

-----------------------------------------------------------------------------
(* Subscriptions.                                                          *)

(* Whoever is registered stays registered.                                 *)
LEMMA UsersGrow ==
  ASSUME TypeOK, NEW c \in Client, Handler(c) \/ Calls(c)
  PROVE  \A n : checkUserList(userList, n) => checkUserList(userList', n)
  <1>1. CASE userList' = userList
    BY <1>1
  <1>2. CASE userList' = Append(userList, NameOf[c])
    <2>1. \A i \in DOMAIN userList : i \in DOMAIN userList' /\ userList'[i] = userList[i]
      <3>1. userList \in Seq(Name \cup {NoName}) /\ NameOf[c] \in Name \cup {NoName}
        BY ServerAssumption DEF TypeOK
      <3> QED  BY <1>2, <3>1, AppendKeeps
    <2> QED  BY <2>1 DEF checkUserList
  <1>3. userList' = userList \/ userList' = Append(userList, NameOf[c])
    <2>1. CASE User(c) \/ Join(c) \/ Leave(c) \/ List(c) \/ Crash(c)
      BY <2>1 DEF User, CheckUser, PushUser, PushTimeline, Join, JoinFind, FindOwn,
                  JoinTest, JoinAdd, JoinAssign, Leave, LeaveFind, LeaveNobody,
                  LeaveCopy, LeaveClear, LeaveMerge, List, Crash, lists
    <2>2. CASE Calls(c)
      BY <2>2 DEF Calls, CallUser, CallJoin, CallLeave, CallList, CallChat,
                  CallMessage, Kill, lists
    <2>3. CASE chat(c)
      BY <2>3 DEF chat, stamp, getRecentMessages, Hello, FindMailbox, StampLoad,
                  StampStore, StampReturn, Publish, Assign, Recent, GatherNext,
                  GatherTest, GatherCopy, GatherEnd, GatherDone, WriteNext,
                  WriteDone, EndChat, lists
    <2> QED  BY <2>1, <2>2, <2>3 DEF Handler
  <1> QED  BY <1>1, <1>2, <1>3

(* The lists of subscriptions after a step, judged by the users before it. *)
LEMMA RegisteredLists ==
  ASSUME TypeOK, SubscriptionsRegistered, NEW c \in Client,
         Handler(c) \/ Calls(c)
  PROVE  \A i \in DOMAIN timelineList' : Registered(timelineList'[i].subscribed)
  <1> DEFINE t == timelineList[slot[c]]
             Names1 == Name \cup {NoName}
             Goal == \A i \in DOMAIN timelineList' : Registered(timelineList'[i].subscribed)
  <1>0. /\ \A i \in DOMAIN timelineList : timelineList[i] \in Timelines
        /\ \A i \in DOMAIN timelineList : Registered(timelineList[i].subscribed)
    BY TimelineType DEF SubscriptionsRegistered
  <1>1. CASE \/ timelineList' = timelineList
             \/ /\ DOMAIN timelineList' = DOMAIN timelineList
                /\ \A i \in DOMAIN timelineList :
                     timelineList'[i].subscribed = timelineList[i].subscribed
    BY <1>0, <1>1
  <1>2. CASE PushTimeline(c)
    <2>1. CASE timelineList' = Append(timelineList, EmptyTimeline(NameOf[c]))
      <3>1. /\ EmptyTimeline(NameOf[c]) \in Timelines
            /\ Registered(EmptyTimeline(NameOf[c]).subscribed)
        BY ServerAssumption DEF EmptyTimeline, Timelines, Registered
      <3>2. /\ Len(timelineList) \in Nat
            /\ DOMAIN timelineList = 1 .. Len(timelineList)
            /\ DOMAIN timelineList' = 1 .. Len(timelineList) + 1
            /\ \A i \in 1 .. Len(timelineList) : timelineList'[i] = timelineList[i]
            /\ timelineList'[Len(timelineList) + 1] = EmptyTimeline(NameOf[c])
        BY <2>1, <3>1, AppendProperties, LenProperties DEF TypeOK
      <3> QED  BY <1>0, <3>1, <3>2
    <2> QED  BY <1>0, <1>2, <2>1 DEF PushTimeline
  <1>3. CASE JoinAdd(c)
    <2>1. ASSUME NEW names \in Seq(Names1), Registered(names)
          PROVE  Registered(Append(names, NoName))
      <3>1. /\ Len(names) \in Nat /\ DOMAIN names = 1 .. Len(names)
            /\ DOMAIN Append(names, NoName) = 1 .. Len(names) + 1
            /\ Append(names, NoName)[Len(names) + 1] = NoName
            /\ \A j \in 1 .. Len(names) : Append(names, NoName)[j] = names[j]
        BY AppendProperties, LenProperties
      <3> QED  BY <2>1, <3>1 DEF Registered
    <2>2. \A i \in DOMAIN timelineList :
            /\ timelineList[i].subscribed \in Seq(Names1)
            /\ Registered(Append(timelineList[i].subscribed, NoName))
      BY <1>0, <2>1 DEF Timelines
    <2> QED  BY <1>0, <1>3, <2>2, JoinAddEffect
  <1>4. CASE JoinAssign(c)
    <2>1. checkUserList(userList, target[c])
      BY <1>4 DEF SubscriptionsRegistered, JoinAssign, Reply, Goto
    <2>2. ASSUME NEW i \in DOMAIN timelineList
          PROVE  Registered(timelineList'[i].subscribed)
      <3>1. /\ DOMAIN timelineList'[i].subscribed = DOMAIN timelineList[i].subscribed
            /\ \A j \in DOMAIN timelineList[i].subscribed :
                 timelineList'[i].subscribed[j] \in
                   {timelineList[i].subscribed[j], target[c]}
        BY <1>4, JoinAssignEffect
      <3>2. Registered(timelineList[i].subscribed)
        BY <1>0
      <3> QED  BY <2>1, <3>1, <3>2 DEF Registered
    <2> QED  BY <1>4, <2>2, JoinAssignEffect
  <1>5. CASE LeaveClear(c)
    <2>1. /\ DOMAIN timelineList' = DOMAIN timelineList
          /\ \A i \in DOMAIN timelineList :
               \/ timelineList'[i].subscribed = timelineList[i].subscribed
               \/ timelineList'[i].subscribed = <<>>
      BY <1>0, <1>5 DEF LeaveClear, EmptyTimeline, Timelines
    <2>2. Registered(<<>>)
      BY DEF Registered
    <2> QED  BY <1>0, <2>1, <2>2
  <1>6. CASE LeaveMerge(c)
    <2>1. ASSUME NEW x \in Seq(Names1), NEW y \in Seq(Names1),
                 Registered(x), Registered(y)
          PROVE  Registered(x \o y)
      <3>1. /\ x \o y \in Seq(Names1) /\ Len(x \o y) = Len(x) + Len(y)
            /\ \A i \in 1 .. Len(x) + Len(y) :
                 (x \o y)[i] = IF i <= Len(x) THEN x[i] ELSE y[i - Len(x)]
        BY ConcatProperties
      <3>2. DOMAIN (x \o y) = 1 .. Len(x) + Len(y)
        BY <3>1, LenProperties
      <3>3. /\ Len(x) \in Nat /\ Len(y) \in Nat
            /\ DOMAIN x = 1 .. Len(x) /\ DOMAIN y = 1 .. Len(y)
        BY LenProperties
      <3>4. ASSUME NEW j \in DOMAIN (x \o y)
            PROVE  (x \o y)[j] = NoName \/ checkUserList(userList, (x \o y)[j])
        <4>1. /\ j \in 1 .. Len(x) + Len(y)
              /\ (x \o y)[j] = IF j <= Len(x) THEN x[j] ELSE y[j - Len(x)]
          BY <3>1, <3>2, <3>4
        <4>2. CASE j <= Len(x)
          BY <2>1, <3>3, <4>1, <4>2 DEF Registered
        <4>3. CASE ~(j <= Len(x))
          <5>1. j - Len(x) \in DOMAIN y
            BY <3>3, <4>1, <4>3
          <5> QED  BY <2>1, <4>1, <4>3, <5>1 DEF Registered
        <4> QED  BY <4>2, <4>3
      <3> QED  BY <3>4 DEF Registered
    <2>2. slot[c] \in DOMAIN timelineList
      BY <1>6 DEF LeaveMerge
    <2>3. /\ t.subscribed \in Seq(Names1) /\ copy[c] \in Seq(Names1)
          /\ Registered(t.subscribed) /\ Registered(copy[c])
      BY <1>0, <2>2 DEF Timelines, TypeOK, SubscriptionsRegistered
    <2>4. Registered(t.subscribed \o copy[c])
      BY <2>1, <2>3
    <2>5. /\ DOMAIN timelineList' = DOMAIN timelineList
          /\ \A i \in DOMAIN timelineList :
               \/ timelineList'[i].subscribed = timelineList[i].subscribed
               \/ timelineList'[i].subscribed = t.subscribed \o copy[c]
      BY <1>0, <1>6 DEF LeaveMerge, Timelines
    <2> HIDE DEF t
    <2> QED  BY <1>0, <2>4, <2>5
  <1>7. CASE Publish(c) \/ Assign(c)
    BY <1>0, <1>7, PublishEffect, AssignEffect
  <1>8. \/ timelineList' = timelineList
        \/ PushTimeline(c) \/ LeaveClear(c) \/ LeaveMerge(c)
        \/ JoinAdd(c) \/ JoinAssign(c) \/ Publish(c) \/ Assign(c)
    <2>1. CASE User(c) \/ Join(c) \/ Leave(c) \/ List(c) \/ Crash(c)
      BY <2>1 DEF User, CheckUser, PushUser, Join, JoinFind, FindOwn, JoinTest, Leave,
                  LeaveFind, LeaveNobody, LeaveCopy, List, Crash, lists
    <2>2. CASE Calls(c)
      BY <2>2 DEF Calls, CallUser, CallJoin, CallLeave, CallList, CallChat,
                  CallMessage, Kill, lists
    <2>3. CASE chat(c)
      BY <2>3 DEF chat, stamp, getRecentMessages, Hello, FindMailbox, StampLoad,
                  StampStore, StampReturn, Recent, GatherNext, GatherTest,
                  GatherCopy, GatherEnd, GatherDone, WriteNext, WriteDone, EndChat,
                  lists
    <2> QED  BY <2>1, <2>2, <2>3 DEF Handler
  <1> QED  BY <1>1, <1>2, <1>3, <1>4, <1>5, <1>6, <1>7, <1>8

(* The stages of a JOIN that has found its target among the users.         *)
Joining == {"joinTest", "joinAdd", "joinAssign"}

(* The names in the hands of the handlers.                                 *)
LEMMA RegisteredLocals ==
  ASSUME TypeOK, SubscriptionsRegistered, NEW c \in Client,
         Handler(c) \/ Calls(c), NEW d \in Client
  PROVE  /\ pc'[d] \in Joining => checkUserList(userList, target'[d])
         /\ Registered(copy'[d])
  <1> USE DEF Goto, TypeOK, unary, Joining
  <1>0. /\ pc[d] \in Joining => checkUserList(userList, target[d])
        /\ Registered(copy[d]) /\ Registered(<<>>)
    BY DEF SubscriptionsRegistered, Registered
  <1>1. CASE /\ pc'[d] \in Joining => pc[d] \in Joining
             /\ target'[d] = target[d] /\ copy'[d] = copy[d]
    BY <1>0, <1>1
  <1>2. CASE pc'[d] \notin Joining /\ copy'[d] \in {copy[d], <<>>}
    BY <1>0, <1>2
  <1>3. CASE JoinFind(c) /\ ~Refused(c) /\ d = c
    BY <1>0, <1>3 DEF JoinFind, FindOwn, Refused, Reply
  <1>4. CASE LeaveCopy(c) /\ d = c
    <2> DEFINE subs == timelineList[slot[c]].subscribed
    <2>1. /\ slot[c] \in DOMAIN timelineList /\ subs # <<>>
          /\ copy'[c] = CopyAllButOne(subs, target[c]) /\ pc'[c] \notin Joining
      BY <1>4 DEF LeaveCopy
    <2>2. timelineList[slot[c]] \in Timelines
      BY <2>1, TimelineType
    <2>3. subs \in Seq(Name \cup {NoName}) /\ Registered(subs)
      BY <2>1, <2>2 DEF Timelines, SubscriptionsRegistered
    <2> HIDE DEF subs
    <2> QED  BY <1>4, <2>1, <2>3, CopyType DEF Registered
  <1>5. d # c => pc'[d] = pc[d] /\ target'[d] = target[d] /\ copy'[d] = copy[d]
    <2>1. CASE User(c) \/ List(c) \/ Crash(c)
      BY <2>1 DEF User, CheckUser, PushUser, PushTimeline, List, Crash
    <2>2. CASE Join(c) \/ Leave(c)
      BY <2>2 DEF Join, JoinFind, FindOwn, JoinTest, JoinAdd, JoinAssign, Leave,
                  LeaveFind, LeaveNobody, LeaveCopy, LeaveClear, LeaveMerge, Reply
    <2>3. CASE Calls(c)
      BY <2>3 DEF Calls, Call, CallUser, CallJoin, CallLeave, CallList, CallChat,
                  CallMessage, Kill
    <2>4. CASE chat(c)
      BY <2>4 DEF chat, stamp, getRecentMessages, Hello, FindMailbox, StampLoad,
                  StampStore, StampReturn, Publish, Assign, Recent, GatherNext,
                  GatherTest, GatherCopy, GatherEnd, GatherDone, WriteNext,
                  WriteDone, EndChat
    <2> QED  BY <2>1, <2>2, <2>3, <2>4 DEF Handler
  <1>6. \/ pc'[c] \notin Joining /\ copy'[c] \in {copy[c], <<>>}
        \/ /\ pc'[c] \in Joining => pc[c] \in Joining
           /\ target'[c] = target[c] /\ copy'[c] = copy[c]
        \/ (JoinFind(c) /\ ~Refused(c)) \/ LeaveCopy(c)
    <2>1. CASE User(c) \/ List(c) \/ Crash(c)
      BY <2>1 DEF User, CheckUser, PushUser, PushTimeline, List, Crash
    <2>2. CASE Join(c)
      BY <2>2 DEF Join, JoinFind, FindOwn, JoinTest, JoinAdd, JoinAssign, Reply
    <2>3. CASE Leave(c)
      BY <2>3 DEF Leave, LeaveFind, FindOwn, LeaveNobody, LeaveClear, LeaveMerge, Reply
    <2>4. CASE Calls(c)
      BY <2>4 DEF Calls, Call, CallUser, CallJoin, CallLeave, CallList, CallChat,
                  CallMessage, Kill
    <2>5. CASE chat(c)
      BY <2>5 DEF chat, stamp, getRecentMessages, Hello, FindMailbox, StampLoad,
                  StampStore, StampReturn, Publish, Assign, Recent, GatherNext,
                  GatherTest, GatherCopy, GatherEnd, GatherDone, WriteNext,
                  WriteDone, EndChat
    <2> QED  BY <2>1, <2>2, <2>3, <2>4, <2>5 DEF Handler
  <1> QED  BY <1>0, <1>1, <1>2, <1>3, <1>4, <1>5, <1>6

(* Everyone whom the timelines of db.bin subscribe to is a user.           *)
LEMMA RegisteredInit == Init => SubscriptionsRegistered
  <1> SUFFICES ASSUME Init PROVE SubscriptionsRegistered
    OBVIOUS
  <1>1. ASSUME NEW i \in DOMAIN timelineList,
               NEW j \in DOMAIN timelineList[i].subscribed
        PROVE  checkUserList(userList, timelineList[i].subscribed[j])
    BY ServerAssumption DEF Init, checkUserList
  <1> QED  BY <1>1 DEF Init, SubscriptionsRegistered, Registered

(* Every step keeps subscriptions among the users.                         *)
LEMMA RegisteredNext ==
  TypeOK /\ SubscriptionsRegistered /\ [Next]_vars => SubscriptionsRegistered'
  <1> SUFFICES ASSUME TypeOK, SubscriptionsRegistered, [Next]_vars
               PROVE  SubscriptionsRegistered'
    OBVIOUS
  <1>1. ASSUME NEW c \in Client, Handler(c) \/ Calls(c)
        PROVE  SubscriptionsRegistered'
    <2>1. \A n : checkUserList(userList, n) => checkUserList(userList', n)
      BY <1>1, UsersGrow
    <2>2. \A i \in DOMAIN timelineList' : \A j \in DOMAIN timelineList'[i].subscribed :
            \/ timelineList'[i].subscribed[j] = NoName
            \/ checkUserList(userList', timelineList'[i].subscribed[j])
      BY <1>1, <2>1, RegisteredLists DEF Registered
    <2>3. \A d \in Client :
            /\ pc'[d] \in Joining => checkUserList(userList', target'[d])
            /\ \A j \in DOMAIN copy'[d] :
                 copy'[d][j] = NoName \/ checkUserList(userList', copy'[d][j])
      BY <1>1, <2>1, RegisteredLocals DEF Registered
    <2> QED  BY <2>2, <2>3 DEF SubscriptionsRegistered, Registered, checkUserList, Joining
  <1>2. CASE UNCHANGED vars
    BY <1>2 DEF SubscriptionsRegistered, Registered, checkUserList, vars, lists, unary
  <1> QED  BY <1>1, <1>2 DEF Next

(* A JOIN or a LEAVE checks a name in one step and writes names in later   *)
(* ones; the names it writes are still those of users, and nothing stands  *)
(* in a list besides but the empty name that a JOIN has not yet assigned   *)
(* to, or that a LEAVE has copied from it.                                 *)
THEOREM AlwaysRegistered == Spec => []SubscriptionsRegistered
  BY RegisteredInit, RegisteredNext, TypeCorrect, PTL DEF Spec
=============================================================================
