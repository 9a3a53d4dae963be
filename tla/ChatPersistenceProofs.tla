------------------------ MODULE ChatPersistenceProofs ------------------------
(***************************************************************************)
(* Proofs about ChatPersistence: the save, the file, death at any moment   *)
(* and restart, for any number of clients and servers.  SavedTypes and     *)
(* SavedPosts hold however the handlers overlap, SavedTime when they do    *)
(* not overlap each other.                                                 *)
(***************************************************************************)
EXTENDS ChatPersistence, ChatSerialProofs

-----------------------------------------------------------------------------
(* The handlers.                                                           *)

(* A step of a handler or a call needs the process alive.                  *)
LEMMA AliveStep ==
  ASSUME NEW c \in Client, Handler(c) \/ Calls(c)
  PROVE  up
  BY DEF Handler, User, CheckUser, PushUser, PushTimeline, Join, JoinFind, FindOwn,
         JoinTest, JoinAdd, JoinAssign, Leave, LeaveFind, LeaveNobody, LeaveCopy,
         LeaveClear, LeaveMerge, Reply, List, Crash, chat, Hello, FindMailbox,
         Publish, Assign, getRecentMessages, Recent, GatherNext, GatherTest,
         GatherCopy, GatherEnd, GatherDone, stamp, StampLoad, StampStore,
         StampReturn, WriteNext, WriteDone, EndChat, Calls, Call, CallUser, CallJoin, CallLeave,
         CallList, CallChat, CallMessage, Kill, Goto

-----------------------------------------------------------------------------
(* Types.                                                                  *)

LEMMA FileTypes == NewDB \in File /\ NoDB \in File
  BY DEF NewDB, NoDB, File

LEMMA PostsType ==
  ASSUME NEW t \in Seq(Timelines)
  PROVE  /\ PostsOf(t) \in SUBSET Stats /\ Whole(PostsOf(t)) = PostsOf(t)
         /\ PlacedIn(t) \in SUBSET (Nat \X Stats)
  <1>1. \A i \in DOMAIN t : t[i] \in Timelines /\ i \in Nat
    BY ElementType, LenProperties
  <1>2. \A i \in DOMAIN t : Whole(t[i].statuses) \subseteq Stats
    BY <1>1 DEF Timelines, Statuses, Whole
  <1> QED  BY <1>1, <1>2 DEF PostsOf, PlacedIn, Whole

(* What a new server finds in the file becomes its lists, the name of a    *)
(* timeline that was saved without one too.                                *)
LEMMA RestartType ==
  ASSUME PTypeOK, Restart
  PROVE  PTypeOK'
  <1>1. disk.timelines \in Seq(Timelines) /\ disk.counter \in Nat
    BY DEF PTypeOK, File
  <1>2. userList' \in Seq(Name \cup {NoName})
    <2>1. /\ DOMAIN disk.timelines = 1 .. Len(disk.timelines)
          /\ Len(disk.timelines) \in Nat
          /\ \A i \in DOMAIN disk.timelines : disk.timelines[i] \in Timelines
      BY <1>1, LenProperties, ElementType
    <2>2. userList' \in [1 .. Len(disk.timelines) -> Name \cup {NoName}]
      BY <2>1 DEF Restart, Timelines
    <2> QED  BY <2>1, <2>2, SeqDef
  <1>3. posted' \in SUBSET Stats /\ Whole(posted') = posted'
    BY <1>1, PostsType DEF Restart
  <1>4. \A c \in Client : AfterLoss(c) \in {"start", "command"}
    BY DEF AfterLoss
  <1>5. pc' \in [Client -> Stage]
    BY <1>4 DEF Restart, Stage, Waiting
  <1>6. <<>> \in Seq(Name \cup {NoName}) /\ <<>> \in Seq(Stats)
    OBVIOUS
  <1>7. TypeOK'
    <2>1. /\ up' \in BOOLEAN /\ timelineList' \in Seq(Timelines)
          /\ serverCounter' \in Nat /\ taken' \in [Client -> Nat]
      BY <1>1 DEF Restart, PTypeOK, TypeOK
    <2>2. /\ target' \in [Client -> Name] /\ slot' \in [Client -> Nat]
          /\ storage' \in [Client -> Nat] /\ copy' \in [Client -> Seq(Name \cup {NoName})]
          /\ reg' \in [Client -> Nat] /\ hold' \in [Client -> Nat]
      BY <1>6, ServerAssumption DEF Restart, NULL
    <2>3. /\ at' \in [Client -> Nat \ {0}]
          /\ messages' \in [Client -> SUBSET (Nat \X Stats)]
          /\ wrote' \in [Client -> 0 .. K] /\ mostRecent' \in [Client -> Int]
          /\ sent' \in [Client -> Seq(Stats)]
          /\ source' \in [Client -> Nat]
          /\ seen' \in [Client -> SUBSET Statuses] /\ tested' \in [Client -> SUBSET Statuses]
      BY <1>6, ServerAssumption DEF Restart, NULL
    <2> QED  BY <1>2, <1>3, <1>5, <2>1, <2>2, <2>3 DEF TypeOK
  <1>8. /\ disk' \in File /\ db' \in File /\ saver' = "none" /\ caught' = {}
        /\ held' = 0 /\ owed' = {} /\ intact' \in BOOLEAN
    BY FileTypes DEF Restart, PTypeOK
  <1>9. session' \in 0 .. MaxSessions
    BY PersistenceAssumption DEF Restart, PTypeOK
  <1> QED  BY <1>7, <1>8, <1>9 DEF PTypeOK

(* A handler moves between two steps of the save.                          *)
LEMMA ServeType ==
  ASSUME PTypeOK, Serve
  PROVE  PTypeOK'
  <1>1. TypeOK'
    BY TypeNext DEF PTypeOK, Serve
  <1>2. up
    BY AliveStep DEF Serve, Next
  <1>3. owed' \subseteq owed /\ UNCHANGED <<disk, saver, caught, db, held, intact, session>>
    BY DEF Serve, Beside
  <1> QED  BY <1>1, <1>2, <1>3 DEF PTypeOK

(* The save.                                                               *)
LEMMA SaveType ==
  ASSUME PTypeOK, Signal \/ SecondSignal \/ TimelinesToDisk \/ Die
  PROVE  PTypeOK'
  <1>0. /\ timelineList \in Seq(Timelines) /\ serverCounter \in Nat
        /\ db.timelines \in Seq(Timelines)
    BY DEF PTypeOK, TypeOK, File
  <1> USE DEF Step
  <1>1. CASE Signal
    <2>1. owed' \in SUBSET (Nat \X Stats)
      BY <1>0, <1>1, PostsType DEF Signal
    <2> QED  BY <1>1, <2>1 DEF Signal, PTypeOK, TypeOK, vars, lists,
                     unary, pointer, round, scan, stream
  <1>2. CASE SecondSignal
    BY <1>2 DEF SecondSignal, PTypeOK, TypeOK, vars, lists, unary,
                pointer, round, scan, stream
  <1>3. CASE CopyTimeline
    <2> DEFINE n == Len(db.timelines) + 1
    <2>1. n \in DOMAIN timelineList
      BY <1>0, <1>3, LenProperties DEF CopyTimeline
    <2>2. timelineList[n] \in Timelines
      BY <1>0, <2>1, ElementType
    <2>3. Append(db.timelines, timelineList[n]) \in Seq(Timelines)
      BY <1>0, <2>2, AppendProperties
    <2> DEFINE longer == Append(db.timelines, timelineList[n])
    <2>4. db' = [db EXCEPT !.timelines = longer]
      BY <1>3 DEF CopyTimeline
    <2> HIDE DEF n
    <2>5. longer \in Seq(Timelines)
      BY <2>3
    <2> HIDE DEF longer
    <2>6. db' \in File
      BY <2>4, <2>5 DEF PTypeOK, File
    <2> QED  BY <1>3, <2>6 DEF CopyTimeline, PTypeOK, TypeOK, vars,
                     lists, unary, pointer, round, scan, stream
  <1>4. CASE CopyDone \/ LoadCounter \/ SetCounter
    <2>1. held' \in Nat /\ db' \in File /\ db'.timelines = db.timelines
      BY <1>0, <1>4 DEF CopyDone, LoadCounter, SetCounter, PTypeOK, File
    <2>2. UNCHANGED <<vars, disk, caught, owed, intact, session>>
          /\ \E from \in {"copy", "load", "set"}, to \in {"load", "store", "open"} :
               Step(from, to)
      BY <1>4 DEF CopyDone, LoadCounter, SetCounter
    <2> QED  BY <2>1, <2>2 DEF PTypeOK, TypeOK, vars, lists, unary,
                     pointer, round, scan, stream
  <1>5. CASE StoreCounter
    <2>1. held' \in Nat /\ serverCounter' \in Nat
      BY <1>5 DEF StoreCounter, PTypeOK
    <2> QED  BY <1>5, <2>1 DEF StoreCounter, PTypeOK, TypeOK, lists,
                     unary, pointer, round, scan, stream
  <1>6. CASE Open \/ WritePart \/ WriteDB
    <2>1. disk' \in File
      <3>1. ASSUME NEW n \in 1 .. Len(db.timelines)
            PROVE  [NewDB EXCEPT !.timelines = SubSeq(db.timelines, 1, n)] \in File
        <4>1. /\ Len(db.timelines) \in Nat /\ DOMAIN db.timelines = 1 .. Len(db.timelines)
              /\ \A i \in DOMAIN db.timelines : db.timelines[i] \in Timelines
          BY <1>0, LenProperties, ElementType
        <4>2. /\ 1 \in Int /\ n \in Int
              /\ \A i \in 1 .. n : db.timelines[i] \in Timelines
          BY <4>1
        <4>3. SubSeq(db.timelines, 1, n) \in Seq(Timelines)
          BY <4>2, SubSeqProperties
        <4> DEFINE part == SubSeq(db.timelines, 1, n)
        <4>4. part \in Seq(Timelines)
          BY <4>3
        <4> HIDE DEF part
        <4>5. [NewDB EXCEPT !.timelines = part] \in File
          BY <4>4 DEF NewDB, File
        <4> QED  BY <4>5 DEF part
      <3> QED  BY <1>6, <3>1, FileTypes DEF Open, WritePart, WriteDB, PTypeOK
    <2>2. UNCHANGED <<vars, caught, db, held, owed, intact, session>>
          /\ \E from \in {"open", "write"}, to \in {"write", "failed", "exit"} :
               Step(from, to)
      BY <1>6 DEF Open, WritePart, WriteDB
    <2> QED  BY <2>1, <2>2 DEF PTypeOK, TypeOK, vars, lists, unary,
                     pointer, round, scan, stream
  <1>7. CASE Exit \/ Die
    BY <1>7 DEF Exit, Die, save, PTypeOK, TypeOK, lists, unary,
                pointer, round, scan, stream
  <1> QED
    BY <1>1, <1>2, <1>3, <1>4, <1>5, <1>6, <1>7 DEF TimelinesToDisk

LEMMA PTypeInit == PInit => PTypeOK
  <1> SUFFICES ASSUME PInit PROVE PTypeOK
    OBVIOUS
  <1>1. TypeOK
    BY TypeInit DEF PInit
  <1>2. disk \in File
    BY ServerAssumption DEF PInit, File
  <1>3. session \in 0 .. MaxSessions
    BY PersistenceAssumption DEF PInit
  <1> QED  BY <1>1, <1>2, <1>3, FileTypes DEF PInit, PTypeOK

LEMMA PTypeNext == PTypeOK /\ [PNext]_pvars => PTypeOK'
  <1> SUFFICES ASSUME PTypeOK, [PNext]_pvars PROVE PTypeOK'
    OBVIOUS
  <1>1. CASE UNCHANGED pvars
    BY <1>1 DEF pvars, save, PTypeOK, TypeOK, vars, lists, unary, pointer, round,
                scan, stream
  <1> QED  BY <1>1, ServeType, SaveType, RestartType DEF PNext

(* Every variable keeps its type through saves, deaths at any moment and   *)
(* restarts from whatever is in the file, with any command in use and      *)
(* handlers that overlap, and a signal is caught just when a save is under *)
(* way.  The names of users are those of the clients and, once a LEAVE was *)
(* saved half done, the empty one.                                         *)
THEOREM SavedTypes == PSpec => []PTypeOK
  BY PTypeInit, PTypeNext, PTL DEF PSpec

-----------------------------------------------------------------------------
(* The posts of a save.                                                    *)

(* A post that is owed is in its timeline, and, once the copy has come to  *)
(* that timeline, in the copy.                                             *)
Kept(p) ==
  /\ p \in PlacedIn(timelineList)
  /\ p[1] \in DOMAIN db.timelines => p \in PlacedIn(db.timelines)

OwedInv ==
  /\ up /\ saver = "none" => db.timelines = <<>>
  /\ saver = "copy" => \A p \in owed : Kept(p)
  /\ saver \in {"load", "store", "set", "open", "write"} =>
       owed \subseteq PlacedIn(db.timelines)
  /\ NothingLost

LEMMA Placed ==
  ASSUME NEW timelines, NEW p
  PROVE  p \in PlacedIn(timelines) <=>
           /\ p = <<p[1], p[2]>> /\ p[1] \in DOMAIN timelines
           /\ p[2] \in Whole(timelines[p[1]].statuses)
  <1>1. ASSUME p \in PlacedIn(timelines)
        PROVE  /\ p = <<p[1], p[2]>> /\ p[1] \in DOMAIN timelines
               /\ p[2] \in Whole(timelines[p[1]].statuses)
    <2>1. PICK i \in DOMAIN timelines : p \in {i} \X Whole(timelines[i].statuses)
      BY <1>1 DEF PlacedIn
    <2> QED  BY <2>1
  <1>2. ASSUME p = <<p[1], p[2]>>, p[1] \in DOMAIN timelines,
               p[2] \in Whole(timelines[p[1]].statuses)
        PROVE  p \in PlacedIn(timelines)
    <2>1. p \in {p[1]} \X Whole(timelines[p[1]].statuses)
      BY <1>2
    <2> QED  BY <1>2, <2>1 DEF PlacedIn
  <1> QED  BY <1>1, <1>2

(* A copied timeline keeps what was copied before, and has its own posts.  *)
LEMMA CopyKeeps ==
  ASSUME NEW S, NEW list \in Seq(S), NEW t \in S
  PROVE  PostsOf(Append(list, t)) = PostsOf(list) \cup Whole(t.statuses)
  <1>1. /\ Len(list) \in Nat /\ DOMAIN list = 1 .. Len(list)
        /\ DOMAIN Append(list, t) = 1 .. Len(list) + 1
        /\ \A i \in 1 .. Len(list) : Append(list, t)[i] = list[i]
        /\ Append(list, t)[Len(list) + 1] = t
    BY AppendProperties, LenProperties
  <1>2. \A s : s \in PostsOf(Append(list, t)) <=>
          \E i \in 1 .. Len(list) + 1 : s \in Whole(Append(list, t)[i].statuses)
    BY <1>1 DEF PostsOf
  <1>3. \A s : s \in PostsOf(list) <=> \E i \in 1 .. Len(list) : s \in Whole(list[i].statuses)
    BY <1>1 DEF PostsOf
  <1> QED  BY <1>1, <1>2, <1>3

(* The copy goes on, or is done.                                           *)
LEMMA OwedCopy ==
  ASSUME PTypeOK, OwedInv, CopyTimeline \/ CopyDone
  PROVE  OwedInv'
  <1> DEFINE n == Len(db.timelines)
  <1>1. /\ timelineList \in Seq(Timelines) /\ db.timelines \in Seq(Timelines)
        /\ n \in Nat /\ Len(timelineList) \in Nat
        /\ DOMAIN timelineList = 1 .. Len(timelineList)
    BY LenProperties DEF PTypeOK, TypeOK, File
  <1>2. /\ saver = "copy" /\ \A p \in owed : Kept(p)
        /\ UNCHANGED <<timelineList, owed>>
    BY DEF CopyTimeline, CopyDone, Step, OwedInv, vars, lists
  <1>3. CASE CopyTimeline
    <2>1. n + 1 \in DOMAIN timelineList /\ timelineList[n + 1] \in Timelines
      BY <1>1, <1>3, ElementType DEF CopyTimeline
    <2> DEFINE longer == Append(db.timelines, timelineList[n + 1])
    <2>2. /\ DOMAIN longer = 1 .. n + 1 /\ DOMAIN db.timelines = 1 .. n
          /\ \A i \in 1 .. n : longer[i] = db.timelines[i]
          /\ longer[n + 1] = timelineList[n + 1]
      BY <1>1, <2>1, AppendProperties, LenProperties
    <2>3. db' = [db EXCEPT !.timelines = longer] /\ saver' = "copy"
      BY <1>3 DEF CopyTimeline, Step
    <2> HIDE DEF longer, n
    <2>4. db'.timelines = longer
      BY <2>3 DEF PTypeOK, File
    <2>5. ASSUME NEW p \in owed PROVE Kept(p)'
      <3>1. p \in PlacedIn(timelineList) /\ UNCHANGED timelineList
        BY <1>2 DEF Kept
      <3>2. ASSUME p[1] \in DOMAIN longer PROVE p \in PlacedIn(longer)
        <4>1. p[1] \in 1 .. n \/ p[1] = n + 1
          BY <1>1, <2>2, <3>2
        <4>2. CASE p[1] \in 1 .. n
          <5>1. p \in PlacedIn(db.timelines)
            BY <1>2, <2>2, <4>2 DEF Kept
          <5> QED  BY <2>2, <3>2, <4>2, <5>1, Placed
        <4>3. CASE p[1] = n + 1
          BY <2>2, <3>1, <3>2, <4>3, Placed
        <4> QED  BY <4>1, <4>2, <4>3
      <3> QED  BY <2>4, <3>1, <3>2 DEF Kept
    <2> QED  BY <1>2, <2>3, <2>5 DEF OwedInv, NothingLost
  <1>4. CASE CopyDone
    <2>1. DOMAIN timelineList \subseteq DOMAIN db.timelines
      BY <1>1, <1>4, LenProperties DEF CopyDone
    <2>2. owed \subseteq PlacedIn(db.timelines)
      BY <1>2, <2>1, Placed DEF Kept
    <2> QED  BY <1>2, <1>4, <2>2 DEF CopyDone, Step, OwedInv, NothingLost
  <1> QED  BY <1>3, <1>4

(* Handlers run beside the copy: what it has not come to stays there, or a *)
(* handler takes it and it is not owed any more.                           *)
LEMMA OwedServe ==
  ASSUME PTypeOK, OwedInv, Serve
  PROVE  OwedInv'
  <1>1. up
    BY AliveStep DEF Serve, Next
  <1>2. UNCHANGED <<disk, saver, db>> /\ owed' = owed \cap PlacedIn(timelineList')
    BY DEF Serve, Beside
  <1>3. ASSUME NEW p \in owed', Kept(p) PROVE Kept(p)'
    BY <1>2, <1>3 DEF Kept
  <1> QED  BY <1>1, <1>2, <1>3 DEF OwedInv, NothingLost

LEMMA OwedNext ==
  PTypeOK /\ OwedInv /\ [PNext]_pvars => OwedInv'
  <1> SUFFICES ASSUME PTypeOK, OwedInv, [PNext]_pvars
               PROVE  OwedInv'
    OBVIOUS
  <1> USE DEF Step
  <1>1. CASE UNCHANGED pvars
    BY <1>1 DEF pvars, save, vars, lists, OwedInv, NothingLost, Kept
  <1>2. CASE Signal
    <2>1. db.timelines = <<>> /\ owed' = PlacedIn(timelineList)
      BY <1>2 DEF Signal, OwedInv
    <2>2. UNCHANGED <<timelineList, db>> /\ saver' = "copy"
      BY <1>2 DEF Signal, vars, lists
    <2>3. DOMAIN db.timelines = {}
      BY <2>1
    <2>4. \A p \in owed' : Kept(p)'
      BY <2>1, <2>2, <2>3 DEF Kept
    <2> QED  BY <2>2, <2>4 DEF OwedInv, NothingLost
  <1>3. CASE SecondSignal
    BY <1>3 DEF SecondSignal, OwedInv, NothingLost
  <1>4. CASE LoadCounter \/ StoreCounter
    BY <1>4 DEF LoadCounter, StoreCounter, OwedInv, NothingLost
  <1>5. CASE SetCounter
    <2>1. db'.timelines = db.timelines
      BY <1>5 DEF SetCounter, PTypeOK, File
    <2> QED  BY <1>5, <2>1 DEF SetCounter, OwedInv, NothingLost
  <1>6. CASE Open \/ WritePart \/ WriteDB
    BY <1>6 DEF Open, WritePart, WriteDB, OwedInv, NothingLost
  <1>7. CASE Exit \/ Die
    BY <1>7 DEF Exit, Die, save, lists, OwedInv, NothingLost, Kept
  <1>8. CASE Restart
    BY <1>8 DEF Restart, NewDB, OwedInv, NothingLost
  <1> QED
    BY <1>1, <1>2, <1>3, <1>4, <1>5, <1>6, <1>7, <1>8, OwedCopy, OwedServe
       DEF PNext, TimelinesToDisk

(* Every post that was in a timeline when the signal came, and that no     *)
(* handler has dropped since, is in that timeline of the file, although    *)
(* handlers, any number at once, push timelines, assign to them and store  *)
(* posts while the lists are copied one by one.                            *)
THEOREM SavedPosts == PSpec => []NothingLost
  <1> DEFINE Inv == PTypeOK /\ OwedInv
  <1>1. PInit => Inv
    <2>1. PInit => OwedInv
      BY DEF PInit, NewDB, OwedInv, NothingLost
    <2> QED  BY <2>1, PTypeInit
  <1>2. Inv /\ [PNext]_pvars => Inv'
    BY PTypeNext, OwedNext
  <1>3. Inv => NothingLost
    BY DEF OwedInv
  <1> HIDE DEF Inv
  <1> QED  BY <1>1, <1>2, <1>3, PTL DEF PSpec

-----------------------------------------------------------------------------
(* The counter of a save.                                                  *)

Upto(S, n) == \A s \in S : s.timestamp <= n

(* The posts that the counter must not fall behind: all of them, until the *)
(* save has copied the timelines; from then on those it will write.        *)
Counted == IF saver \in {"none", "copy"} THEN posted ELSE PostsOf(db.timelines)

(* What stamp() and the save have loaded is not behind either, so that     *)
(* none of their stores can throw the counter back too far.                *)
CounterInv ==
  /\ Upto(Counted, serverCounter)
  /\ saver = "store" => Upto(Counted, held)
  /\ saver \in {"open", "write"} => Upto(Counted, db.counter)
  /\ \A c \in Client :
       /\ pc[c] = "stampStore" => Upto(Counted, reg[c])
       /\ saver \in {"none", "copy"} /\ pc[c] \in {"publish", "assign"} =>
            reg[c] <= serverCounter

TimeInv ==
  /\ Alone /\ AllPosted /\ PostsOf(db.timelines) \subseteq posted
  /\ intact /\ saver \notin {"write", "stuck"} =>
       Upto(PostsOf(disk.timelines), disk.counter)
  /\ up /\ intact => CounterInv

LEMMA TimeTypes ==
  ASSUME PTypeOK
  PROVE  /\ serverCounter \in Nat /\ held \in Nat /\ reg \in [Client -> Nat]
         /\ posted \in SUBSET Stats /\ PostsOf(db.timelines) \in SUBSET Stats
         /\ db.counter \in Nat
         /\ \A s \in Stats : s.timestamp \in Nat
  BY PostsType DEF PTypeOK, TypeOK, File, Stats

(* A step of a handler beside the save.                                    *)
LEMMA CounterServe ==
  ASSUME PTypeOK, Alone, CounterInv, NEW c \in Client, Handler(c) \/ Calls(c),
         UNCHANGED <<saver, db, held>>
  PROVE  CounterInv'
  <1>0. TypeOK
    BY DEF PTypeOK
  <1>1. CASE ~stamp(c) /\ ~Publish(c) /\ ~Assign(c)
    <2>1. Unstamped(c)
      BY <1>0, <1>1, UnstampedSteps
    <2>2. Counted' = Counted
      BY <2>1 DEF Counted, Unstamped
    <2> QED  BY <2>1, <2>2 DEF CounterInv, Unstamped
  (* Nobody else has a stamp in hand.                                      *)
  <1>2. ASSUME stamp(c) \/ Publish(c) \/ Assign(c), NEW d \in Client \ {c}
        PROVE  pc'[d] = pc[d] /\ pc[d] \notin {"stampStore", "publish", "assign"}
    <2>1. c \in Busy /\ pc'[d] = pc[d]
      BY <1>0, <1>2 DEF stamp, StampLoad, StampStore, StampReturn, Publish, Assign, Goto,
                        Busy, Waiting, TypeOK
    <2> QED  BY <2>1 DEF Alone, Busy, Waiting
  <1>3. CASE stamp(c)
    <2>0. Counted' = Counted
      BY <1>3 DEF Counted, stamp, StampLoad, StampStore, StampReturn
    <2>1. CASE StampLoad(c)
      <3>1. /\ UNCHANGED serverCounter
            /\ reg'[c] = serverCounter /\ pc'[c] = "stampStore"
        BY <1>0, <2>1 DEF StampLoad, Goto, TypeOK
      <3> QED  BY <1>2, <1>3, <2>0, <3>1 DEF CounterInv
    <2>2. CASE StampStore(c)
      <3>1. /\ serverCounter' = reg[c] + 1
            /\ pc[c] = "stampStore" /\ pc'[c] = "stampReturn"
        BY <1>0, <2>2 DEF StampStore, Goto, TypeOK
      <3>2. Upto(Counted, serverCounter')
        BY <3>1, TimeTypes DEF CounterInv, Upto, Counted
      <3> QED  BY <1>2, <1>3, <2>0, <3>1, <3>2 DEF CounterInv
    <2>3. CASE StampReturn(c)
      <3>1. /\ UNCHANGED serverCounter
            /\ reg'[c] = serverCounter /\ pc'[c] = "publish"
        BY <1>0, <2>3 DEF StampReturn, Goto, TypeOK
      <3>2. reg'[c] <= serverCounter'
        BY <3>1, TimeTypes
      <3> QED  BY <1>2, <1>3, <2>0, <3>1, <3>2 DEF CounterInv
    <2> QED  BY <1>3, <2>1, <2>2, <2>3 DEF stamp
  <1>4. CASE Publish(c)
    <2>1. /\ UNCHANGED <<serverCounter, posted, reg>>
          /\ pc[c] = "publish" /\ pc'[c] = "assign"
      BY <1>0, <1>4 DEF Publish, Goto, TypeOK
    <2>2. Counted' = Counted
      BY <2>1 DEF Counted
    <2> QED  BY <1>2, <1>4, <2>1, <2>2 DEF CounterInv
  <1>5. CASE Assign(c)
    <2>1. /\ UNCHANGED serverCounter /\ pc[c] = "assign" /\ pc'[c] = "recent"
          /\ posted' = posted \cup {Recved(c)}
          /\ Recved(c).timestamp = reg[c]
          /\ \A d \in Client \ {c} : reg'[d] = reg[d]
      BY <1>0, <1>5 DEF Assign, Goto, Recved, TypeOK
    <2>2. CASE saver \in {"none", "copy"}
      <3>1. Upto(posted', serverCounter)
        BY <2>1, <2>2 DEF CounterInv, Counted, Upto
      <3> QED  BY <1>2, <1>5, <2>1, <2>2, <3>1 DEF CounterInv, Counted
    <2>3. CASE saver \notin {"none", "copy"}
      <3>1. Counted' = Counted
        BY <2>3 DEF Counted
      <3> QED  BY <1>2, <1>5, <2>1, <2>3, <3>1 DEF CounterInv
    <2> QED  BY <2>2, <2>3
  <1> QED  BY <1>1, <1>3, <1>4, <1>5

LEMMA TimeServe ==
  ASSUME PTypeOK, Serial, TimeInv, Serve
  PROVE  TimeInv'
  <1>0. TypeOK
    BY DEF PTypeOK
  <1>1. PICK c \in Client : Handler(c) \/ Calls(c)
    BY DEF Serve, Next
  <1>2. UNCHANGED <<disk, saver, db, held, intact>>
    BY DEF Serve, Beside
  <1>3. Alone' /\ AllPosted' /\ posted \subseteq posted'
    BY <1>0, <1>1, AloneStep, PostedNext, PostedLists DEF TimeInv
  <1>4. up
    BY <1>1, AliveStep
  <1>5. intact => CounterInv'
    BY <1>1, <1>2, <1>4, CounterServe DEF TimeInv
  <1> QED  BY <1>2, <1>3, <1>5 DEF TimeInv

(* A step of the save, beside the handlers.                                *)
LEMMA TimeSave ==
  ASSUME PTypeOK, TimeInv, Signal \/ SecondSignal \/ TimelinesToDisk \/ Die
  PROVE  TimeInv'
  <1> USE DEF Step
  <1>1. UNCHANGED <<timelineList, pc, reg, messages, tested, posted, intact>>
    BY DEF Signal, SecondSignal, TimelinesToDisk, CopyTimeline, CopyDone, LoadCounter,
           StoreCounter, SetCounter, Open, WritePart, WriteDB, Exit, Die, vars, lists,
           round, scan, save
  <1>2. Alone' /\ AllPosted'
    BY <1>1 DEF TimeInv, Alone, Busy, AllPosted
  <1>3. /\ PostsOf(db.timelines) \subseteq posted
        /\ intact /\ saver \notin {"write", "stuck"} =>
             Upto(PostsOf(disk.timelines), disk.counter)
        /\ up /\ intact => CounterInv
    BY DEF TimeInv
  <1>4. CASE Signal \/ SecondSignal
    <2>1. /\ up /\ UNCHANGED <<disk, db, serverCounter>>
          /\ saver' \in {"copy", "stuck"}
          /\ saver' = "copy" => saver = "none"
      BY <1>4 DEF Signal, SecondSignal, vars
    <2>2. Counted' \subseteq Counted
      BY <1>1, <1>3, <2>1 DEF Counted
    <2>3. intact => CounterInv'
      BY <1>1, <1>3, <2>1, <2>2 DEF CounterInv, Upto
    <2>4. intact' /\ saver' \notin {"write", "stuck"} =>
            Upto(PostsOf(disk'.timelines), disk'.counter)
      BY <1>1, <1>3, <2>1
    <2> QED  BY <1>1, <1>2, <1>3, <2>1, <2>3, <2>4 DEF TimeInv
  <1>5. CASE CopyTimeline
    <2> DEFINE n == Len(db.timelines) + 1
               longer == Append(db.timelines, timelineList[n])
    <2>1. /\ timelineList \in Seq(Timelines) /\ db.timelines \in Seq(Timelines)
          /\ n \in DOMAIN timelineList
      BY <1>5, LenProperties DEF CopyTimeline, PTypeOK, TypeOK, File
    <2>2. timelineList[n] \in Timelines /\ Whole(timelineList[n].statuses) \subseteq posted
      BY <2>1, ElementType DEF TimeInv, AllPosted
    <2>3. PostsOf(longer) \subseteq posted
      BY <1>3, <2>1, <2>2, CopyKeeps
    <2>4. db' = [db EXCEPT !.timelines = longer]
      BY <1>5 DEF CopyTimeline
    <2> HIDE DEF longer
    <2>5. db'.timelines = longer
      BY <2>4 DEF PTypeOK, File
    <2>6. /\ saver = "copy" /\ saver' = "copy" /\ UNCHANGED <<up, disk, serverCounter>>
      BY <1>5 DEF CopyTimeline, vars
    <2>7. Counted = posted /\ Counted' = posted
      BY <1>1, <2>6 DEF Counted
    <2>8. up /\ intact => CounterInv'
      BY <1>1, <1>3, <2>6, <2>7 DEF CounterInv
    <2> QED  BY <1>1, <1>2, <1>3, <2>3, <2>5, <2>6, <2>8 DEF TimeInv
  <1>6. CASE CopyDone
    <2>1. /\ saver = "copy" /\ saver' = "load"
          /\ UNCHANGED <<up, disk, db, serverCounter>>
      BY <1>6 DEF CopyDone, vars
    <2>2. Counted' \subseteq Counted
      BY <1>3, <2>1 DEF Counted
    <2>3. up /\ intact => CounterInv'
      BY <1>1, <1>3, <2>1, <2>2 DEF CounterInv, Upto
    <2> QED  BY <1>1, <1>2, <1>3, <2>1, <2>3 DEF TimeInv
  <1>7. CASE LoadCounter \/ StoreCounter \/ SetCounter
    <2>1. /\ saver \in {"load", "store", "set"} /\ saver' \in {"store", "set", "open"}
          /\ UNCHANGED <<up, disk>> /\ db'.timelines = db.timelines
      BY <1>7 DEF LoadCounter, StoreCounter, SetCounter, vars, PTypeOK, File
    <2>2. Counted' = Counted
      BY <2>1 DEF Counted
    <2>3. ASSUME CounterInv
          PROVE  /\ Upto(Counted, serverCounter')
                 /\ saver' = "store" => Upto(Counted, held')
                 /\ saver' = "open" => Upto(Counted, db'.counter)
      <3>1. CASE LoadCounter
        BY <2>3, <3>1 DEF LoadCounter, CounterInv, vars
      <3>2. CASE StoreCounter
        <4>1. saver = "store" /\ saver' = "set" /\ serverCounter' = held + 10
          BY <3>2 DEF StoreCounter
        <4>2. \A s \in Counted : s.timestamp <= held /\ s.timestamp \in Nat
          BY <2>3, <4>1, TimeTypes DEF CounterInv, Upto, Counted
        <4> QED  BY <4>1, <4>2, TimeTypes DEF Upto
      <3>3. CASE SetCounter
        <4>1. db'.counter = serverCounter /\ serverCounter' = serverCounter
              /\ saver' = "open"
          BY <3>3 DEF SetCounter, vars, PTypeOK, File
        <4> QED  BY <2>3, <4>1 DEF CounterInv
      <3> QED  BY <1>7, <3>1, <3>2, <3>3
    <2>4. up /\ intact => CounterInv'
      BY <1>1, <1>3, <2>1, <2>2, <2>3 DEF CounterInv
    <2> QED  BY <1>1, <1>2, <1>3, <2>1, <2>4 DEF TimeInv
  <1>8. CASE Open \/ WritePart \/ WriteDB
    <2>1. /\ up /\ UNCHANGED <<up, db, serverCounter>>
          /\ saver \in {"open", "write"} /\ saver' \in {"write", "failed", "exit"}
          /\ \/ saver' = "write"
             \/ saver' = "failed" /\ saver = "open" /\ disk' = disk
             \/ saver' = "exit" /\ disk' = db
      BY <1>8 DEF Open, WritePart, WriteDB, vars
    <2>2. Counted = PostsOf(db.timelines) /\ Counted' = Counted
      BY <2>1 DEF Counted
    <2>3. intact => CounterInv'
      BY <1>1, <1>3, <2>1, <2>2 DEF CounterInv
    <2>4. intact /\ saver' # "write" => Upto(PostsOf(disk'.timelines), disk'.counter)
      BY <1>3, <2>1, <2>2 DEF CounterInv
    <2> QED  BY <1>1, <1>2, <1>3, <2>1, <2>3, <2>4 DEF TimeInv
  <1>9. CASE Exit \/ Die
    <2>1. /\ ~up' /\ UNCHANGED <<disk, db>>
          /\ saver' \notin {"write", "stuck"} => saver \notin {"write", "stuck"}
      BY <1>9 DEF Exit, Die, save
    <2> QED  BY <1>1, <1>2, <1>3, <2>1 DEF TimeInv
  <1> QED  BY <1>4, <1>5, <1>6, <1>7, <1>8, <1>9 DEF TimelinesToDisk

(* A new server goes on from the file.                                     *)
LEMMA TimeRestart ==
  ASSUME PTypeOK, TimeInv, Restart
  PROVE  TimeInv'
  <1>1. \A c \in Client : pc'[c] \in {"start", "command"}
    BY DEF Restart, AfterLoss
  <1>2. Alone'
    BY <1>1 DEF Alone, Busy, Waiting
  <1>3. /\ timelineList' = disk.timelines /\ posted' = PostsOf(disk.timelines)
        /\ serverCounter' = disk.counter /\ disk' = disk /\ saver' = "none"
        /\ messages' = [c \in Client |-> {}] /\ tested' = [c \in Client |-> {}]
        /\ db' = NewDB
        /\ intact' => intact /\ saver \notin {"write", "stuck"}
    BY DEF Restart
  <1>4. AllPosted'
    BY <1>3 DEF AllPosted, PostsOf, Whole
  <1>5. PostsOf(db'.timelines) = {}
    BY <1>3 DEF PostsOf, NewDB
  <1>6. intact' => Upto(posted', serverCounter')
    BY <1>3 DEF TimeInv
  <1>7. intact' => CounterInv'
    BY <1>1, <1>3, <1>6 DEF CounterInv, Counted
  <1> QED  BY <1>2, <1>3, <1>4, <1>5, <1>6, <1>7 DEF TimeInv

(* "Ensure the server time is later than any message": when handlers do    *)
(* not overlap each other, however they overlap the save, no message in a  *)
(* complete file has a stamp above the counter in it, through any number   *)
(* of servers that found such a file.                                      *)
THEOREM SavedTime ==
  Serial /\ LoadedStamps => (PSpec => []SavedTimeIsLatest)
  <1> SUFFICES ASSUME Serial, LoadedStamps PROVE PSpec => []SavedTimeIsLatest
    OBVIOUS
  <1> DEFINE Inv == PTypeOK /\ TimeInv
  <1>1. PInit => Inv
    <2> SUFFICES ASSUME PInit PROVE TimeInv
      BY PTypeInit
    <2>1. Alone /\ AllPosted /\ StampsAreLatest
      BY InvInit, StampInit DEF PInit, ChatInv, StampInv
    <2>2. PostsOf(db.timelines) = {}
      BY DEF PInit, PostsOf, NewDB
    <2>3. PostsOf(disk.timelines) = posted /\ disk.counter = serverCounter
      BY ServerAssumption DEF PInit, Init, PostsOf
    <2>4. Upto(posted, serverCounter)
      BY <2>1 DEF StampsAreLatest, Upto
    <2>5. CounterInv
      BY <2>4 DEF PInit, Init, CounterInv, Counted
    <2> QED  BY <2>1, <2>2, <2>3, <2>4, <2>5 DEF TimeInv
  <1>2. Inv /\ [PNext]_pvars => Inv'
    <2> SUFFICES ASSUME Inv, [PNext]_pvars PROVE TimeInv'
      BY PTypeNext
    <2>1. CASE UNCHANGED pvars
      BY <2>1 DEF pvars, save, vars, lists, round, scan, TimeInv, Alone, Busy, AllPosted,
                  CounterInv, Counted
    <2> QED  BY <2>1, TimeServe, TimeSave, TimeRestart DEF PNext
  <1>3. Inv => SavedTimeIsLatest
    BY DEF TimeInv, SavedTimeIsLatest, Upto
  <1> HIDE DEF Inv
  <1> QED  BY <1>1, <1>2, <1>3, PTL DEF PSpec

=============================================================================
