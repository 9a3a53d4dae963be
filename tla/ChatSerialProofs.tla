-------------------------- MODULE ChatSerialProofs --------------------------
(***************************************************************************)
(* Proofs about ChatServer when its handlers do not overlap, for any       *)
(* finite set of clients, any names and any bounds.                        *)
(***************************************************************************)
EXTENDS ChatServerProofs, FiniteSetTheorems

Serial == MaxActive = 1 /\ IsFiniteSet(Client)

(* The handlers that have accesses left to make.  A handler whose client   *)
(* was killed has none, and may be there beside another.                   *)
Busy == {c \in Client : pc[c] \notin Waiting \cup {"end"}}

Alone == \A c, d \in Busy : c = d

-----------------------------------------------------------------------------
(* Mutual exclusion.                                                       *)

(* A call finds nobody busy.                                               *)
LEMMA CallFindsNone ==
  ASSUME Serial, NEW c \in Client, NEW from, NEW to, Call(c, from, to)
  PROVE  Busy = {}
  <1>1. Active \in SUBSET Client
    BY DEF Active
  <1>2. IsFiniteSet(Active) /\ Cardinality(Active) \in Nat
    BY <1>1, FS_Subset, FS_CardinalityType DEF Serial
  <1>3. Cardinality(Active) = 0
    BY <1>2 DEF Call, Serial
  <1>4. Active = {}
    BY <1>2, <1>3, FS_EmptySet
  <1> QED  BY <1>4 DEF Active, Busy, Waiting

(* The step of a handler, or of a client that ends: the thread is alone if *)
(* it is busy, and stays so.                                               *)
LEMMA HandlerMoves ==
  ASSUME TypeOK, NEW c \in Client, Handler(c) \/ Kill(c)
  PROVE  /\ \A d \in Client \ {c} : pc'[d] = pc[d]
         /\ c \in Busy \/ pc'[c] \in Waiting \cup {"end"}
         /\ pc'[c] \in Stage
  <1> USE DEF TypeOK, Goto, Stage, Waiting, Busy
  <1>1. CASE User(c)
    BY <1>1 DEF User, CheckUser, PushUser, PushTimeline
  <1>2. CASE Join(c)
    BY <1>2 DEF Join, JoinFind, FindOwn, JoinTest, JoinAdd, JoinAssign, Reply
  <1>3. CASE Leave(c)
    BY <1>3 DEF Leave, LeaveFind, FindOwn, LeaveNobody, LeaveCopy, LeaveClear,
                LeaveMerge, Reply
  <1>4. CASE List(c) \/ Crash(c) \/ EndChat(c) \/ Kill(c)
    BY <1>4 DEF List, Crash, EndChat, Kill
  <1>5. CASE Hello(c) \/ FindMailbox(c) \/ Publish(c) \/ Assign(c) \/ Recent(c)
    BY <1>5 DEF Hello, FindMailbox, Publish, Assign, Recent
  <1>7. CASE Gathering(c)
    BY <1>7 DEF Gathering, GatherNext, GatherTest, GatherCopy, GatherEnd, GatherDone
  <1>6. CASE stamp(c) \/ WriteNext(c) \/ WriteDone(c)
    BY <1>6 DEF stamp, StampLoad, StampStore, StampReturn, WriteNext, WriteDone
  <1> QED
    BY <1>1, <1>2, <1>3, <1>4, <1>5, <1>6, <1>7
       DEF Handler, chat, getRecentMessages, Gathering

(* The step of a call.                                                     *)
LEMMA CallMoves ==
  ASSUME TypeOK, Serial, NEW c \in Client, Calls(c), ~Kill(c)
  PROVE  /\ \A d \in Client \ {c} : pc'[d] = pc[d]
         /\ Busy = {}
         /\ pc'[c] \in {"checkUser", "joinFind", "leaveFind", "list", "hello",
                        "mailbox"}
  <1>1. PICK from \in Stage, to \in {"checkUser", "joinFind", "leaveFind", "list",
                                     "hello", "mailbox"} : Call(c, from, to)
    BY DEF Calls, CallUser, CallJoin, CallLeave, CallList, CallChat, CallMessage,
           Stage, Waiting
  <1>2. Busy = {}
    BY <1>1, CallFindsNone
  <1> QED  BY <1>1, <1>2 DEF Call, Goto, TypeOK

(* Whoever steps, nobody else is busy, unless the step only ends a chat.   *)
LEMMA AloneStep ==
  ASSUME TypeOK, Serial, Alone, NEW c \in Client, Handler(c) \/ Calls(c)
  PROVE  Alone'
  <1>1. CASE Handler(c) \/ Kill(c)
    <2>1. Busy' \subseteq Busy
      BY <1>1, HandlerMoves DEF Busy, Stage, Waiting
    <2> QED  BY <2>1 DEF Alone
  <1>2. CASE Calls(c) /\ ~Kill(c)
    <2>1. Busy' \subseteq {c}
      BY <1>2, CallMoves DEF Busy, Stage, Waiting
    <2> QED  BY <2>1 DEF Alone
  <1> QED  BY <1>1, <1>2

-----------------------------------------------------------------------------
(* Stamps.                                                                 *)

(* The loaded posts have distinct stamps up to the loaded counter, as in a *)
(* file that was saved.                                                    *)
LoadedStamps ==
  \A i, j \in DOMAIN Loaded.timelines :
    \A s \in Loaded.timelines[i].statuses, t \in Loaded.timelines[j].statuses :
      s.timestamp <= Loaded.counter /\ (s.timestamp = t.timestamp => s = t)

(* A thread inside of stamp() has loaded the counter, and until it stores  *)
(* its message no message has the stamp it was given.                      *)
StampInv ==
  /\ StampsAreLatest
  /\ \A c \in Client :
       /\ pc[c] \in {"stampStore", "publish", "assign"} => reg[c] = serverCounter
       /\ pc[c] \in {"stampReturn", "publish", "assign"} =>
            \A s \in posted : s.timestamp < serverCounter

(* A step that stamps and stores nothing.                                  *)
Unstamped(c) ==
  /\ UNCHANGED <<serverCounter, posted, reg>>
  /\ \A d \in Client \ {c} : pc'[d] = pc[d]
  /\ pc'[c] = pc[c] \/ pc'[c] \notin {"stampStore", "stampReturn", "publish", "assign"}

LEMMA UnstampedSteps ==
  ASSUME TypeOK, NEW c \in Client, Handler(c) \/ Calls(c),
         ~stamp(c), ~Publish(c), ~Assign(c)
  PROVE  Unstamped(c)
  <1> USE DEF Unstamped, TypeOK, Goto
  <1>1. CASE User(c)
    BY <1>1 DEF User, CheckUser, PushUser, PushTimeline
  <1>2. CASE Join(c)
    BY <1>2 DEF Join, JoinFind, FindOwn, JoinTest, JoinAdd, JoinAssign, Reply
  <1>3. CASE Leave(c)
    BY <1>3 DEF Leave, LeaveFind, FindOwn, LeaveNobody, LeaveCopy, LeaveClear,
                LeaveMerge, Reply
  <1>4. CASE List(c) \/ Crash(c) \/ EndChat(c)
    BY <1>4 DEF List, Crash, EndChat
  <1>5. CASE Calls(c)
    BY <1>5 DEF Calls, Call, CallUser, CallJoin, CallLeave, CallList, CallChat,
                CallMessage, Kill
  <1>6. CASE Hello(c) \/ FindMailbox(c) \/ Recent(c)
    BY <1>6 DEF Hello, FindMailbox, Recent
  <1>7. CASE WriteNext(c) \/ WriteDone(c)
    BY <1>7 DEF WriteNext, WriteDone
  <1>8. CASE Gathering(c)
    BY <1>8 DEF Gathering, GatherNext, GatherTest, GatherCopy, GatherEnd, GatherDone
  <1> QED
    BY <1>1, <1>2, <1>3, <1>4, <1>5, <1>6, <1>7, <1>8
       DEF Handler, chat, getRecentMessages, Gathering

LEMMA StampStep ==
  ASSUME TypeOK, Alone, StampInv, NEW c \in Client, Handler(c) \/ Calls(c)
  PROVE  StampInv'
  <1>1. CASE ~stamp(c) /\ ~Publish(c) /\ ~Assign(c)
    <2>1. Unstamped(c)
      BY <1>1, UnstampedSteps
    <2> QED  BY <2>1 DEF StampInv, StampsAreLatest, Unstamped
  (* Nobody else has a stamp in hand.                                      *)
  <1>2. ASSUME stamp(c) \/ Publish(c) \/ Assign(c), NEW d \in Client \ {c}
        PROVE  /\ pc'[d] = pc[d]
               /\ pc[d] \notin {"stampLoad", "stampStore", "stampReturn", "publish",
                            "assign"}
    <2>1. c \in Busy /\ pc'[d] = pc[d]
      BY <1>2 DEF stamp, StampLoad, StampStore, StampReturn, Publish, Assign, Goto,
                  Busy, Waiting, TypeOK
    <2> QED  BY <2>1 DEF Alone, Busy, Waiting
  <1>3. CASE StampLoad(c)
    <2>1. /\ UNCHANGED <<serverCounter, posted>>
          /\ reg'[c] = serverCounter /\ pc'[c] = "stampStore"
      BY <1>3 DEF StampLoad, Goto, TypeOK
    <2> QED  BY <1>2, <1>3, <2>1 DEF StampInv, StampsAreLatest, stamp
  <1>10. serverCounter \in Nat /\ \A s \in posted : s.timestamp \in Nat
    BY DEF TypeOK, Stats
  <1>11. /\ \A s \in posted : s.timestamp <= serverCounter
         /\ \A s, t \in posted : s.timestamp = t.timestamp => s = t
    BY DEF StampInv, StampsAreLatest
  <1>4. CASE StampStore(c)
    <2>1. /\ UNCHANGED posted /\ pc'[c] = "stampReturn"
          /\ serverCounter' = serverCounter + 1
      BY <1>4 DEF StampStore, Goto, TypeOK, StampInv
    <2>2. \A s \in posted : s.timestamp < serverCounter'
      BY <1>10, <1>11, <2>1
    <2>3. \A s \in posted : s.timestamp <= serverCounter'
      BY <1>10, <2>2, <2>1
    <2> QED  BY <1>2, <1>4, <2>1, <2>2, <2>3 DEF StampInv, StampsAreLatest, stamp
  <1>5. CASE StampReturn(c)
    <2>1. /\ UNCHANGED <<serverCounter, posted>>
          /\ reg'[c] = serverCounter /\ pc'[c] = "publish" /\ pc[c] = "stampReturn"
      BY <1>5 DEF StampReturn, Goto, TypeOK
    <2> QED  BY <1>2, <1>5, <2>1 DEF StampInv, StampsAreLatest, stamp
  <1>7. CASE Publish(c)
    <2>1. /\ UNCHANGED <<serverCounter, posted, reg>>
          /\ pc[c] = "publish" /\ pc'[c] = "assign"
      BY <1>7 DEF Publish, Goto, TypeOK
    <2> QED  BY <1>2, <1>7, <2>1 DEF StampInv, StampsAreLatest
  <1>6. CASE Assign(c)
    <2>1. /\ UNCHANGED serverCounter /\ pc[c] = "assign" /\ pc'[c] = "recent"
          /\ Recved(c).timestamp = serverCounter
      BY <1>6 DEF Assign, Goto, TypeOK, StampInv, Recved
    <2>2. posted' \subseteq posted \cup {Recved(c)} /\ Recved(c) \in Stats
      BY <1>6, AssignEffect
    <2>3. \A s \in posted : s.timestamp < serverCounter
      BY <2>1 DEF StampInv
    <2> DEFINE r == Recved(c)
    <2>4. StampsAreLatest'
      <3>1. r.timestamp = serverCounter /\ posted' \subseteq posted \cup {r}
        BY <2>1, <2>2
      <3> HIDE DEF r
      <3>2. \A s \in posted' : s.timestamp <= serverCounter
        BY <1>10, <1>11, <3>1
      <3>3. ASSUME NEW s \in posted', NEW t \in posted', s.timestamp = t.timestamp
            PROVE  s = t
        BY <1>10, <1>11, <2>3, <3>1, <3>3
      <3> QED  BY <2>1, <3>2, <3>3 DEF StampsAreLatest
    <2> QED  BY <1>2, <1>6, <2>1, <2>4 DEF StampInv
  <1> QED  BY <1>1, <1>3, <1>4, <1>5, <1>6, <1>7 DEF stamp

LEMMA StampInit == ASSUME Init, LoadedStamps PROVE Alone /\ StampInv
  BY DEF Init, LoadedStamps, Alone, Busy, Waiting, StampInv, StampsAreLatest

(* Handlers that do not overlap stamp every message with a time of its own *)
(* that is later than all before, whatever is typed, for any number of     *)
(* clients, with shared names or without.                                  *)
LEMMA SerialStamps == Serial /\ LoadedStamps => (Spec => []StampsAreLatest)
  <1> SUFFICES ASSUME Serial, LoadedStamps PROVE Spec => []StampsAreLatest
    OBVIOUS
  <1>1. Init => TypeOK /\ Alone /\ StampInv
    BY TypeInit, StampInit
  <1>2. TypeOK /\ Alone /\ StampInv /\ [Next]_vars => (TypeOK /\ Alone /\ StampInv)'
    <2> SUFFICES ASSUME TypeOK, Alone, StampInv, [Next]_vars
                 PROVE  TypeOK' /\ Alone' /\ StampInv'
      OBVIOUS
    <2>1. TypeOK'
      BY TypeNext
    <2>2. CASE UNCHANGED vars
      BY <2>1, <2>2 DEF vars, Alone, Busy, StampInv, StampsAreLatest
    <2>3. CASE Next
      BY <2>1, <2>3, AloneStep, StampStep DEF Next
    <2> QED  BY <2>2, <2>3
  <1>3. TypeOK /\ Alone /\ StampInv => StampsAreLatest
    BY DEF StampInv
  <1> QED  BY <1>1, <1>2, <1>3, PTL DEF Spec

-----------------------------------------------------------------------------
(* Users and timelines.                                                    *)

(* The stages at which a handler holds the index of its user's timeline,   *)
(* those at which its user has logged in, and those at which it holds a    *)
(* pointer into the list of timelines.                                     *)
SlotStages ==
  {"joinTest", "joinAdd", "joinAssign", "leaveCopy", "leaveClear", "leaveMerge",
   "stampLoad", "stampStore", "stampReturn", "publish", "assign"}
Enrolled == Stage \ {"start", "checkUser", "pushUser", "pushTimeline", "end"}

Pointed == {"joinAssign", "stampLoad", "stampStore", "stampReturn", "publish", "assign"}

(* The string or the status that a handler has added and is to assign to.  *)
Added(c) ==
  LET t == timelineList[slot[c]]
  IN  /\ pc[c] = "joinAssign" =>
           /\ hold[c] \in DOMAIN t.subscribed /\ hold[c] = Len(t.subscribed)
           /\ t.subscribed[hold[c]] = NoName
      /\ pc[c] = "assign" => Blank(c) \in t.statuses

HandInv(c) ==
  /\ pc[c] = "pushUser" => ~checkUserList(userList, NameOf[c])
  /\ pc[c] = "pushTimeline" => userList[Len(userList)] = NameOf[c]
  /\ pc[c] \in SlotStages =>
       slot[c] \in DOMAIN timelineList /\ userList[slot[c]] = NameOf[c]
  /\ pc[c] = "leaveMerge" => timelineList[slot[c]] = EmptyTimeline(NoName)
  /\ pc[c] \in Pointed => storage[c] = Len(timelineList)
  /\ Added(c)
  /\ pc[c] \in Enrolled => checkUserList(userList, NameOf[c])

Leaving(i) == \E c \in Client : pc[c] = "leaveMerge" /\ slot[c] = i
Pushing == \E c \in Client : pc[c] = "pushTimeline"

(* The lists go in step, but for a user whose timeline is yet to be pushed *)
(* and a timeline that is being assigned to.                               *)
ListsInStep ==
  /\ \A i, j \in DOMAIN userList : userList[i] = userList[j] => i = j
  /\ Len(userList) = IF Pushing THEN Len(timelineList) + 1 ELSE Len(timelineList)
  /\ \A i \in DOMAIN timelineList : timelineList[i].name = userList[i] \/ Leaving(i)

RosterInv == ListsInStep /\ \A c \in Client : HandInv(c)

(* The loaded names are distinct, as in a file that was saved.             *)
LoadedRoster ==
  \A i, j \in DOMAIN Loaded.timelines :
    Loaded.timelines[i].name = Loaded.timelines[j].name => i = j

LEMMA Domains ==
  ASSUME TypeOK
  PROVE  /\ DOMAIN userList = 1 .. Len(userList) /\ Len(userList) \in Nat
         /\ DOMAIN timelineList = 1 .. Len(timelineList) /\ Len(timelineList) \in Nat
  BY LenProperties DEF TypeOK

(* When c is busy, other handlers hold nothing and keep what they have.    *)
LEMMA OthersKeep ==
  ASSUME TypeOK, Alone, RosterInv, NEW c \in Busy, Handler(c),
         NEW d \in Client \ {c}
  PROVE  /\ pc'[d] = pc[d] /\ pc[d] \in Waiting \cup {"end"}
         /\ HandInv(d)'
  <1>1. c \in Client /\ pc'[d] = pc[d]
    BY HandlerMoves DEF Busy
  <1>2. pc[d] \in Waiting \cup {"end"}
    BY DEF Alone, Busy
  <1>3. checkUserList(userList, NameOf[d]) => checkUserList(userList', NameOf[d])
    BY <1>1, UsersGrow
  <1> QED
    BY <1>1, <1>2, <1>3 DEF RosterInv, HandInv, Added, Pointed, Waiting, SlotStages

(* The search for the caller's timeline finds the one at its user's place. *)
LEMMA FindsOwn ==
  ASSUME TypeOK, Alone, RosterInv, NEW c \in Busy,
         pc[c] \in Enrolled, pc[c] # "leaveMerge"
  PROVE  /\ OwnIndex(timelineList, NameOf[c]) \in DOMAIN timelineList
         /\ userList[OwnIndex(timelineList, NameOf[c])] = NameOf[c]
         /\ getTimelinePointer(timelineList, NameOf[c])
              = OwnIndex(timelineList, NameOf[c])
  <1>1. \A d \in Client : pc[d] \notin {"pushTimeline", "leaveMerge"}
    BY DEF Alone, Busy, Waiting, Enrolled, Stage
  <1>2. /\ DOMAIN timelineList = DOMAIN userList
        /\ \A i \in DOMAIN timelineList : timelineList[i].name = userList[i]
    BY <1>1, Domains DEF RosterInv, ListsInStep, Pushing, Leaving
  <1>3. PICK k \in DOMAIN userList : userList[k] = NameOf[c]
    BY DEF RosterInv, HandInv, Busy, checkUserList
  <1> DEFINE P == {i \in DOMAIN timelineList : timelineList[i].name = NameOf[c]}
  <1>4. P = {k}
    BY <1>2, <1>3 DEF RosterInv, ListsInStep
  <1>5. k \in Nat
    BY <1>3, Domains
  <1>6. ASSUME NEW default PROVE FirstOf(P, default) = k
    BY <1>4, <1>5 DEF FirstOf
  <1>7. OwnIndex(timelineList, NameOf[c]) = k /\ getTimelinePointer(timelineList, NameOf[c]) = k
    BY <1>6 DEF OwnIndex, getTimelinePointer
  <1> QED  BY <1>2, <1>3, <1>7

LEMMA RosterInit == ASSUME Init, LoadedRoster PROVE RosterInv
  <1>1. Loaded.timelines \in Seq(Timelines)
    BY ServerAssumption
  <1>2. /\ DOMAIN Loaded.timelines = 1 .. Len(Loaded.timelines)
        /\ Len(Loaded.timelines) \in Nat
    BY <1>1, LenProperties
  <1>3. /\ DOMAIN userList = DOMAIN timelineList
        /\ \A i \in DOMAIN timelineList : timelineList[i].name = userList[i]
        /\ timelineList = Loaded.timelines /\ \A c \in Client : pc[c] = "start"
    BY DEF Init
  <1>4. TypeOK
    BY TypeInit
  <1>5. Len(userList) = Len(timelineList)
    BY <1>3, <1>4, Domains
  <1> QED
    BY <1>3, <1>5 DEF LoadedRoster, RosterInv, ListsInStep, Pushing, HandInv,
                      Added, Pointed, SlotStages, Enrolled

(* A step that changes neither list, takes no new timeline in hand, and    *)
(* leaves no place where the lists are out of step.                        *)
SameHand(d) ==
  /\ pc'[d] = pc[d] /\ slot'[d] = slot[d] /\ storage'[d] = storage[d]
  /\ hold'[d] = hold[d] /\ taken'[d] = taken[d]

Untouched(c) ==
  /\ UNCHANGED lists
  /\ \A d \in Client \ {c} : SameHand(d)
  /\ \/ SameHand(c)
     \/ /\ pc[c] \notin {"pushTimeline", "leaveMerge"}
        /\ pc'[c] \notin {"pushUser", "pushTimeline", "leaveMerge", "joinAssign",
                          "assign"}
        /\ pc'[c] \in SlotStages => pc[c] \in SlotStages /\ slot'[c] = slot[c]
        /\ pc'[c] \in Pointed => pc[c] \in Pointed /\ storage'[c] = storage[c]
        /\ pc'[c] \in Enrolled => pc[c] \in Enrolled

LEMMA UntouchedRoster ==
  ASSUME RosterInv, NEW c \in Client, Untouched(c)
  PROVE  RosterInv'
  <1>1. Pushing' = Pushing /\ \A i : Leaving(i)' = Leaving(i)
    BY DEF Untouched, SameHand, Pushing, Leaving
  <1>2. ListsInStep'
    BY <1>1 DEF RosterInv, ListsInStep, Untouched, lists
  <1>3. ASSUME NEW d \in Client PROVE HandInv(d)'
    <2>1. HandInv(d)
      BY DEF RosterInv
    <2>2. CASE SameHand(d)
      BY <2>1, <2>2 DEF HandInv, Added, Blank, SameHand, Untouched, lists
    <2>3. CASE ~SameHand(d)
      <3>1. d = c
        BY <2>3 DEF Untouched
      <3> QED  BY <2>1, <2>3, <3>1 DEF HandInv, Added, Untouched, lists
    <2> QED  BY <2>2, <2>3
  <1> QED  BY <1>2, <1>3 DEF RosterInv

(* The steps that are not so.                                              *)
Touching(c) ==
  \/ CheckUser(c) \/ PushUser(c) \/ PushTimeline(c) \/ JoinAdd(c) \/ JoinAssign(c)
  \/ LeaveClear(c) \/ LeaveMerge(c) \/ FindMailbox(c) \/ Publish(c) \/ Assign(c)
  \/ (JoinFind(c) \/ LeaveFind(c)) /\ ~Refused(c)

LEMMA UntouchedSteps ==
  ASSUME TypeOK, NEW c \in Client, Handler(c) \/ Calls(c), ~Touching(c)
  PROVE  Untouched(c)
  <1> USE DEF Untouched, SameHand, TypeOK, Goto, lists, unary, pointer, stream,
              SlotStages, Pointed, Enrolled, Stage, Waiting
  <1>1. CASE Join(c)
    <2>1. CASE JoinFind(c)
      BY <2>1 DEF Touching, JoinFind, FindOwn, Reply, DropPointer
    <2>2. CASE JoinTest(c)
      BY <2>2 DEF JoinTest, Reply, DropPointer
    <2> QED  BY <1>1, <2>1, <2>2 DEF Join, Touching
  <1>2. CASE Leave(c)
    <2>1. CASE LeaveFind(c)
      BY <2>1 DEF Touching, LeaveFind, FindOwn, Reply, DropPointer
    <2>2. CASE LeaveNobody(c)
      BY <2>2 DEF LeaveNobody, Reply, DropPointer
    <2>3. CASE LeaveCopy(c)
      BY <2>3 DEF LeaveCopy
    <2> QED  BY <1>2, <2>1, <2>2, <2>3 DEF Leave, Touching
  <1>3. CASE List(c) \/ Crash(c) \/ EndChat(c)
    BY <1>3 DEF List, Crash, EndChat
  <1>4. CASE Calls(c)
    BY <1>4 DEF Calls, Call, CallUser, CallJoin, CallLeave, CallList, CallChat,
                CallMessage, Kill
  <1>5. CASE Hello(c) \/ Recent(c)
    BY <1>5 DEF Hello, Recent, TakePointer
  <1>6. CASE Gathering(c)
    BY <1>6 DEF Gathering, GatherNext, GatherTest, GatherCopy, GatherEnd,
                GatherDone, DropPointer
  <1>7. CASE stamp(c)
    BY <1>7 DEF stamp, StampLoad, StampStore, StampReturn
  <1>8. CASE WriteNext(c) \/ WriteDone(c)
    BY <1>8 DEF WriteNext, WriteDone
  <1> QED
    BY <1>1, <1>2, <1>3, <1>4, <1>5, <1>6, <1>7, <1>8
       DEF Handler, User, chat, getRecentMessages, Gathering, Touching

LEMMA TouchingBusy ==
  ASSUME NEW c \in Client, Touching(c)
  PROVE  c \in Busy /\ Handler(c)
  <1>1. Handler(c)
    BY DEF Touching, Handler, User, Join, Leave, chat
  <1>2. pc[c] \notin Waiting \cup {"end"}
    BY DEF Touching, CheckUser, PushUser, PushTimeline, JoinAdd, JoinAssign,
           LeaveClear, LeaveMerge, FindMailbox, Publish, Assign, JoinFind,
           LeaveFind, FindOwn, Reply, Goto, Waiting
  <1> QED  BY <1>1, <1>2 DEF Busy

(* What those steps make of the timelines: one is appended, or the one in  *)
(* hand is replaced.  No write is lost, as there is no other writer.       *)
Replaced(c, u) ==
  /\ DOMAIN timelineList' = DOMAIN timelineList
  /\ timelineList'[slot[c]] = u
  /\ \A i \in DOMAIN timelineList : i # slot[c] => timelineList'[i] = timelineList[i]

LEMMA NoWriteLost ==
  ASSUME Alone, NEW c \in Busy PROVE ~LostWrite(c)
  <1> SUFFICES ASSUME NEW d \in Client \ {c}, pc[d] = pc[c],
                      Writes(c) \cap Writes(d) # {}
               PROVE  FALSE
    BY DEF LostWrite
  <1>1. d \in Busy
    BY DEF Busy
  <1> QED  BY <1>1 DEF Alone

LEMMA JoinReplaces ==
  ASSUME TypeOK, Alone, NEW c \in Busy, JoinAdd(c)
  PROVE  /\ slot[c] \in DOMAIN timelineList
         /\ Replaced(c, [timelineList[slot[c]] EXCEPT !.subscribed = Append(@, NoName)])
  <1>1. slot[c] \in DOMAIN timelineList
    BY DEF JoinAdd
  <1>2. timelineList' =
          [timelineList EXCEPT ![slot[c]].subscribed = Append(@, NoName)]
    BY NoWriteLost DEF JoinAdd
  <1> QED  BY <1>1, <1>2 DEF Replaced

LEMMA JoinAssignReplaces ==
  ASSUME TypeOK, RosterInv, NEW c \in Client, JoinAssign(c)
  PROVE  /\ slot[c] \in DOMAIN timelineList
         /\ Replaced(c, [timelineList[slot[c]] EXCEPT
                           !.subscribed = [@ EXCEPT ![hold[c]] = target[c]]])
  <1>1. pc[c] = "joinAssign"
    BY DEF JoinAssign, Reply, Goto
  <1>2. /\ slot[c] \in DOMAIN timelineList /\ storage[c] = Len(timelineList)
        /\ hold[c] \in DOMAIN timelineList[slot[c]].subscribed
    BY <1>1 DEF RosterInv, HandInv, Added, SlotStages, Pointed
  <1>3. timelineList' = [timelineList EXCEPT ![slot[c]].subscribed[hold[c]] = target[c]]
    BY <1>2 DEF JoinAssign, Stale
  <1> DEFINE t == timelineList[slot[c]]
             u == [t EXCEPT !.subscribed = [@ EXCEPT ![hold[c]] = target[c]]]
  <1>4. timelineList' = [timelineList EXCEPT ![slot[c]] = u]
    BY <1>2, <1>3, TimelineType DEF Timelines
  <1> HIDE DEF u
  <1>5. Replaced(c, u)
    BY <1>2, <1>4 DEF Replaced
  <1> QED  BY <1>2, <1>5 DEF u

LEMMA ClearReplaces ==
  ASSUME TypeOK, NEW c \in Client, LeaveClear(c)
  PROVE  /\ slot[c] \in DOMAIN timelineList
         /\ Replaced(c, EmptyTimeline(NoName))
  BY DEF LeaveClear, Replaced

LEMMA MergeReplaces ==
  ASSUME TypeOK, RosterInv, NEW c \in Client, LeaveMerge(c)
  PROVE  /\ slot[c] \in DOMAIN timelineList
         /\ Replaced(c, [EmptyTimeline(NameOf[c]) EXCEPT !.subscribed = copy[c]])
  <1>1. /\ slot[c] \in DOMAIN timelineList /\ pc[c] = "leaveMerge"
        /\ timelineList' = [timelineList EXCEPT
               ![slot[c]].name = NameOf[c],
               ![slot[c]].subscribed = @ \o copy[c]]
    BY DEF LeaveMerge, Reply, Goto
  <1>2. timelineList[slot[c]] = [name |-> NoName, subscribed |-> <<>>, statuses |-> {}]
    BY <1>1 DEF RosterInv, HandInv, EmptyTimeline
  <1>3. <<>> \o copy[c] = copy[c]
    BY ConcatEmptySeq DEF TypeOK
  <1> DEFINE t == timelineList[slot[c]]
             u == [t EXCEPT !.name = NameOf[c], !.subscribed = @ \o copy[c]]
             v == [EmptyTimeline(NameOf[c]) EXCEPT !.subscribed = copy[c]]
  <1>4. timelineList' = [timelineList EXCEPT ![slot[c]] = u]
    BY <1>1, TimelineType DEF TypeOK, Timelines
  <1>5. u = [name |-> NameOf[c], subscribed |-> <<>> \o copy[c], statuses |-> {}]
    <2>1. t \in Timelines
      BY <1>1, TimelineType
    <2>2. t.subscribed = <<>> /\ t.statuses = {}
      BY <1>2
    <2> HIDE DEF t
    <2>3. t = [name |-> t.name, subscribed |-> t.subscribed, statuses |-> t.statuses]
      BY <2>1 DEF Timelines
    <2> DEFINE new == t.subscribed \o copy[c]
    <2>4. u = [[name |-> t.name, subscribed |-> t.subscribed, statuses |-> t.statuses]
                 EXCEPT !.name = NameOf[c], !.subscribed = new]
      BY <2>3
    <2> HIDE DEF u, new
    <2>5. u = [name |-> NameOf[c], subscribed |-> new, statuses |-> t.statuses]
      BY <2>4
    <2> QED  BY <2>2, <2>5 DEF new
  <1>6. v = [name |-> NameOf[c], subscribed |-> copy[c], statuses |-> {}]
    BY DEF EmptyTimeline
  <1>7. u = v
    BY <1>3, <1>5, <1>6
  <1> HIDE DEF u, v
  <1> QED  BY <1>1, <1>4, <1>7 DEF Replaced, v

LEMMA PublishReplaces ==
  ASSUME TypeOK, Alone, RosterInv, NEW c \in Busy, Publish(c)
  PROVE  /\ slot[c] \in DOMAIN timelineList
         /\ Replaced(c, [timelineList[slot[c]] EXCEPT !.statuses = @ \cup {Blank(c)}])
  <1>1. pc[c] = "publish" /\ c \in Client
    BY DEF Publish, Goto, Busy
  <1>2. slot[c] \in DOMAIN timelineList /\ storage[c] = Len(timelineList)
    BY <1>1 DEF RosterInv, HandInv, SlotStages, Pointed
  <1>3. timelineList' = [timelineList EXCEPT ![slot[c]].statuses = @ \cup {Blank(c)}]
    BY <1>2, NoWriteLost DEF Publish, Stale
  <1> QED  BY <1>2, <1>3 DEF Replaced

LEMMA AssignReplaces ==
  ASSUME TypeOK, RosterInv, NEW c \in Client, Assign(c)
  PROVE  /\ slot[c] \in DOMAIN timelineList
         /\ Blank(c) \in timelineList[slot[c]].statuses
         /\ Replaced(c, [timelineList[slot[c]] EXCEPT
                           !.statuses = (@ \ {Blank(c)}) \cup {Recved(c)}])
  <1>1. pc[c] = "assign"
    BY DEF Assign, Goto
  <1>2. /\ slot[c] \in DOMAIN timelineList /\ storage[c] = Len(timelineList)
        /\ Blank(c) \in timelineList[slot[c]].statuses
    BY <1>1 DEF RosterInv, HandInv, Added, SlotStages, Pointed
  <1>3. Temp(c) = {Blank(c)}
    BY <1>2 DEF Temp
  <1>4. timelineList' = [timelineList EXCEPT
                           ![slot[c]].statuses = (@ \ {Blank(c)}) \cup {Recved(c)}]
    BY <1>2, <1>3 DEF Assign, Stale
  <1> QED  BY <1>2, <1>4 DEF Replaced

(* A step after which nobody pushes or assigns keeps the lists in step when*)
(* they have the same length and names.                                    *)
LEMMA InStepAgain ==
  ASSUME TypeOK, Alone, RosterInv, NEW c \in Busy, Touching(c), UNCHANGED userList,
         pc'[c] \notin {"pushTimeline", "leaveMerge"},
         Len(userList) = Len(timelineList'),
         \A i \in DOMAIN timelineList' : timelineList'[i].name = userList[i]
  PROVE  ListsInStep'
  <1>1. \A d \in Client : pc'[d] \notin {"pushTimeline", "leaveMerge"}
    BY OthersKeep, TouchingBusy DEF Waiting, Busy
  <1> QED  BY <1>1 DEF ListsInStep, RosterInv, Pushing, Leaving

LEMMA AloneInStep ==
  ASSUME Alone, RosterInv, NEW c \in Busy
  PROVE  /\ pc[c] # "pushTimeline" => Len(userList) = Len(timelineList)
         /\ pc[c] # "leaveMerge" =>
              \A i \in DOMAIN timelineList : timelineList[i].name = userList[i]
         /\ pc[c] = "leaveMerge" =>
              \A i \in DOMAIN timelineList \ {slot[c]} : timelineList[i].name = userList[i]
  <1>1. \A d \in Client \ {c} : pc[d] \notin {"pushTimeline", "leaveMerge"}
    BY DEF Alone, Busy, Waiting
  <1> QED  BY <1>1 DEF RosterInv, ListsInStep, Pushing, Leaving, Busy

LEMMA TouchingRoster ==
  ASSUME TypeOK, Alone, RosterInv, NEW c \in Client, Touching(c)
  PROVE  RosterInv'
  <1>1. c \in Busy /\ Handler(c)
    BY TouchingBusy
  <1>2. \A d \in Client \ {c} : pc'[d] = pc[d] /\ HandInv(d)' /\ pc[d] \in Waiting \cup {"end"}
    BY <1>1, OthersKeep
  <1> SUFFICES ListsInStep' /\ HandInv(c)'
    BY <1>2 DEF RosterInv
  <1>3. HandInv(c)
    BY DEF RosterInv
  <1>4. /\ DOMAIN userList = 1 .. Len(userList) /\ Len(userList) \in Nat
        /\ DOMAIN timelineList = 1 .. Len(timelineList) /\ Len(timelineList) \in Nat
    BY Domains
  <1>5. NameOf[c] \in Name
    BY ServerAssumption
  <1>6. CASE CheckUser(c)
    <2>1. /\ UNCHANGED <<userList, timelineList, slot>> /\ pc[c] = "checkUser"
          /\ pc'[c] = IF checkUserList(userList, NameOf[c]) THEN "command" ELSE "pushUser"
      BY <1>6 DEF CheckUser, Goto, lists, pointer, TypeOK
    <2>2. ListsInStep'
      BY <1>1, <2>1, AloneInStep, InStepAgain
    <2>3. CASE checkUserList(userList, NameOf[c])
      BY <2>1, <2>2, <2>3 DEF HandInv, Added, Pointed, SlotStages
    <2>4. CASE ~checkUserList(userList, NameOf[c])
      BY <2>1, <2>2, <2>4 DEF HandInv, Added, Pointed, SlotStages, Enrolled
    <2> QED  BY <2>3, <2>4
  <1>7. CASE PushUser(c)
    <2>1. /\ userList' = Append(userList, NameOf[c])
          /\ UNCHANGED <<timelineList, slot>>
          /\ pc[c] = "pushUser" /\ pc'[c] = "pushTimeline"
      BY <1>1, <1>7, NoWriteLost DEF PushUser, Goto, pointer, TypeOK
    <2>2. /\ Len(userList') = Len(userList) + 1
          /\ DOMAIN userList' = 1 .. Len(userList) + 1
          /\ \A i \in 1 .. Len(userList) : userList'[i] = userList[i]
          /\ userList'[Len(userList) + 1] = NameOf[c]
      BY <1>5, <2>1, AppendProperties, LenProperties DEF TypeOK
    <2>3. \A i \in DOMAIN userList : userList[i] # NameOf[c]
      BY <1>3, <2>1 DEF HandInv, checkUserList
    <2>4. \A i, j \in DOMAIN userList' : userList'[i] = userList'[j] => i = j
      BY <1>4, <2>2, <2>3 DEF RosterInv, ListsInStep
    <2>5. Pushing'
      BY <2>1 DEF Pushing
    <2>6. /\ Len(userList) = Len(timelineList)
          /\ \A i \in DOMAIN timelineList : timelineList[i].name = userList[i]
      BY <1>1, <2>1, AloneInStep
    <2>7. \A i \in DOMAIN timelineList' : timelineList'[i].name = userList'[i]
      BY <1>4, <2>1, <2>2, <2>6
    <2>8. Len(userList') = Len(timelineList') + 1
      BY <2>1, <2>2, <2>6
    <2>9. ListsInStep'
      BY <2>4, <2>5, <2>7, <2>8 DEF ListsInStep
    <2> QED  BY <2>1, <2>2, <2>9 DEF HandInv, Added, Pointed, SlotStages, Enrolled
  <1>8. CASE PushTimeline(c)
    <2>1. /\ timelineList' = Append(timelineList, EmptyTimeline(NameOf[c]))
          /\ UNCHANGED userList /\ pc[c] = "pushTimeline" /\ pc'[c] = "command"
      BY <1>1, <1>8, NoWriteLost DEF PushTimeline, Goto, TypeOK
    <2>2. EmptyTimeline(NameOf[c]) \in Timelines
      BY <1>5 DEF EmptyTimeline, Timelines
    <2>3. /\ Len(timelineList') = Len(timelineList) + 1
          /\ DOMAIN timelineList' = 1 .. Len(timelineList) + 1
          /\ \A i \in 1 .. Len(timelineList) : timelineList'[i] = timelineList[i]
          /\ timelineList'[Len(timelineList) + 1] = EmptyTimeline(NameOf[c])
      BY <2>1, <2>2, AppendProperties, LenProperties DEF TypeOK
    <2>4. Len(userList) = Len(timelineList) + 1
      BY <2>1 DEF RosterInv, ListsInStep, Pushing
    <2>5. userList[Len(userList)] = NameOf[c]
      BY <1>3, <2>1 DEF HandInv
    <2>6. \A i \in DOMAIN timelineList : timelineList[i].name = userList[i]
      BY <1>1, <2>1, AloneInStep
    <2>7. \A i \in DOMAIN timelineList' : timelineList'[i].name = userList[i]
      BY <1>4, <2>3, <2>4, <2>5, <2>6 DEF EmptyTimeline
    <2>8. ListsInStep'
      BY <1>1, <2>1, <2>3, <2>4, <2>7, InStepAgain
    <2>9. checkUserList(userList', NameOf[c])
      BY <1>4, <2>1, <2>4, <2>5 DEF checkUserList
    <2> QED  BY <2>1, <2>8, <2>9 DEF HandInv, Added, Pointed, SlotStages
  <1>9. CASE (JoinFind(c) \/ LeaveFind(c)) /\ ~Refused(c)
    <2>1. /\ UNCHANGED <<userList, timelineList>>
          /\ pc[c] \in {"joinFind", "leaveFind"} /\ pc'[c] \in {"joinTest", "leaveCopy"}
          /\ slot'[c] = OwnIndex(timelineList, NameOf[c])
      BY <1>9 DEF JoinFind, LeaveFind, FindOwn, Goto, lists, TypeOK
    <2>2. /\ OwnIndex(timelineList, NameOf[c]) \in DOMAIN timelineList
          /\ userList[OwnIndex(timelineList, NameOf[c])] = NameOf[c]
      BY <1>1, <2>1, FindsOwn DEF Enrolled, Stage
    <2>3. ListsInStep'
      BY <1>1, <2>1, AloneInStep, InStepAgain
    <2>4. checkUserList(userList, NameOf[c])
      BY <1>3, <2>1 DEF HandInv, Enrolled, Stage
    <2> QED  BY <2>1, <2>2, <2>3, <2>4 DEF HandInv, Added, Pointed
  <1>10. CASE FindMailbox(c)
    <2>1. /\ UNCHANGED <<userList, timelineList>> /\ pc[c] = "mailbox"
          /\ slot'[c] = getTimelinePointer(timelineList, NameOf[c])
          /\ storage'[c] = Len(timelineList)
          /\ pc'[c] \in {"recent", "stampLoad"}
      BY <1>10 DEF FindMailbox, TakePointer, Goto, lists, TypeOK
    <2>2. /\ slot'[c] \in DOMAIN timelineList /\ userList[slot'[c]] = NameOf[c]
      BY <1>1, <2>1, FindsOwn DEF Enrolled, Stage
    <2>3. ListsInStep'
      BY <1>1, <2>1, AloneInStep, InStepAgain
    <2>4. checkUserList(userList, NameOf[c])
      BY <1>3, <2>1 DEF HandInv, Enrolled, Stage
    <2> QED  BY <2>1, <2>2, <2>3, <2>4 DEF HandInv, Added
  (* The timeline in hand is replaced by one with its user's name.         *)
  <1>11. ASSUME UNCHANGED userList, pc[c] \in SlotStages,
                pc'[c] # "leaveMerge", pc'[c] \in Enrolled,
                NEW u, Replaced(c, u), u.name = NameOf[c]
         PROVE  /\ ListsInStep' /\ Len(timelineList') = Len(timelineList)
                /\ slot[c] \in DOMAIN timelineList' /\ userList'[slot[c]] = NameOf[c]
                /\ checkUserList(userList', NameOf[c])
    <2>1. slot[c] \in DOMAIN timelineList /\ userList[slot[c]] = NameOf[c]
      BY <1>3, <1>11 DEF HandInv
    <2>2. /\ DOMAIN timelineList' = DOMAIN timelineList
          /\ \A i \in DOMAIN timelineList' : timelineList'[i].name = userList[i]
      BY <1>1, <1>11, <2>1, AloneInStep DEF Replaced
    <2>3. Len(userList) = Len(timelineList)
      BY <1>1, <1>11, AloneInStep DEF SlotStages
    <2>4. TypeOK'
      BY <1>1, TypeNext DEF Next
    <2>5. Len(timelineList') = Len(timelineList)
      BY <1>4, <2>2, <2>4, Domains
    <2>6. ListsInStep'
      BY <1>1, <1>11, <2>2, <2>3, <2>5, InStepAgain DEF SlotStages, Enrolled
    <2>7. checkUserList(userList, NameOf[c])
      BY <1>4, <2>1, <2>3 DEF checkUserList
    <2> QED  BY <1>11, <2>1, <2>2, <2>5, <2>6, <2>7 DEF checkUserList
  <1>12. CASE JoinAdd(c)
    <2>1. /\ UNCHANGED <<userList, slot>> /\ pc[c] = "joinAdd" /\ pc'[c] = "joinAssign"
          /\ storage'[c] = Len(timelineList)
          /\ hold'[c] = Len(timelineList[slot[c]].subscribed) + 1
      BY <1>12 DEF JoinAdd, Goto, TypeOK
    <2> DEFINE t == timelineList[slot[c]]
               u == [t EXCEPT !.subscribed = Append(@, NoName)]
    <2>2. slot[c] \in DOMAIN timelineList /\ Replaced(c, u)
      BY <1>1, <1>12, JoinReplaces
    <2>3. t \in Timelines
      BY <2>2, TimelineType
    <2>4. t.name = NameOf[c]
      BY <1>1, <1>3, <2>1, <2>2, AloneInStep DEF HandInv, SlotStages
    <2>5. u.name = t.name /\ u.subscribed = Append(t.subscribed, NoName)
      BY <2>3 DEF Timelines
    <2>6. /\ ListsInStep' /\ Len(timelineList') = Len(timelineList)
          /\ slot[c] \in DOMAIN timelineList' /\ userList'[slot[c]] = NameOf[c]
          /\ checkUserList(userList', NameOf[c])
      BY <1>11, <2>1, <2>2, <2>4, <2>5 DEF SlotStages, Enrolled, Stage, Waiting
    <2>7. t.subscribed \in Seq(Name \cup {NoName})
      BY <2>3 DEF Timelines
    <2> HIDE DEF t
    <2>8. LET n == Len(t.subscribed) + 1
          IN  /\ n \in DOMAIN u.subscribed /\ n = Len(u.subscribed)
              /\ u.subscribed[n] = NoName
      BY <2>5, <2>7, AppendProperties, LenProperties
    <2>9. timelineList'[slot[c]] = u
      BY <2>2 DEF Replaced
    <2> HIDE DEF u
    <2>10. Added(c)'
      BY <2>1, <2>8, <2>9 DEF Added, t
    <2> QED  BY <2>1, <2>6, <2>10 DEF HandInv, SlotStages, Enrolled
  <1>16. CASE JoinAssign(c)
    <2>1. /\ UNCHANGED userList /\ pc[c] = "joinAssign" /\ pc'[c] = "command"
      BY <1>16 DEF JoinAssign, Reply, Goto, TypeOK
    <2> DEFINE u == [timelineList[slot[c]] EXCEPT
                       !.subscribed = [@ EXCEPT ![hold[c]] = target[c]]]
    <2>2. slot[c] \in DOMAIN timelineList /\ Replaced(c, u)
      BY <1>16, JoinAssignReplaces
    <2>3. u.name = timelineList[slot[c]].name
      BY <2>2, TimelineType DEF Timelines
    <2>4. u.name = NameOf[c]
      BY <1>1, <1>3, <2>1, <2>2, <2>3, AloneInStep DEF HandInv, SlotStages
    <2>5. ListsInStep' /\ checkUserList(userList', NameOf[c])
      BY <1>11, <2>1, <2>2, <2>4 DEF SlotStages, Enrolled, Stage, Waiting
    <2> QED  BY <2>1, <2>5 DEF HandInv, Added, Pointed, SlotStages
  <1>13. CASE LeaveMerge(c)
    <2>1. /\ UNCHANGED userList /\ pc[c] = "leaveMerge" /\ pc'[c] = "command"
      BY <1>13 DEF LeaveMerge, Reply, Goto, TypeOK
    <2> DEFINE u == [EmptyTimeline(NameOf[c]) EXCEPT !.subscribed = copy[c]]
    <2>2. Replaced(c, u)
      BY <1>13, MergeReplaces
    <2>3. u.name = NameOf[c]
      BY DEF EmptyTimeline
    <2>4. ListsInStep' /\ checkUserList(userList', NameOf[c])
      BY <1>11, <2>1, <2>2, <2>3 DEF SlotStages, Enrolled, Stage, Waiting
    <2> QED  BY <2>1, <2>4 DEF HandInv, Added, Pointed, SlotStages
  <1>14. CASE Publish(c)
    <2>1. /\ UNCHANGED <<userList, slot, storage, taken>>
          /\ pc[c] = "publish" /\ pc'[c] = "assign"
      BY <1>14 DEF Publish, Goto, TypeOK, pointer, stream
    <2> DEFINE t == timelineList[slot[c]]
               u == [t EXCEPT !.statuses = @ \cup {Blank(c)}]
    <2>2. slot[c] \in DOMAIN timelineList /\ Replaced(c, u)
      BY <1>1, <1>14, PublishReplaces
    <2>3. t \in Timelines
      BY <2>2, TimelineType
    <2>4. t.name = NameOf[c]
      BY <1>1, <1>3, <2>1, <2>2, AloneInStep DEF HandInv, SlotStages
    <2>5. u.name = t.name /\ u.statuses = t.statuses \cup {Blank(c)}
      BY <2>3 DEF Timelines
    <2>6. /\ ListsInStep' /\ Len(timelineList') = Len(timelineList)
          /\ slot[c] \in DOMAIN timelineList' /\ userList'[slot[c]] = NameOf[c]
          /\ checkUserList(userList', NameOf[c])
      BY <1>11, <2>1, <2>2, <2>4, <2>5 DEF SlotStages, Enrolled, Stage, Waiting
    <2>7. timelineList'[slot[c]] = u /\ Blank(c)' = Blank(c)
      BY <2>1, <2>2 DEF Replaced, Blank
    <2> HIDE DEF t, u
    <2>8. Added(c)'
      BY <2>1, <2>5, <2>7 DEF Added
    <2>9. storage[c] = Len(timelineList)
      BY <1>3, <2>1 DEF HandInv, Pointed
    <2> QED  BY <2>1, <2>6, <2>8, <2>9 DEF HandInv, SlotStages, Enrolled
  <1>17. CASE Assign(c)
    <2>1. /\ UNCHANGED userList /\ pc[c] = "assign" /\ pc'[c] = "recent"
      BY <1>17 DEF Assign, Goto, TypeOK
    <2> DEFINE u == [timelineList[slot[c]] EXCEPT
                       !.statuses = (@ \ {Blank(c)}) \cup {Recved(c)}]
    <2>2. slot[c] \in DOMAIN timelineList /\ Replaced(c, u)
      BY <1>17, AssignReplaces
    <2>3. u.name = timelineList[slot[c]].name
      BY <2>2, TimelineType DEF Timelines
    <2>4. u.name = NameOf[c]
      BY <1>1, <1>3, <2>1, <2>2, <2>3, AloneInStep DEF HandInv, SlotStages
    <2>5. ListsInStep' /\ checkUserList(userList', NameOf[c])
      BY <1>11, <2>1, <2>2, <2>4 DEF SlotStages, Enrolled, Stage, Waiting
    <2> QED  BY <2>1, <2>5 DEF HandInv, Added, Pointed, SlotStages
  <1>15. CASE LeaveClear(c)
    <2>1. /\ UNCHANGED <<userList, slot>> /\ pc[c] = "leaveClear" /\ pc'[c] = "leaveMerge"
      BY <1>15 DEF LeaveClear, Goto, pointer, TypeOK
    <2>2. Replaced(c, EmptyTimeline(NoName)) /\ slot[c] \in DOMAIN timelineList
      BY <1>15, ClearReplaces
    <2>3. \A d \in Client : pc'[d] # "pushTimeline"
      BY <1>2, <2>1 DEF Waiting
    <2>4. Leaving(slot[c])'
      BY <2>1 DEF Leaving
    <2>5. \A i \in DOMAIN timelineList' : timelineList'[i].name = userList'[i] \/ Leaving(i)'
      BY <1>1, <2>1, <2>2, <2>4, AloneInStep DEF Replaced
    <2>6. TypeOK'
      BY <1>1, TypeNext DEF Next
    <2>7. Len(timelineList') = Len(timelineList)
      BY <1>4, <2>2, <2>6, Domains DEF Replaced
    <2>8. Len(userList) = Len(timelineList)
      BY <1>1, <2>1, AloneInStep
    <2>9. ListsInStep'
      BY <2>1, <2>3, <2>5, <2>7, <2>8 DEF ListsInStep, RosterInv, Pushing
    <2> QED
      BY <1>3, <2>1, <2>2, <2>9 DEF HandInv, Added, Pointed, SlotStages, Enrolled,
                                    Stage, Replaced
  <1> QED
    BY <1>6, <1>7, <1>8, <1>9, <1>10, <1>12, <1>13, <1>14, <1>15, <1>16, <1>17
       DEF Touching

LEMMA RosterStep ==
  ASSUME TypeOK, Alone, RosterInv, NEW c \in Client, Handler(c) \/ Calls(c)
  PROVE  RosterInv'
  BY TouchingRoster, UntouchedSteps, UntouchedRoster

(* Handlers that do not overlap keep users and timelines in step: the same *)
(* names in the same order, each once, whenever no handler is running, for *)
(* any number of clients, with shared names or without.                    *)
LEMMA SerialRoster == Serial /\ LoadedRoster => (Spec => []RosterMatchesTimelines)
  <1> SUFFICES ASSUME Serial, LoadedRoster PROVE Spec => []RosterMatchesTimelines
    OBVIOUS
  <1>1. Init => TypeOK /\ Alone /\ RosterInv
    BY TypeInit, RosterInit DEF Init, Alone, Busy, Waiting
  <1>2. TypeOK /\ Alone /\ RosterInv /\ [Next]_vars => (TypeOK /\ Alone /\ RosterInv)'
    <2> SUFFICES ASSUME TypeOK, Alone, RosterInv, [Next]_vars
                 PROVE  TypeOK' /\ Alone' /\ RosterInv'
      OBVIOUS
    <2>1. TypeOK'
      BY TypeNext
    <2>2. CASE UNCHANGED vars
      <3> USE <2>2 DEF vars, lists, pointer, unary, stream
      <3>1. Alone' /\ ListsInStep'
        BY DEF Alone, Busy, RosterInv, ListsInStep, Pushing, Leaving
      <3>2. \A c \in Client : HandInv(c)'
        BY DEF RosterInv, HandInv, Added, Blank
      <3> QED  BY <2>1, <3>1, <3>2 DEF RosterInv
    <2>3. CASE Next
      BY <2>1, <2>3, AloneStep, RosterStep DEF Next
    <2> QED  BY <2>2, <2>3
  <1>3. TypeOK /\ Alone /\ RosterInv => RosterMatchesTimelines
    <2> SUFFICES ASSUME TypeOK, RosterInv, Active = {} PROVE RosterMatchesTimelines
      BY DEF RosterMatchesTimelines
    <2>1. ~Pushing /\ \A i : ~Leaving(i)
      BY DEF Active, Waiting, Pushing, Leaving
    <2>2. /\ Len(userList) = Len(timelineList)
          /\ \A i \in DOMAIN timelineList : timelineList[i].name = userList[i]
          /\ \A i, j \in DOMAIN userList : userList[i] = userList[j] => i = j
      BY <2>1 DEF RosterInv, ListsInStep
    <2>3. DOMAIN userList = DOMAIN timelineList
      BY <2>2, Domains
    <2>4. userList = [i \in DOMAIN userList |-> userList[i]]
      BY LenProperties DEF TypeOK
    <2>5. userList = [i \in DOMAIN timelineList |-> timelineList[i].name]
      BY <2>2, <2>3, <2>4
    <2> QED  BY <2>2, <2>5 DEF RosterMatchesTimelines
  <1> QED  BY <1>1, <1>2, <1>3, PTL DEF Spec

-----------------------------------------------------------------------------
(* Owners.                                                                 *)

(* A timeline of n: posts of n, and subscriptions to others.               *)
OwnedBy(n, t) ==
  /\ \A s \in Whole(t.statuses) : s.name = n
  /\ \A j \in DOMAIN t.subscribed : t.subscribed[j] # n

(* What a handler will write to its user's timeline is not the user's name.*)
NotOwn(c) ==
  /\ pc[c] \in Joining => target[c] # NameOf[c]
  /\ pc[c] \in {"leaveClear", "leaveMerge"} =>
       \A j \in DOMAIN copy[c] : copy[c][j] # NameOf[c]

OwnersInv ==
  /\ \A i \in DOMAIN timelineList : OwnedBy(userList[i], timelineList[i])
  /\ \A c \in Client : NotOwn(c)

LoadedOwners ==
  \A i \in DOMAIN Loaded.timelines :
    OwnedBy(Loaded.timelines[i].name, Loaded.timelines[i])

(* A step that changes no list, and after which nothing new is in hand.    *)
Harmless(c) ==
  /\ UNCHANGED lists
  /\ \A d \in Client \ {c} : pc'[d] = pc[d] /\ target'[d] = target[d] /\ copy'[d] = copy[d]
  /\ \/ pc'[c] = pc[c] /\ target'[c] = target[c] /\ copy'[c] = copy[c]
     \/ /\ pc'[c] \in Joining => pc[c] \in Joining
        /\ target'[c] = target[c] /\ copy'[c] = copy[c]
        /\ pc'[c] \notin {"leaveClear", "leaveMerge"}
     \/ pc'[c] \notin Joining \cup {"leaveClear", "leaveMerge"}

Harmful(c) ==
  \/ PushUser(c) \/ PushTimeline(c) \/ JoinFind(c) \/ JoinAdd(c) \/ JoinAssign(c)
  \/ LeaveCopy(c) \/ LeaveClear(c) \/ LeaveMerge(c) \/ Publish(c) \/ Assign(c)

LEMMA HarmlessSteps ==
  ASSUME TypeOK, NEW c \in Client, Handler(c) \/ Calls(c), ~Harmful(c)
  PROVE  Harmless(c)
  <1> USE DEF Harmless, Joining, TypeOK, Goto, lists, unary
  <1>1. CASE CheckUser(c) \/ JoinTest(c)
    BY <1>1 DEF CheckUser, JoinTest, Reply
  <1>2. CASE LeaveFind(c) \/ LeaveNobody(c)
    BY <1>2 DEF LeaveFind, FindOwn, LeaveNobody, Reply
  <1>3. CASE List(c) \/ Crash(c) \/ EndChat(c)
    BY <1>3 DEF List, Crash, EndChat
  <1>4. CASE Calls(c)
    BY <1>4 DEF Calls, Call, CallUser, CallJoin, CallLeave, CallList, CallChat,
                CallMessage, Kill
  <1>5. CASE Hello(c) \/ FindMailbox(c) \/ Recent(c)
    BY <1>5 DEF Hello, FindMailbox, Recent
  <1>6. CASE stamp(c) \/ WriteNext(c) \/ WriteDone(c)
    BY <1>6 DEF stamp, StampLoad, StampStore, StampReturn, WriteNext, WriteDone
  <1>7. CASE Gathering(c)
    BY <1>7 DEF Gathering, GatherNext, GatherTest, GatherCopy, GatherEnd, GatherDone
  <1> QED
    BY <1>1, <1>2, <1>3, <1>4, <1>5, <1>6, <1>7
       DEF Handler, User, Join, Leave, chat, getRecentMessages, Gathering, Harmful

(* A name that is not in a list is not in its copy.                        *)
LEMMA CopiesNoOther ==
  ASSUME NEW S, NEW subs \in Seq(S), subs # <<>>, NEW room, NEW n,
         \A k \in DOMAIN subs : subs[k] # n
  PROVE  \A j \in DOMAIN CopyAllButOne(subs, room) : CopyAllButOne(subs, room)[j] # n
  BY CopyType

(* The locals after a harmful step.                                        *)
LEMMA HarmfulLocals ==
  ASSUME TypeOK, RosterInv, OwnersInv, NEW c \in Client, Harmful(c), NEW d \in Client
  PROVE  NotOwn(d)'
  <1> USE DEF Goto, unary, TypeOK, Joining
  <1>0. NotOwn(d)
    BY DEF OwnersInv
  <1>1. CASE d # c
    <2>1. pc'[d] = pc[d] /\ target'[d] = target[d] /\ copy'[d] = copy[d]
      BY <1>1 DEF Harmful, PushUser, PushTimeline, JoinFind, FindOwn, JoinAdd,
                  JoinAssign, Reply, LeaveCopy, LeaveClear, LeaveMerge, Publish, Assign
    <2> QED  BY <1>0, <2>1 DEF NotOwn
  <1>2. CASE d = c /\ JoinFind(c)
    <2>1. CASE Refused(c)
      BY <1>2, <2>1 DEF JoinFind, FindOwn, Reply, NotOwn
    <2>2. CASE ~Refused(c)
      BY <1>2, <2>2 DEF JoinFind, FindOwn, NotOwn, Refused
    <2> QED  BY <2>1, <2>2
  <1>3. CASE d = c /\ LeaveCopy(c)
    <2> DEFINE subs == timelineList[slot[c]].subscribed
    <2>1. /\ slot[c] \in DOMAIN timelineList /\ subs # <<>> /\ pc[c] = "leaveCopy"
          /\ pc'[c] = "leaveClear" /\ copy'[c] = CopyAllButOne(subs, target[c])
      BY <1>3 DEF LeaveCopy
    <2>2. userList[slot[c]] = NameOf[c]
      BY <2>1 DEF RosterInv, HandInv, SlotStages
    <2>3. \A k \in DOMAIN subs : subs[k] # NameOf[c]
      BY <2>1, <2>2 DEF OwnersInv, OwnedBy
    <2>4. subs \in Seq(Name \cup {NoName})
      BY <2>1, TimelineType DEF Timelines
    <2> HIDE DEF subs
    <2>5. subs # <<>>
      BY <2>1
    <2>6. \A j \in DOMAIN CopyAllButOne(subs, target[c]) :
            CopyAllButOne(subs, target[c])[j] # NameOf[c]
      <3> HIDE DEF TypeOK, Goto, unary, Joining
      <3> QED  BY <2>5, <2>3, <2>4, CopiesNoOther
    <2> QED  BY <1>3, <2>1, <2>6 DEF NotOwn
  <1>4. CASE d = c /\ (LeaveClear(c) \/ JoinAdd(c))
    BY <1>0, <1>4 DEF LeaveClear, JoinAdd, NotOwn
  <1>5. CASE d = c /\ (PushUser(c) \/ PushTimeline(c) \/ JoinAssign(c) \/ LeaveMerge(c)
                        \/ Publish(c) \/ Assign(c))
    BY <1>5 DEF PushUser, PushTimeline, JoinAssign, LeaveMerge, Reply, Publish,
                Assign, NotOwn
  <1> QED  BY <1>1, <1>2, <1>3, <1>4, <1>5 DEF Harmful

(* One timeline is replaced by another of its user's.                      *)
LEMMA ReplacedOwned ==
  ASSUME OwnersInv, NEW c \in Client, UNCHANGED userList, NEW u, Replaced(c, u),
         slot[c] \in DOMAIN timelineList => OwnedBy(userList[slot[c]], u)
  PROVE  \A i \in DOMAIN timelineList' : OwnedBy(userList'[i], timelineList'[i])
  BY DEF OwnersInv, Replaced

LEMMA OwnersStep ==
  ASSUME TypeOK, Alone, RosterInv, OwnersInv, NEW c \in Client,
         Handler(c) \/ Calls(c)
  PROVE  OwnersInv'
  <1>1. CASE ~Harmful(c)
    BY <1>1, HarmlessSteps DEF Harmless, OwnersInv, NotOwn, lists
  <1> SUFFICES ASSUME Harmful(c)
               PROVE  \A i \in DOMAIN timelineList' : OwnedBy(userList'[i], timelineList'[i])
    BY <1>1, HarmfulLocals DEF OwnersInv
  <1>2. c \in Busy
    BY DEF Harmful, PushUser, PushTimeline, JoinFind, FindOwn, JoinAdd, JoinAssign,
           Reply, LeaveCopy, LeaveClear, LeaveMerge, Publish, Assign, Goto, Busy,
           Waiting
  <1>3. HandInv(c) /\ NotOwn(c) /\ NameOf[c] \in Name /\ NameOf[c] # NoName
    BY ServerAssumption DEF RosterInv, OwnersInv
  <1>4. /\ DOMAIN userList = 1 .. Len(userList) /\ Len(userList) \in Nat
        /\ DOMAIN timelineList = 1 .. Len(timelineList) /\ Len(timelineList) \in Nat
    BY Domains
  <1>5. \A i \in DOMAIN timelineList : OwnedBy(userList[i], timelineList[i])
    BY DEF OwnersInv
  <1>6. CASE JoinFind(c) \/ LeaveCopy(c)
    BY <1>5, <1>6 DEF JoinFind, FindOwn, LeaveCopy, lists
  <1>7. CASE PushUser(c)
    <2>1. /\ userList' = Append(userList, NameOf[c]) /\ UNCHANGED timelineList
          /\ pc[c] = "pushUser"
      BY <1>2, <1>7, NoWriteLost DEF PushUser, Goto
    <2>2. Len(userList) = Len(timelineList)
      BY <1>2, <2>1, AloneInStep
    <2>3. \A i \in 1 .. Len(userList) : userList'[i] = userList[i]
      BY <1>3, <2>1, AppendProperties, LenProperties DEF TypeOK
    <2> QED  BY <1>4, <1>5, <2>1, <2>2, <2>3
  <1>8. CASE PushTimeline(c)
    <2>1. /\ timelineList' = Append(timelineList, EmptyTimeline(NameOf[c]))
          /\ UNCHANGED userList
      BY <1>2, <1>8, NoWriteLost DEF PushTimeline
    <2>2. EmptyTimeline(NameOf[c]) \in Timelines
      BY <1>3 DEF EmptyTimeline, Timelines
    <2>3. /\ DOMAIN timelineList' = 1 .. Len(timelineList) + 1
          /\ \A i \in 1 .. Len(timelineList) : timelineList'[i] = timelineList[i]
          /\ timelineList'[Len(timelineList) + 1] = EmptyTimeline(NameOf[c])
      BY <2>1, <2>2, AppendProperties, LenProperties DEF TypeOK
    <2>4. \A n : OwnedBy(n, EmptyTimeline(NameOf[c]))
      BY DEF OwnedBy, EmptyTimeline, Whole
    <2> QED  BY <1>4, <1>5, <2>1, <2>3, <2>4
  <1>9. CASE JoinAdd(c)
    <2> DEFINE t == timelineList[slot[c]]
               u == [t EXCEPT !.subscribed = Append(@, NoName)]
    <2>1. slot[c] \in DOMAIN timelineList /\ Replaced(c, u)
      BY <1>2, <1>9, JoinReplaces
    <2>2. UNCHANGED userList /\ userList[slot[c]] = NameOf[c]
      BY <1>3, <1>9 DEF JoinAdd, Goto, HandInv, SlotStages
    <2>3. t \in Timelines /\ OwnedBy(NameOf[c], t)
      BY <1>5, <2>1, <2>2, TimelineType
    <2> HIDE DEF t
    <2>4. /\ u.statuses = t.statuses /\ t.subscribed \in Seq(Name \cup {NoName})
          /\ u.subscribed = Append(t.subscribed, NoName)
      BY <2>3 DEF Timelines
    <2> HIDE DEF u
    <2>5. \A j \in DOMAIN u.subscribed :
            \/ u.subscribed[j] = NoName
            \/ \E k \in DOMAIN t.subscribed : u.subscribed[j] = t.subscribed[k]
      <3>1. /\ Len(t.subscribed) \in Nat /\ DOMAIN t.subscribed = 1 .. Len(t.subscribed)
            /\ DOMAIN u.subscribed = 1 .. Len(t.subscribed) + 1
            /\ \A j \in 1 .. Len(t.subscribed) : u.subscribed[j] = t.subscribed[j]
            /\ u.subscribed[Len(t.subscribed) + 1] = NoName
        BY <2>4, AppendProperties, LenProperties
      <3> QED  BY <3>1
    <2>6. OwnedBy(NameOf[c], u)
      BY <1>3, <2>3, <2>4, <2>5 DEF OwnedBy
    <2> QED  BY <2>1, <2>2, <2>6, ReplacedOwned
  <1>13. CASE JoinAssign(c)
    <2> DEFINE t == timelineList[slot[c]]
               u == [t EXCEPT !.subscribed = [@ EXCEPT ![hold[c]] = target[c]]]
    <2>1. slot[c] \in DOMAIN timelineList /\ Replaced(c, u)
      BY <1>13, JoinAssignReplaces
    <2>2. /\ UNCHANGED userList /\ userList[slot[c]] = NameOf[c]
          /\ target[c] # NameOf[c]
      BY <1>3, <1>13 DEF JoinAssign, Reply, Goto, HandInv, NotOwn, SlotStages, Joining
    <2>3. t \in Timelines /\ OwnedBy(NameOf[c], t)
      BY <1>5, <2>1, <2>2, TimelineType
    <2> HIDE DEF t
    <2>4. /\ u.statuses = t.statuses
          /\ u.subscribed = [t.subscribed EXCEPT ![hold[c]] = target[c]]
      BY <2>3 DEF Timelines
    <2> HIDE DEF u
    <2>5. /\ DOMAIN u.subscribed = DOMAIN t.subscribed
          /\ \A j \in DOMAIN t.subscribed :
               u.subscribed[j] = target[c] \/ u.subscribed[j] = t.subscribed[j]
      BY <2>4
    <2>6. OwnedBy(NameOf[c], u)
      BY <2>2, <2>3, <2>4, <2>5 DEF OwnedBy
    <2> QED  BY <2>1, <2>2, <2>6, ReplacedOwned
  <1>10. CASE LeaveClear(c)
    <2>1. /\ Replaced(c, EmptyTimeline(NoName)) /\ UNCHANGED userList
      BY <1>10, ClearReplaces DEF LeaveClear
    <2>2. \A n : OwnedBy(n, EmptyTimeline(NoName))
      BY DEF OwnedBy, EmptyTimeline, Whole
    <2> QED  BY <2>1, <2>2, ReplacedOwned
  <1>11. CASE LeaveMerge(c)
    <2> DEFINE u == [EmptyTimeline(NameOf[c]) EXCEPT !.subscribed = copy[c]]
    <2>1. slot[c] \in DOMAIN timelineList /\ Replaced(c, u)
      BY <1>11, MergeReplaces
    <2>2. /\ pc[c] = "leaveMerge" /\ UNCHANGED userList /\ userList[slot[c]] = NameOf[c]
      BY <1>3, <1>11 DEF LeaveMerge, Reply, Goto, HandInv, SlotStages
    <2>3. u.statuses = {} /\ u.subscribed = copy[c]
      BY DEF EmptyTimeline
    <2> HIDE DEF u
    <2>4. OwnedBy(NameOf[c], u)
      BY <1>3, <2>2, <2>3 DEF OwnedBy, NotOwn, Whole
    <2> QED  BY <2>1, <2>2, <2>4, ReplacedOwned
  <1>12. CASE Publish(c)
    <2> DEFINE t == timelineList[slot[c]]
               u == [t EXCEPT !.statuses = @ \cup {Blank(c)}]
    <2>1. slot[c] \in DOMAIN timelineList /\ Replaced(c, u)
      BY <1>2, <1>12, PublishReplaces
    <2>2. UNCHANGED userList /\ userList[slot[c]] = NameOf[c]
      BY <1>3, <1>12 DEF Publish, Goto, HandInv, SlotStages
    <2>3. t \in Timelines /\ OwnedBy(NameOf[c], t) /\ Blank(c).name = NoName
      BY <1>5, <2>1, <2>2, TimelineType DEF Blank
    <2> HIDE DEF t
    <2>4. u.statuses = t.statuses \cup {Blank(c)} /\ u.subscribed = t.subscribed
      BY <2>3 DEF Timelines
    <2> HIDE DEF u
    <2>5. OwnedBy(NameOf[c], u)
      BY <2>3, <2>4 DEF OwnedBy, Whole
    <2> QED  BY <2>1, <2>2, <2>5, ReplacedOwned
  <1>14. CASE Assign(c)
    <2> DEFINE t == timelineList[slot[c]]
               u == [t EXCEPT !.statuses = (@ \ {Blank(c)}) \cup {Recved(c)}]
    <2>1. slot[c] \in DOMAIN timelineList /\ Replaced(c, u)
      BY <1>14, AssignReplaces
    <2>2. UNCHANGED userList /\ userList[slot[c]] = NameOf[c]
      BY <1>3, <1>14 DEF Assign, Goto, HandInv, SlotStages
    <2>3. t \in Timelines /\ OwnedBy(NameOf[c], t) /\ Recved(c).name = NameOf[c]
      BY <1>5, <2>1, <2>2, TimelineType DEF Recved
    <2> HIDE DEF t
    <2>4. /\ u.statuses \subseteq t.statuses \cup {Recved(c)}
          /\ u.subscribed = t.subscribed
      BY <2>3 DEF Timelines
    <2> HIDE DEF u
    <2>5. OwnedBy(NameOf[c], u)
      BY <2>3, <2>4 DEF OwnedBy, Whole
    <2> QED  BY <2>1, <2>2, <2>5, ReplacedOwned
  <1> QED
    BY <1>6, <1>7, <1>8, <1>9, <1>10, <1>11, <1>12, <1>13, <1>14 DEF Harmful

(* Handlers that do not overlap write to the timeline of their own user    *)
(* and to no other, and nobody is subscribed to himself, although a LEAVE  *)
(* takes the name off its timeline for a while: for any number of clients, *)
(* with shared names or without.                                           *)
THEOREM SerialOwners ==
  Serial /\ LoadedRoster /\ LoadedOwners => (Spec => []OwnersOnly)
  <1> SUFFICES ASSUME Serial, LoadedRoster, LoadedOwners PROVE Spec => []OwnersOnly
    OBVIOUS
  <1> DEFINE Inv == TypeOK /\ Alone /\ RosterInv /\ OwnersInv
  <1>1. Init => Inv
    <2> SUFFICES ASSUME Init PROVE Inv
      OBVIOUS
    <2>1. Alone /\ OwnersInv
      BY DEF Init, Alone, Busy, Waiting, OwnersInv, LoadedOwners, NotOwn, Joining
    <2> QED  BY <2>1, TypeInit, RosterInit
  <1>2. Inv /\ [Next]_vars => Inv'
    <2> SUFFICES ASSUME Inv, [Next]_vars PROVE Inv'
      OBVIOUS
    <2>1. TypeOK'
      BY TypeNext
    <2>2. CASE UNCHANGED vars
      <3> USE <2>2 DEF vars, lists, pointer, unary, stream
      <3>1. Alone' /\ ListsInStep'
        BY DEF Alone, Busy, RosterInv, ListsInStep, Pushing, Leaving
      <3>2. \A c \in Client : HandInv(c)'
        BY DEF RosterInv, HandInv, Added, Blank
      <3>3. OwnersInv'
        BY DEF OwnersInv, NotOwn
      <3> QED  BY <2>1, <3>1, <3>2, <3>3 DEF RosterInv
    <2>3. CASE Next
      BY <2>1, <2>3, AloneStep, RosterStep, OwnersStep DEF Next
    <2> QED  BY <2>2, <2>3
  <1>3. Inv => OwnersOnly
    <2> SUFFICES ASSUME Inv, NEW i \in DOMAIN timelineList,
                        ~Leaving(i) => timelineList[i].name = userList[i],
                        Leaving(i) => timelineList[i] = EmptyTimeline(NoName)
                 PROVE  OwnedBy(timelineList[i].name, timelineList[i])
      BY DEF OwnersOnly, OwnedBy, RosterInv, ListsInStep, Leaving, HandInv
    <2>1. CASE Leaving(i)
      BY <2>1 DEF OwnedBy, EmptyTimeline, Whole
    <2>2. CASE ~Leaving(i)
      BY <2>2 DEF OwnersInv
    <2> QED  BY <2>1, <2>2
  <1> HIDE DEF Inv
  <1> QED  BY <1>1, <1>2, <1>3, PTL DEF Spec
=============================================================================
