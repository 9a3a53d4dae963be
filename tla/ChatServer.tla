----------------------------- MODULE ChatServer -----------------------------
(***************************************************************************)
(* The handlers of the gRPC chat server (route_guide_server.cc), run by a  *)
(* thread each over the global lists and the global counter, which no lock *)
(* protects.                                                               *)
(*                                                                         *)
(* A client makes one call at a time: it logs in, issues JOIN, LEAVE and   *)
(* LIST, and may then open its chat stream, which it never leaves alive.   *)
(* So one stage pc[c] describes both the client and the handler thread     *)
(* that serves it.  A step of a handler is one access to shared memory;    *)
(* what a handler computes on its own variables is part of that step.      *)
(*                                                                         *)
(* Two handlers whose pending accesses conflict race.  What the program    *)
(* may then do is a choice: either order, the loss of one of two writes,   *)
(* or the end of the process.                                              *)
(***************************************************************************)
EXTENDS ChatData, FiniteSets

CONSTANTS
  Client,      \* client processes
  Name,        \* user names
  NoName,      \* the empty string, the name of a cleared timeline
  NameOf,      \* the name each client process logs in with
  Loaded,      \* what TimelinesFromDisk read: timelines and servercounter
  Uses,        \* bound: the commands each client's user types, "QUIT" to end
  K,           \* the 20 of getRecentMessages(name, 20, ...)
  MaxActive,   \* how many handlers may be executing at once
  MaxPosts,    \* bound: messages typed at one client
  MaxSubs      \* bound: subscriptions below which a JOIN is issued

(* A status: the name and the text the client sent, and the server's stamp.*)
(* The text is abstracted to the client it was typed at and its rank.  One *)
(* without a name is no message: it is empty, or was read half cleared.    *)
Stats == [name : Name \cup {NoName}, msg : Client \X Nat, timestamp : Nat]
Whole(statuses) == {s \in statuses : s.name # NoName}

(* What is in a timeline, where a status without a name is empty, and its  *)
(* msg tells which handler is about to assign to it.                       *)
Statuses == {s \in Stats : s.name = NoName => s.timestamp = 0}
Timelines ==
  [name : Name \cup {NoName}, subscribed : Seq(Name \cup {NoName}),
   statuses : SUBSET Statuses]

ASSUME ServerAssumption ==
  /\ NameOf \in [Client -> Name]
  /\ NoName \notin Name
  /\ Loaded \in [timelines : Seq(Timelines), counter : Nat]
  /\ \A i \in DOMAIN Loaded.timelines :
       /\ Loaded.timelines[i].name \in Name
       /\ Whole(Loaded.timelines[i].statuses) = Loaded.timelines[i].statuses
       /\ \A j \in DOMAIN Loaded.timelines[i].subscribed :
            \E k \in DOMAIN Loaded.timelines :
              Loaded.timelines[k].name = Loaded.timelines[i].subscribed[j]
  /\ Uses \in [Client -> SUBSET {"JOIN", "LEAVE", "LIST", "CHAT", "QUIT"}]
  /\ K \in Nat \ {0}
  /\ {MaxActive, MaxPosts, MaxSubs} \subseteq Nat

VARIABLES
  up,             \* the process is alive
  userList, timelineList, serverCounter,   \* the globals
  pc,             \* what the handler thread of each client is about to do
  target,         \* the user named in a JOIN or LEAVE
  slot,           \* the timeline a handler holds, as an index or NULL
  storage,        \* size of timelineList when that pointer was taken
  copy,           \* copyAllButOne.subscribed
  hold,           \* the position of the string add_subscribed() returned
  reg,            \* the value of serverCounter a thread has loaded
  at,             \* i, the loop over the subscriptions
  messages,       \* gathered messages, each with the i it was found at
  source,         \* subbedTimeline, as an index or NULL
  seen,           \* the statuses of it that the loop over j has tested
  tested,         \* the status it is about to copy, as it was when tested
  wrote,          \* messages of this round already written to the stream
  mostRecent,     \* mostRecentMessageSent
  taken,          \* how many messages of the client were read
  sent,           \* what was written to the open stream
  posted          \* history: every message a handler has stored

lists   == <<userList, timelineList>>
unary   == <<target, copy, hold>>
pointer == <<slot, storage>>
scan    == <<source, seen, tested>>
round   == <<at, messages, wrote, scan>>
stream  == <<mostRecent, taken, sent>>
vars    == <<up, lists, serverCounter, pc, unary, pointer, reg, round,
             stream, posted>>

(* Stages in which the client is between calls, or the handler waits in    *)
(* stream->Read: no handler code is executing.                             *)
Waiting == {"start", "command", "read"}
Stage == Waiting \cup
  {"checkUser", "pushUser", "pushTimeline", "joinFind", "joinTest",
   "joinAdd", "joinAssign", "leaveFind", "leaveCopy", "leaveClear",
   "leaveMerge", "list", "hello", "mailbox", "stampLoad", "stampStore",
   "stampReturn", "publish", "assign", "recent", "gather", "scan", "copy",
   "write", "end"}

Active == {c \in Client : pc[c] \notin Waiting}

(* main: TimelinesFromDisk has filled the lists, and the server starts.    *)
Init ==
  /\ up = TRUE
  /\ userList = [i \in DOMAIN Loaded.timelines |-> Loaded.timelines[i].name]
  /\ timelineList = Loaded.timelines
  /\ serverCounter = Loaded.counter
  /\ pc = [c \in Client |-> "start"]
  /\ target = NameOf
  /\ slot = [c \in Client |-> NULL]
  /\ storage = [c \in Client |-> 0]
  /\ copy = [c \in Client |-> <<>>]
  /\ hold = [c \in Client |-> 0]
  /\ reg = [c \in Client |-> 0]
  /\ at = [c \in Client |-> 1]
  /\ messages = [c \in Client |-> {}]
  /\ source = [c \in Client |-> NULL]
  /\ seen = [c \in Client |-> {}]
  /\ tested = [c \in Client |-> {}]
  /\ wrote = [c \in Client |-> 0]
  /\ mostRecent = [c \in Client |-> -1]
  /\ taken = [c \in Client |-> 0]
  /\ sent = [c \in Client |-> <<>>]
  /\ posted = UNION {Loaded.timelines[i].statuses : i \in DOMAIN Loaded.timelines}

(* Thread c is at stage `from` and goes on to stage `to`.                  *)
Goto(c, from, to) ==
  /\ up
  /\ pc[c] = from
  /\ pc' = [pc EXCEPT ![c] = to]
  /\ UNCHANGED up

(* The pointer that thread c holds points into a buffer that push_back has *)
(* replaced since.                                                         *)
Stale(c) ==
  slot[c] # NULL /\ Capacity(storage[c]) # Capacity(Len(timelineList))

(* getTimelinePointer for the caller: the thread keeps the pointer.        *)
TakePointer(c) ==
  /\ slot' = [slot EXCEPT ![c] = getTimelinePointer(timelineList, NameOf[c])]
  /\ storage' = [storage EXCEPT ![c] = Len(timelineList)]

DropPointer(c) ==
  /\ slot' = [slot EXCEPT ![c] = NULL]
  /\ storage' = [storage EXCEPT ![c] = 0]

-----------------------------------------------------------------------------
(* Races.  The memory cells a pending access reads or writes.              *)

Users     == <<"userList", 0>>        \* the vector userList
Rooms     == <<"timelineList", 0>>    \* the vector timelineList
Names     == <<"names", 0>>           \* the names in the timelines
Subs(i)   == <<"subscribed", i>>
Posts(i)  == <<"statuses", i>>

Writes(c) ==
  CASE pc[c] = "pushUser"     -> {Users}
    [] pc[c] = "pushTimeline" -> {Rooms}
    [] pc[c] \in {"joinAdd", "joinAssign"} -> {Subs(slot[c])}
    [] pc[c] \in {"leaveClear", "leaveMerge"} ->
         {Names, Subs(slot[c]), Posts(slot[c])}
    [] pc[c] \in {"publish", "assign"} -> {Posts(slot[c])}
    [] OTHER                  -> {}

(* The timeline that an iteration of the gather loop reads, if any.        *)
GatherIndex(c) ==
  IF slot[c] \in DOMAIN timelineList /\
     at[c] \in DOMAIN timelineList[slot[c]].subscribed
  THEN getTimelinePointer(timelineList,
                          timelineList[slot[c]].subscribed[at[c]])
  ELSE NULL

Reads(c) ==
  CASE pc[c] = "checkUser"                -> {Users}
    [] pc[c] \in {"joinFind", "leaveFind"} -> {Users, Rooms, Names}
    [] pc[c] = "list" ->
         {Users, Rooms, Names,
          Subs(getTimelinePointer(timelineList, NameOf[c]))}
    [] pc[c] \in {"joinTest", "joinAdd", "joinAssign", "leaveCopy",
                  "leaveClear", "leaveMerge"} ->
         {Rooms, Subs(slot[c])}
    [] pc[c] \in {"hello", "mailbox", "recent"} -> {Rooms, Names}
    [] pc[c] \in {"publish", "assign"}    -> {Rooms}
    [] pc[c] = "gather"                   -> {Rooms, Names, Subs(slot[c])}
    [] pc[c] \in {"scan", "copy"}         -> {Rooms, Posts(source[c])}
    [] OTHER                              -> {}

(* Another thread may be in the middle of a conflicting access.            *)
Race(c) ==
  \E d \in Client \ {c} :
    \/ Writes(c) \cap (Reads(d) \cup Writes(d)) # {}
    \/ Reads(c) \cap Writes(d) # {}

(* Another thread writes the same cell: this thread's write may be lost.   *)
LostWrite(c) ==
  \E d \in Client \ {c} : pc[d] = pc[c] /\ Writes(c) \cap Writes(d) # {}

-----------------------------------------------------------------------------
(* Calls: the client's side, which may or may not happen.                  *)

Call(c, from, to) ==
  /\ Cardinality(Active) < MaxActive
  /\ Goto(c, from, to)

(* Bound.  (Without it two overlapping LEAVE of one user can double a list *)
(* of subscriptions, again and again.)                                     *)
SubsBelow(n) ==
  \A i \in DOMAIN timelineList : Len(timelineList[i].subscribed) < n

CallUser(c) ==
  /\ Call(c, "start", "checkUser")
  /\ UNCHANGED <<lists, serverCounter, unary, pointer, reg, round, stream,
                 posted>>

CallJoin(c) ==
  /\ "JOIN" \in Uses[c]
  /\ SubsBelow(MaxSubs)
  /\ Call(c, "command", "joinFind")
  /\ \E n \in Name : target' = [target EXCEPT ![c] = n]
  /\ UNCHANGED <<lists, serverCounter, copy, hold, pointer, reg, round,
                 stream, posted>>

CallLeave(c) ==
  /\ "LEAVE" \in Uses[c]
  /\ SubsBelow(MaxSubs + 1)
  /\ Call(c, "command", "leaveFind")
  /\ \E n \in Name : target' = [target EXCEPT ![c] = n]
  /\ UNCHANGED <<lists, serverCounter, copy, hold, pointer, reg, round,
                 stream, posted>>

CallList(c) ==
  /\ "LIST" \in Uses[c]
  /\ Call(c, "command", "list")
  /\ UNCHANGED <<lists, serverCounter, unary, pointer, reg, round, stream,
                 posted>>

(* The client opens the stream and sends its name.                         *)
CallChat(c) ==
  /\ "CHAT" \in Uses[c]
  /\ Call(c, "command", "hello")
  /\ UNCHANGED <<lists, serverCounter, unary, pointer, reg, round, stream,
                 posted>>

(* stream->Read returns the next message of the client.                    *)
CallMessage(c) ==
  /\ taken[c] < MaxPosts
  /\ Call(c, "read", "mailbox")
  /\ taken' = [taken EXCEPT ![c] = @ + 1]
  /\ UNCHANGED <<lists, serverCounter, unary, pointer, reg, round,
                 mostRecent, sent, posted>>

(* A chatting client ends and takes its stream with it: stream->Read       *)
(* returns false and the handler leaves its loop.  If its handler is busy, *)
(* the client is taken to end when that is done, as no handler looks at    *)
(* the result of a Write.  A client that ends between unary calls leaves   *)
(* no trace at the server, and is one that makes no more calls.            *)
Kill(c) ==
  /\ "QUIT" \in Uses[c]
  /\ Goto(c, "read", "end")
  /\ sent' = [sent EXCEPT ![c] = <<>>]
  /\ mostRecent' = [mostRecent EXCEPT ![c] = -1]
  /\ UNCHANGED <<lists, serverCounter, unary, pointer, reg, round, taken,
                 posted>>

-----------------------------------------------------------------------------
(* User: check the list of users, then push the user and the timeline.     *)

(* Mutated form: the user is pushed whether or not the name is known.      *)
CheckUserNever(c) ==
  /\ Goto(c, "checkUser", "pushUser")
  /\ UNCHANGED <<lists, serverCounter, unary, pointer, reg, round, stream,
                 posted>>

CheckUser(c) ==
  /\ Goto(c, "checkUser",
          IF checkUserList(userList, NameOf[c]) THEN "command" ELSE "pushUser")
  /\ UNCHANGED <<lists, serverCounter, unary, pointer, reg, round, stream,
                 posted>>

PushUser(c) ==
  /\ Goto(c, "pushUser", "pushTimeline")
  /\ \/ userList' = Append(userList, NameOf[c])
     \/ LostWrite(c) /\ UNCHANGED userList
  /\ UNCHANGED <<timelineList, serverCounter, unary, pointer, reg, round,
                 stream, posted>>

PushTimeline(c) ==
  /\ Goto(c, "pushTimeline", "command")
  /\ \/ timelineList' = Append(timelineList, EmptyTimeline(NameOf[c]))
     \/ LostWrite(c) /\ UNCHANGED timelineList
  /\ UNCHANGED <<userList, serverCounter, unary, pointer, reg, round, stream,
                 posted>>

-----------------------------------------------------------------------------
(* Join and Leave: processSubscription and processUnsubscribe.             *)

(* The handler replies, and its locals are gone.                           *)
Reply(c, from) ==
  /\ Goto(c, from, "command")
  /\ target' = [target EXCEPT ![c] = NameOf[c]]
  /\ copy' = [copy EXCEPT ![c] = <<>>]
  /\ hold' = [hold EXCEPT ![c] = 0]
  /\ DropPointer(c)

(* Mutated forms of Refused: one of its two conditions is missing.         *)
RefusedUnknown(c) == ~checkUserList(userList, target[c])
RefusedOwn(c) == target[c] = NameOf[c]

(* Both refuse an unknown user and the caller's own name, and then look    *)
(* for the index of the caller's timeline.                                 *)
Refused(c) == ~checkUserList(userList, target[c]) \/ target[c] = NameOf[c]

FindOwn(c, from, to) ==
  /\ \/ Refused(c) /\ Reply(c, from)
     \/ /\ ~Refused(c)
        /\ Goto(c, from, to)
        /\ slot' = [slot EXCEPT ![c] = OwnIndex(timelineList, NameOf[c])]
        /\ UNCHANGED <<storage, unary>>
  /\ UNCHANGED <<lists, serverCounter, reg, round, stream, posted>>

JoinFind(c)  == FindOwn(c, "joinFind", "joinTest")
LeaveFind(c) == FindOwn(c, "leaveFind", "leaveCopy")

(* The list has names when JOIN looks at its size first, and a LEAVE of    *)
(* the same user empties it before JOIN looks again: "Error in join".      *)
Emptied(c) ==
  /\ timelineList[slot[c]].subscribed # <<>>
  /\ \E d \in Client : pc[d] = "leaveClear" /\ slot[d] = slot[c]

JoinTest(c) ==
  /\ slot[c] \in DOMAIN timelineList
  /\ LET subs == timelineList[slot[c]].subscribed
     IN  \/ /\ AlreadySubscribed(subs, target[c]) \/ Emptied(c)
            /\ Reply(c, "joinTest")
         \/ /\ ~AlreadySubscribed(subs, target[c])
            /\ Goto(c, "joinTest", "joinAdd")
            /\ UNCHANGED <<unary, pointer>>
  /\ UNCHANGED <<lists, serverCounter, reg, round, stream, posted>>

(* add_subscribed() makes room for a name: an empty one, until it is       *)
(* assigned to.  The handler keeps a pointer to it.                        *)
JoinAdd(c) ==
  /\ slot[c] \in DOMAIN timelineList
  /\ Goto(c, "joinAdd", "joinAssign")
  /\ \/ timelineList' =
          [timelineList EXCEPT ![slot[c]].subscribed = Append(@, NoName)]
     \/ LostWrite(c) /\ UNCHANGED timelineList
  /\ hold' = [hold EXCEPT ![c] = Len(timelineList[slot[c]].subscribed) + 1]
  /\ storage' = [storage EXCEPT ![c] = Len(timelineList)]
  /\ UNCHANGED <<userList, serverCounter, target, copy, slot, reg, round,
                 stream, posted>>

(* *hold = userToSubscribeTo.  A LEAVE may have made the list shorter, and *)
(* then the name goes to a string that the list does not use.              *)
JoinAssign(c) ==
  /\ Reply(c, "joinAssign")
  /\ \/ /\ ~Stale(c)
        /\ slot[c] \in DOMAIN timelineList
        /\ hold[c] \in DOMAIN timelineList[slot[c]].subscribed
        /\ timelineList' =
             [timelineList EXCEPT ![slot[c]].subscribed[hold[c]] = target[c]]
     \/ /\ \/ Stale(c)
           \/ /\ slot[c] \in DOMAIN timelineList
              /\ hold[c] \notin DOMAIN timelineList[slot[c]].subscribed
        /\ UNCHANGED timelineList
  /\ UNCHANGED <<userList, serverCounter, reg, round, stream, posted>>

(* Nobody is subscribed to: nothing to leave.                              *)
LeaveNobody(c) ==
  /\ slot[c] \in DOMAIN timelineList
  /\ timelineList[slot[c]].subscribed = <<>>
  /\ Reply(c, "leaveCopy")
  /\ UNCHANGED <<lists, serverCounter, reg, round, stream, posted>>

LeaveCopy(c) ==
  /\ slot[c] \in DOMAIN timelineList
  /\ timelineList[slot[c]].subscribed # <<>>
  /\ Goto(c, "leaveCopy", "leaveClear")
  /\ copy' = [copy EXCEPT ![c] =
                CopyAllButOne(timelineList[slot[c]].subscribed, target[c])]
  /\ UNCHANGED <<lists, serverCounter, target, hold, pointer, reg, round,
                 stream, posted>>

(* timelineList[temp] = copyAllButOne, which has the caller's name and no  *)
(* statuses.  The assignment clears the target and then merges the source: *)
(* another thread can find the timeline without its name in between.       *)
LeaveClear(c) ==
  /\ slot[c] \in DOMAIN timelineList
  /\ Goto(c, "leaveClear", "leaveMerge")
  /\ timelineList' = [timelineList EXCEPT ![slot[c]] = EmptyTimeline(NoName)]
  /\ UNCHANGED <<userList, serverCounter, unary, pointer, reg, round, stream,
                 posted>>

LeaveMerge(c) ==
  /\ slot[c] \in DOMAIN timelineList
  /\ Reply(c, "leaveMerge")
  /\ timelineList' = [timelineList EXCEPT
       ![slot[c]].name = NameOf[c],
       ![slot[c]].subscribed = @ \o copy[c]]
  /\ UNCHANGED <<userList, serverCounter, reg, round, stream, posted>>

(* List: changes nothing.  Its variable temp has no initial value, so a    *)
(* caller without a timeline makes it read an element at any index.        *)
List(c) ==
  /\ Goto(c, "list", "command")
  /\ UNCHANGED <<lists, serverCounter, unary, pointer, reg, round, stream,
                 posted>>

-----------------------------------------------------------------------------
(* chat: greet with the stored messages, then read, stamp, store, reply.   *)

(* The handler has the client's name and calls getRecentMessages(.., -1).  *)
Hello(c) ==
  /\ Goto(c, "hello", "gather")
  /\ TakePointer(c)
  /\ mostRecent' = [mostRecent EXCEPT ![c] = -1]
  /\ sent' = [sent EXCEPT ![c] = <<>>]
  /\ UNCHANGED <<lists, serverCounter, unary, reg, round, taken, posted>>

(* Whose mailbox a message goes to.  Without one it is not stamped, not    *)
(* stored, and the reply is made all the same.                             *)
FindMailbox(c) ==
  /\ Goto(c, "mailbox",
          IF getTimelinePointer(timelineList, NameOf[c]) = NULL
          THEN "recent" ELSE "stampLoad")
  /\ TakePointer(c)
  /\ UNCHANGED <<lists, serverCounter, unary, reg, round, stream, posted>>

(* stamp(): serverCounter += 1, then return serverCounter, loaded again.   *)
StampLoad(c) ==
  /\ Goto(c, "stampLoad", "stampStore")
  /\ reg' = [reg EXCEPT ![c] = serverCounter]
  /\ UNCHANGED <<lists, serverCounter, unary, pointer, round, stream, posted>>

(* Mutated form: the increment is forgotten.                               *)
StampStoreSame(c) ==
  /\ Goto(c, "stampStore", "stampReturn")
  /\ serverCounter' = reg[c]
  /\ UNCHANGED <<lists, unary, pointer, reg, round, stream, posted>>

StampStore(c) ==
  /\ Goto(c, "stampStore", "stampReturn")
  /\ serverCounter' = reg[c] + 1
  /\ UNCHANGED <<lists, unary, pointer, reg, round, stream, posted>>

StampReturn(c) ==
  /\ Goto(c, "stampReturn", "publish")
  /\ reg' = [reg EXCEPT ![c] = serverCounter]
  /\ UNCHANGED <<lists, serverCounter, unary, pointer, round, stream, posted>>

Recved(c) ==
  [name |-> NameOf[c], msg |-> <<c, taken[c]>>, timestamp |-> reg[c]]
Blank(c) ==
  [name |-> NoName, msg |-> <<c, taken[c]>>, timestamp |-> 0]

(* mailbox->add_statuses(): an empty status.  Through a dangling pointer,  *)
(* or against a second writer of the timeline, it may be lost.             *)
Publish(c) ==
  /\ Goto(c, "publish", "assign")
  /\ \/ /\ ~Stale(c)
        /\ slot[c] \in DOMAIN timelineList
        /\ timelineList' = [timelineList EXCEPT
                              ![slot[c]].statuses = @ \cup {Blank(c)}]
     \/ /\ Stale(c) \/ LostWrite(c)
        /\ UNCHANGED timelineList
  /\ UNCHANGED <<userList, serverCounter, unary, pointer, reg, round, stream,
                 posted>>

(* Where the pointer temp leads: to the status that was added, or, once a  *)
(* LEAVE has cleared the timeline, to any that took its place since.       *)
Temp(c) ==
  LET now == timelineList[slot[c]].statuses
  IN  IF Blank(c) \in now THEN {Blank(c)} ELSE now

(* *temp = recved.  The status may be one that the timeline does not use.  *)
Assign(c) ==
  /\ Goto(c, "assign", "recent")
  /\ \/ /\ ~Stale(c)
        /\ slot[c] \in DOMAIN timelineList
        /\ \E s \in Temp(c) :
             timelineList' = [timelineList EXCEPT
                                ![slot[c]].statuses = (@ \ {s}) \cup {Recved(c)}]
     \/ /\ \/ Stale(c)
           \/ /\ slot[c] \in DOMAIN timelineList
              /\ Blank(c) \notin timelineList[slot[c]].statuses
        /\ UNCHANGED timelineList
  /\ posted' = posted \cup {Recved(c)}
  /\ reg' = [reg EXCEPT ![c] = 0]
  /\ DropPointer(c)
  /\ UNCHANGED <<userList, serverCounter, unary, round, stream>>

Recent(c) ==
  /\ Goto(c, "recent", "gather")
  /\ TakePointer(c)
  /\ UNCHANGED <<lists, serverCounter, unary, reg, round, stream, posted>>

(* Mutated form: the loop stops before the last subscription.              *)
MoreButLast(c) ==
  /\ slot[c] \in DOMAIN timelineList
  /\ at[c] < Len(timelineList[slot[c]].subscribed)

(* The loop of getRecentMessages has another subscription to look at.      *)
MoreToGather(c) ==
  /\ slot[c] \in DOMAIN timelineList
  /\ at[c] <= Len(timelineList[slot[c]].subscribed)

(* The next turn of the loop over i looks up the timeline subscribed to.   *)
(* (One that is not found is taken for one without statuses.)              *)
GatherNext(c) ==
  /\ MoreToGather(c) /\ ~Stale(c)
  /\ Goto(c, "gather", "scan")
  /\ source' = [source EXCEPT ![c] = GatherIndex(c)]
  /\ UNCHANGED <<lists, serverCounter, unary, pointer, reg, at, messages,
                 seen, tested, wrote, stream, posted>>

(* s is status t, or what has been assigned to the empty status t.         *)
Became(t, s) == s = t \/ (t.name = NoName /\ s.msg = t.msg)

(* The statuses of the timeline that the loop over j is in.                *)
Scanned(c) ==
  UNION {timelineList[i].statuses : i \in {source[c]} \cap DOMAIN timelineList}

(* The test: is the status newer than mostRecentTime?                      *)
GatherTest(c) ==
  /\ ~Stale(c)
  /\ \E s \in Scanned(c) :
       /\ \A t \in seen[c] : ~Became(t, s)
       /\ Goto(c, "scan", IF Newer({s}, mostRecent[c]) = {} THEN "scan" ELSE "copy")
       /\ seen' = [seen EXCEPT ![c] = @ \cup {s}]
       /\ tested' = [tested EXCEPT ![c] = Newer({s}, mostRecent[c])]
  /\ UNCHANGED <<lists, serverCounter, unary, pointer, reg, at, messages,
                 source, wrote, stream, posted>>

(* What a copy of status t finds: t, or what was assigned to it since; or, *)
(* when a LEAVE has cleared the timeline in between, something that is no  *)
(* message, with the stamp of an empty status, that of t, or that of a     *)
(* status which has taken its place.                                       *)
Copies(c, t) ==
  LET same == {s \in Scanned(c) : Became(t, s)}
  IN  IF same # {} THEN same
      ELSE {[t EXCEPT !.name = NoName, !.timestamp = n] :
              n \in {0, t.timestamp} \cup {s.timestamp : s \in Scanned(c)}}

GatherCopy(c) ==
  /\ ~Stale(c)
  /\ Goto(c, "copy", "scan")
  /\ \E t \in tested[c] : \E s \in Copies(c, t) :
       messages' = [messages EXCEPT ![c] = @ \cup {<<at[c], s>>}]
  /\ tested' = [tested EXCEPT ![c] = {}]
  /\ UNCHANGED <<lists, serverCounter, unary, pointer, reg, at, source, seen,
                 wrote, stream, posted>>

(* All were tested, or, when a LEAVE has cleared the timeline meanwhile,   *)
(* as many as it now has.                                                  *)
ScanOver(c) ==
  /\ ~Stale(c)
  /\ \/ \A s \in Scanned(c) : \E t \in seen[c] : Became(t, s)
     \/ \E t \in seen[c] : \A s \in Scanned(c) : ~Became(t, s)

(* Mutated form: the loop does not go on to the next subscription.         *)
GatherAgain(c) ==
  /\ ScanOver(c)
  /\ Goto(c, "scan", "gather")
  /\ source' = [source EXCEPT ![c] = NULL]
  /\ seen' = [seen EXCEPT ![c] = {}]
  /\ UNCHANGED <<lists, serverCounter, unary, pointer, reg, at, messages,
                 tested, wrote, stream, posted>>

(* The loop over j is done.                                                *)
GatherEnd(c) ==
  /\ ScanOver(c)
  /\ Goto(c, "scan", "gather")
  /\ at' = [at EXCEPT ![c] = @ + 1]
  /\ source' = [source EXCEPT ![c] = NULL]
  /\ seen' = [seen EXCEPT ![c] = {}]
  /\ UNCHANGED <<lists, serverCounter, unary, pointer, reg, messages, tested,
                 wrote, stream, posted>>

(* The caller has no timeline, or all its subscriptions were looked at, or *)
(* what a loop finds behind a dangling pointer ends it.                    *)
GatherDone(c) ==
  /\ \/ ~MoreToGather(c) /\ Goto(c, "gather", "write")
     \/ Stale(c) /\ \E from \in {"gather", "scan", "copy"} : Goto(c, from, "write")
  /\ source' = [source EXCEPT ![c] = NULL]
  /\ seen' = [seen EXCEPT ![c] = {}]
  /\ tested' = [tested EXCEPT ![c] = {}]
  /\ DropPointer(c)
  /\ UNCHANGED <<lists, serverCounter, unary, reg, at, messages, wrote, stream,
                 posted>>

(* Mutated form: the comparison of the sort is turned round.               *)
Newest(c) ==
  {e \in messages[c] :
     \A f \in messages[c] : e[2].timestamp >= f[2].timestamp}

(* Mutated form: messages are sent in any order, as if never sorted.       *)
OldestUnsorted(c) == messages[c]

(* The messages that sort may put first.                                   *)
Oldest(c) ==
  {e \in messages[c] :
     \A f \in messages[c] : e[2].timestamp <= f[2].timestamp}

(* Mutated form: the result is not cut to K messages.                      *)
WriteUncut(c) ==
  /\ Goto(c, "write", "write")
  /\ \E e \in Oldest(c) :
       /\ messages' = [messages EXCEPT ![c] = @ \ {e}]
       /\ sent' = [sent EXCEPT ![c] = Append(@, e[2])]
       /\ mostRecent' = [mostRecent EXCEPT
            ![c] = IF e[2].timestamp > @ THEN e[2].timestamp ELSE @]
  /\ wrote' = [wrote EXCEPT ![c] = @ + 1]
  /\ UNCHANGED <<lists, serverCounter, unary, pointer, reg, at, scan, taken,
                 posted>>

(* One iteration of the loop that writes the result to the stream.  The    *)
(* result is sorted by ascending timestamp and cut to its first K.         *)
WriteNext(c) ==
  /\ wrote[c] < K
  /\ Goto(c, "write", "write")
  /\ \E e \in Oldest(c) :
       /\ messages' = [messages EXCEPT ![c] = @ \ {e}]
       /\ sent' = [sent EXCEPT ![c] = Append(@, e[2])]
       /\ mostRecent' = [mostRecent EXCEPT
            ![c] = IF e[2].timestamp > @ THEN e[2].timestamp ELSE @]
  /\ wrote' = [wrote EXCEPT ![c] = @ + 1]
  /\ UNCHANGED <<lists, serverCounter, unary, pointer, reg, at, scan, taken,
                 posted>>

WriteDone(c) ==
  /\ messages[c] = {} \/ wrote[c] = K
  /\ Goto(c, "write", "read")
  /\ at' = [at EXCEPT ![c] = 1]
  /\ messages' = [messages EXCEPT ![c] = {}]
  /\ wrote' = [wrote EXCEPT ![c] = 0]
  /\ UNCHANGED <<lists, serverCounter, unary, pointer, reg, scan, stream,
                 posted>>

(* The read loop is over, and chat has no return statement.                *)
EndChat(c) ==
  /\ Goto(c, "end", "start")
  /\ UNCHANGED <<lists, serverCounter, unary, pointer, reg, round, stream,
                 posted>>

-----------------------------------------------------------------------------
(* What the next access of this thread does is undefined: it races, it     *)
(* follows a dangling pointer, it indexes outside the list, it uses the    *)
(* uninitialised temp of processListRequest, or it returns no Status.      *)
IsUndefined(c) ==
  \/ Race(c)
  \/ pc[c] \in {"publish", "assign", "gather", "scan", "copy", "joinAssign"} /\
       Stale(c)
  \/ pc[c] \in {"joinTest", "joinAdd", "joinAssign", "leaveCopy", "leaveClear",
                "leaveMerge"} /\
       slot[c] \notin DOMAIN timelineList
  \/ pc[c] = "list" /\ getTimelinePointer(timelineList, NameOf[c]) = NULL
  \/ pc[c] = "end"

(* It may end the process.                                                 *)
Crash(c) ==
  /\ up /\ IsUndefined(c)
  /\ up' = FALSE
  /\ UNCHANGED <<lists, serverCounter, pc, unary, pointer, reg, round, stream,
                 posted>>

User(c)  == CheckUser(c) \/ PushUser(c) \/ PushTimeline(c)
Join(c)  == JoinFind(c) \/ JoinTest(c) \/ JoinAdd(c) \/ JoinAssign(c)
Leave(c) ==
  LeaveFind(c) \/ LeaveNobody(c) \/ LeaveCopy(c) \/ LeaveClear(c) \/ LeaveMerge(c)
stamp(c) == StampLoad(c) \/ StampStore(c) \/ StampReturn(c)
getRecentMessages(c) ==
  \/ Recent(c) \/ GatherNext(c) \/ GatherTest(c) \/ GatherCopy(c)
  \/ GatherEnd(c) \/ GatherDone(c)
chat(c)  ==
  \/ Hello(c) \/ FindMailbox(c) \/ stamp(c) \/ Publish(c) \/ Assign(c)
  \/ getRecentMessages(c) \/ WriteNext(c) \/ WriteDone(c) \/ EndChat(c)

Handler(c) == User(c) \/ Join(c) \/ Leave(c) \/ List(c) \/ chat(c) \/ Crash(c)

Calls(c) ==
  \/ CallUser(c) \/ CallJoin(c) \/ CallLeave(c) \/ CallList(c) \/ CallChat(c)
  \/ CallMessage(c) \/ Kill(c)

Next == \E c \in Client : Handler(c) \/ Calls(c)

Spec == Init /\ [][Next]_vars

(* The system runs every handler thread that can take a step.  Nothing is  *)
(* assumed of the clients.                                                 *)
Fairness == \A c \in Client : WF_vars(Handler(c))
FairSpec == Spec /\ Fairness

-----------------------------------------------------------------------------
(* What holds however the handlers interleave.                             *)

(* The variables have their types: the shape of every global, of every     *)
(* local of the handlers and of the history, as declared in the code.      *)
TypeOK ==
  /\ up \in BOOLEAN
  /\ userList \in Seq(Name \cup {NoName})
  /\ timelineList \in Seq(Timelines)
  /\ serverCounter \in Nat
  /\ pc \in [Client -> Stage]
  /\ target \in [Client -> Name]
  /\ slot \in [Client -> Nat]
  /\ storage \in [Client -> Nat]
  /\ copy \in [Client -> Seq(Name \cup {NoName})]
  /\ hold \in [Client -> Nat]
  /\ reg \in [Client -> Nat]
  /\ at \in [Client -> Nat \ {0}]
  /\ messages \in [Client -> SUBSET (Nat \X Stats)]
  /\ source \in [Client -> Nat]
  /\ seen \in [Client -> SUBSET Statuses]
  /\ tested \in [Client -> SUBSET Statuses]
  /\ wrote \in [Client -> 0..K]
  /\ mostRecent \in [Client -> Int]
  /\ taken \in [Client -> Nat]
  /\ sent \in [Client -> Seq(Stats)]
  /\ posted \in SUBSET Stats
  /\ Whole(posted) = posted

(* Every message that getRecentMessages has gathered, or is about to copy, *)
(* is newer than all that the stream carries until the first of it is      *)
(* written, and never older than what has been written of it since: no     *)
(* round resends what an earlier round sent, and sorting one round keeps   *)
(* the whole stream in order.  What a LEAVE cleared between the test and   *)
(* the copy is no message, and may have any stamp.                         *)
RoundOrder ==
  \A c \in Client :
    /\ pc[c] \notin {"gather", "scan", "copy", "write"} => messages[c] = {}
    /\ pc[c] # "copy" => tested[c] = {}
    /\ \A t \in tested[c] : t.timestamp > mostRecent[c]
    /\ \A e \in messages[c] : e[2].name # NoName =>
         /\ e[2].timestamp >= mostRecent[c]
         /\ pc[c] # "write" => e[2].timestamp > mostRecent[c]

(* Each chat stream carries its messages with timestamps that never        *)
(* decrease, whatever other handlers do in the meantime, and not even an   *)
(* empty or torn one among them is above mostRecentMessageSent.            *)
StreamOrder ==
  \A c \in Client :
    /\ \A i \in DOMAIN sent[c] : sent[c][i].timestamp <= mostRecent[c]
    /\ \A i, j \in DOMAIN sent[c] :
         i < j /\ sent[c][j].name # NoName =>
           sent[c][i].timestamp <= sent[c][j].timestamp

(* Everyone subscribed to, anywhere, is in userList, and so is every name  *)
(* a handler is about to write to a list of subscriptions: the name was    *)
(* checked in an earlier step, and other handlers have run since.  The one *)
(* exception is the empty name of a JOIN that has added it and not yet     *)
(* assigned to it.                                                         *)
Registered(names) ==
  \A j \in DOMAIN names : names[j] = NoName \/ checkUserList(userList, names[j])

SubscriptionsRegistered ==
  /\ \A i \in DOMAIN timelineList : Registered(timelineList[i].subscribed)
  /\ \A c \in Client :
       /\ pc[c] \in {"joinTest", "joinAdd", "joinAssign"} =>
            checkUserList(userList, target[c])
       /\ Registered(copy[c])

(* What timelines hold, what a handler is about to copy and what it has    *)
(* copied before the timelines changed again was posted, unless it is      *)
(* empty or torn.                                                          *)
AllPosted ==
  /\ \A i \in DOMAIN timelineList : Whole(timelineList[i].statuses) \subseteq posted
  /\ \A c \in Client :
       /\ Whole(tested[c]) \subseteq posted
       /\ \A e \in messages[c] : e[2].name # NoName => e[2] \in posted

(* The inductive invariant behind FeedSpec.                                *)
ChatInv == TypeOK /\ RoundOrder /\ StreamOrder /\ AllPosted

(* The handlers implement the abstract feed: what they deliver was posted, *)
(* in timestamp order, or is not a message at all, over any interleaving   *)
(* of their memory accesses.                                               *)
Feed == INSTANCE ChatFeed WITH
  posted <- posted, sent <- sent, mostRecent <- mostRecent
FeedSpec == Feed!Spec

(* Every call is answered, and every round of a chat returns to Read,      *)
(* unless the process dies: no loop of a handler runs for ever.            *)
HandlerReturns ==
  \A c \in Client : (pc[c] \notin Waiting) ~> (pc[c] \in Waiting \/ ~up)

-----------------------------------------------------------------------------
(* What holds when handlers do not overlap and names are not shared.       *)

(* The timelines and the users are the same names in the same order, each  *)
(* once, whenever no handler is running.                                   *)
RosterMatchesTimelines ==
  Active = {} =>
    /\ userList = [i \in DOMAIN timelineList |-> timelineList[i].name]
    /\ \A i, j \in DOMAIN userList : userList[i] = userList[j] => i = j

(* Posts of all timelines carry distinct stamps, and the counter is at     *)
(* least the latest of them: "Increments and returns the latest time".     *)
StampsAreLatest ==
  /\ \A s \in posted : s.timestamp <= serverCounter
  /\ \A s, t \in posted : s.timestamp = t.timestamp => s = t

(* A timeline holds posts of its owner only, and its owner is not in its   *)
(* own list of subscriptions.                                              *)
OwnersOnly ==
  \A i \in DOMAIN timelineList :
    LET t == timelineList[i]
    IN  /\ \A s \in Whole(t.statuses) : s.name = t.name
        /\ \A j \in DOMAIN t.subscribed : t.subscribed[j] # t.name

(* The names a user's first timeline subscribes to, and their posts.       *)
Subscriptions(c) ==
  LET own == getTimelinePointer(timelineList, NameOf[c])
  IN  IF own = NULL THEN <<>> ELSE timelineList[own].subscribed

Visible(c) ==
  UNION {Whole(timelineList[i].statuses) : i \in
    {i \in DOMAIN timelineList : \E j \in DOMAIN Subscriptions(c) :
       Subscriptions(c)[j] = timelineList[i].name}}

(* No gap: once a round is written, every post the client can see that is  *)
(* not newer than mostRecentMessageSent has been on this stream.  This is  *)
(* why the cut to K messages must keep the oldest of them.                 *)
NoGap ==
  \A c \in Client : pc[c] = "read" =>
    \A s \in Visible(c) :
      s.timestamp <= mostRecent[c] => \E i \in DOMAIN sent[c] : sent[c][i] = s

(* A post is on a stream once for each time its author is subscribed to,   *)
(* and not again in a later round.                                         *)
NoDuplicate ==
  \A c \in Client : \A i, j \in DOMAIN sent[c] :
    (i # j /\ sent[c][i] = sent[c][j]) =>
      \E k, l \in DOMAIN Subscriptions(c) :
        k # l /\ Subscriptions(c)[k] = Subscriptions(c)[l]

(* A round that ends leaves nothing unsent that the client can see, unless *)
(* it has sent K messages: the next message typed brings the rest.         *)
RoundDrains ==
  [][\A c \in Client : (pc[c] = "write" /\ pc'[c] = "read") =>
       wrote[c] = K \/ \A s \in Visible(c) : s.timestamp <= mostRecent[c]]_vars

(* The names a user is subscribed to; in the middle of a LEAVE, those that *)
(* are about to be written back.  A JOIN has not happened before it has    *)
(* assigned the name, nor a post before its assignment.                    *)
Followed(n) ==
  LET own == getTimelinePointer(timelineList, n)
      leaving == {c \in Client : pc[c] = "leaveMerge" /\ NameOf[c] = n}
      subs == IF own = NULL THEN <<>> ELSE timelineList[own].subscribed
  IN  ({subs[j] : j \in DOMAIN subs} \cup
         UNION {{copy[c][j] : j \in DOMAIN copy[c]} : c \in leaving}) \ {NoName}

Page(n) ==
  LET own == getTimelinePointer(timelineList, n)
  IN  IF own = NULL THEN {} ELSE Whole(timelineList[own].statuses)

(* The lists, with their indices, copies and assignments in two halves,    *)
(* implement the board: a command works on the timeline of its caller and  *)
(* on no other, and takes effect at one step.                              *)
Board == INSTANCE ChatBoard WITH
  users   <- {userList[i] : i \in DOMAIN userList},
  follows <- [n \in Name |-> Followed(n)],
  pages   <- [n \in Name |-> Page(n)]
BoardSpec == Board!Spec

-----------------------------------------------------------------------------
(* What comments of the source say, and the code does not do.              *)

(* "Gets the most recent k messages": the first message of the greeting is *)
(* not older than K other posts that the client can see.                   *)
GreetsWithMostRecent ==
  \A c \in Client : (pc[c] = "write" /\ Len(sent[c]) = 1 /\ wrote[c] = 1) =>
    Cardinality({s \in Visible(c) : s.timestamp > sent[c][1].timestamp}) < K

(* "We create a new list, copy everything but the room the user wants to    *)
(* leave, and store it back", a list that "contains all of the User's      *)
(* original chatrooms except for the one they left": a LEAVE of somebody   *)
(* the user is not subscribed to takes neither a post nor another name     *)
(* from the user's timeline.                                               *)
LeavesOnlyTheRoom ==
  [][\A c \in Client : (pc[c] = "leaveClear" /\ pc'[c] = "leaveMerge") =>
       LET t == timelineList[slot[c]]
       IN  target[c] \notin {t.subscribed[j] : j \in DOMAIN t.subscribed} =>
             /\ \A j \in DOMAIN t.subscribed :
                  \E k \in DOMAIN copy[c] : copy[c][k] = t.subscribed[j]
             /\ t.statuses \subseteq timelineList'[slot[c]].statuses]_vars
=============================================================================
