-------------------------- MODULE ChatPersistence --------------------------
(***************************************************************************)
(* Shutdown and restart of the chat server (TimelinesToDisk,               *)
(* TimelinesFromDisk and signalHandler of route_guide_server.cc).          *)
(*                                                                         *)
(* signalHandler runs on the main thread, which waits in server->Wait(),   *)
(* while the threads of the handlers go on: the save reads the globals one *)
(* by one under their feet.  The process may die at any moment of it, and  *)
(* a new one starts from whatever is then in db.bin.                       *)
(***************************************************************************)
EXTENDS ChatServer

CONSTANTS
  Signals,      \* the signals sent to the server, of those main() handles
  MaxSessions   \* bound: how many times a server is started

ASSUME PersistenceAssumption ==
  /\ Signals \subseteq {"SIGINT", "SIGQUIT"}
  /\ MaxSessions \in Nat \ {0}

VARIABLES
  disk,      \* db.bin: can it be parsed, and what is then found in it
  saver,     \* what the main thread is about to do
  caught,    \* the signals whose handler has started
  db,        \* the local TimelineDB of TimelinesToDisk
  held,      \* the value of serverCounter loaded by the save
  owed,      \* history: the posts that have been in a timeline ever since
             \* the save began, each with the index of the timeline
  intact,    \* history: no server started from a file that was cut short
  session    \* how many servers have been started

save  == <<saver, caught, db, held, owed, intact>>
pvars == <<vars, disk, save, session>>

File == [readable : BOOLEAN, timelines : Seq(Timelines), counter : Nat]

(* An absent db.bin and one that does not parse have the same effect.      *)
NoDB == [readable |-> FALSE, timelines |-> <<>>, counter |-> 0]
NewDB == [readable |-> TRUE, timelines |-> <<>>, counter |-> 0]

PostsOf(timelines) == UNION {Whole(timelines[i].statuses) : i \in DOMAIN timelines}
PlacedIn(timelines) ==
  UNION {{i} \X Whole(timelines[i].statuses) : i \in DOMAIN timelines}

PInit ==
  /\ Init
  /\ disk = [readable |-> TRUE, timelines |-> Loaded.timelines,
             counter |-> Loaded.counter]
  /\ saver = "none"
  /\ caught = {}
  /\ db = NewDB
  /\ held = 0
  /\ owed = {}
  /\ intact = TRUE
  /\ session = 1

-----------------------------------------------------------------------------
(* signalHandler and TimelinesToDisk.                                      *)

(* The main thread goes from one stage of the save to another.             *)
Step(from, to) ==
  /\ up
  /\ saver = from
  /\ saver' = to

(* The first signal: pthread_once calls TimelinesToDisk.                   *)
Signal ==
  /\ Step("none", "copy")
  /\ \E n \in Signals : caught' = {n}
  /\ owed' = PlacedIn(timelineList)
  /\ UNCHANGED <<vars, disk, db, held, intact, session>>

(* A signal of the other kind interrupts the save.  Its handler waits in   *)
(* pthread_once for a call that its own thread would have to finish.  (A   *)
(* second signal of the same kind is blocked on the main thread and makes  *)
(* some other thread wait, which is a slow thread to everyone else.)       *)
SecondSignal ==
  /\ saver \notin {"none", "stuck"}
  /\ Step(saver, "stuck")
  /\ \E n \in Signals \ caught : caught' = caught \cup {n}
  /\ UNCHANGED <<vars, disk, db, held, owed, intact, session>>

CopyTimeline ==
  /\ Len(db.timelines) < Len(timelineList)
  /\ Step("copy", "copy")
  /\ db' = [db EXCEPT !.timelines =
              Append(@, timelineList[Len(db.timelines) + 1])]
  /\ UNCHANGED <<vars, disk, caught, held, owed, intact, session>>

(* Mutated form: a copy stops before the last timeline.                    *)
CopyDoneEarly ==
  /\ Len(db.timelines) + 1 >= Len(timelineList)
  /\ Step("copy", "load")
  /\ UNCHANGED <<vars, disk, caught, db, held, owed, intact, session>>

CopyDone ==
  /\ Len(db.timelines) >= Len(timelineList)
  /\ Step("copy", "load")
  /\ UNCHANGED <<vars, disk, caught, db, held, owed, intact, session>>

(* serverCounter += 10: a load and a store, as in stamp().                 *)
LoadCounter ==
  /\ Step("load", "store")
  /\ held' = serverCounter
  /\ UNCHANGED <<vars, disk, caught, db, owed, intact, session>>

StoreCounter ==
  /\ Step("store", "set")
  /\ serverCounter' = held + 10
  /\ held' = 0
  /\ UNCHANGED <<up, lists, pc, unary, pointer, reg, round, stream, posted,
                 disk, caught, db, owed, intact, session>>

(* Mutated form: the counter the save started from is written.             *)
SetCounterUnread ==
  /\ Step("set", "open")
  /\ UNCHANGED <<vars, disk, caught, db, held, owed, intact, session>>

SetCounter ==
  /\ Step("set", "open")
  /\ db' = [db EXCEPT !.counter = serverCounter]
  /\ UNCHANGED <<vars, disk, caught, held, owed, intact, session>>

(* The file is opened with ios::trunc, or cannot be opened.                *)
Open ==
  /\ \/ Step("open", "write") /\ disk' = NewDB
     \/ Step("open", "failed") /\ UNCHANGED disk
  /\ UNCHANGED <<vars, caught, db, held, owed, intact, session>>

(* A part of the message reaches the file.  Its first field is the list of *)
(* timelines, its last the counter: cut between two timelines it parses    *)
(* and has counter 0, cut elsewhere it does not parse.                     *)
WritePart ==
  /\ Step("write", "write")
  /\ \/ disk' = NoDB
     \/ \E n \in 1 .. Len(db.timelines) :
          disk' = [NewDB EXCEPT !.timelines = SubSeq(db.timelines, 1, n)]
  /\ UNCHANGED <<vars, caught, db, held, owed, intact, session>>

WriteDB ==
  /\ Step("write", "exit")
  /\ disk' = db
  /\ UNCHANGED <<vars, caught, db, held, owed, intact, session>>

(* Mutated form: TimelinesToDisk returns and nothing calls exit.           *)
ExitMissing ==
  /\ saver \in {"exit", "failed"}
  /\ Step(saver, "none")
  /\ UNCHANGED <<vars, disk, caught, db, held, owed, intact, session>>

(* exit(0), whether or not the file was written.                           *)
Exit ==
  /\ saver \in {"exit", "failed"}
  /\ Step(saver, "none")
  /\ up' = FALSE
  /\ UNCHANGED <<lists, serverCounter, pc, unary, pointer, reg, round, stream,
                 posted, disk, caught, db, held, owed, intact, session>>

TimelinesToDisk ==
  \/ CopyTimeline \/ CopyDone \/ LoadCounter \/ StoreCounter \/ SetCounter
  \/ Open \/ WritePart \/ WriteDB \/ Exit

(* The process is killed, or dies because the save reads a timeline that a *)
(* handler is writing.                                                     *)
Die ==
  /\ up
  /\ up' = FALSE
  /\ UNCHANGED <<lists, serverCounter, pc, unary, pointer, reg, round, stream,
                 posted, disk, save, session>>

-----------------------------------------------------------------------------
(* A new server.                                                           *)

(* What becomes of a client.  A unary call that fails is reported, and the *)
(* client goes on to its next command; it never logs in again.  A client   *)
(* in chat hangs (its writer thread never ends) until its user restarts it.*)
AfterLoss(c) ==
  IF pc[c] \in {"command", "checkUser", "pushUser", "pushTimeline", "joinFind",
                "joinTest", "joinAdd", "joinAssign", "leaveFind", "leaveCopy",
                "leaveClear", "leaveMerge", "list"}
  THEN "command" ELSE "start"

(* TimelinesFromDisk: users and timelines from the file, in its order.     *)
Restart ==
  /\ ~up /\ session < MaxSessions
  /\ up' = TRUE
  /\ session' = session + 1
  /\ timelineList' = disk.timelines
  /\ userList' = [i \in DOMAIN disk.timelines |-> disk.timelines[i].name]
  /\ serverCounter' = disk.counter
  /\ posted' = PostsOf(disk.timelines)
  /\ pc' = [c \in Client |-> AfterLoss(c)]
  /\ target' = NameOf
  /\ slot' = [c \in Client |-> NULL]
  /\ storage' = [c \in Client |-> 0]
  /\ copy' = [c \in Client |-> <<>>]
  /\ hold' = [c \in Client |-> 0]
  /\ reg' = [c \in Client |-> 0]
  /\ at' = [c \in Client |-> 1]
  /\ messages' = [c \in Client |-> {}]
  /\ source' = [c \in Client |-> NULL]
  /\ seen' = [c \in Client |-> {}]
  /\ tested' = [c \in Client |-> {}]
  /\ wrote' = [c \in Client |-> 0]
  /\ mostRecent' = [c \in Client |-> -1]
  /\ sent' = [c \in Client |-> <<>>]
  /\ intact' = (intact /\ saver \notin {"write", "stuck"})
  /\ saver' = "none" /\ caught' = {} /\ db' = NewDB /\ held' = 0 /\ owed' = {}
  /\ UNCHANGED <<taken, disk>>

-----------------------------------------------------------------------------
(* The handlers go on beside the save.                                     *)

(* A post that a handler removes (a LEAVE clears the timeline) is out of   *)
(* the program, and no save owes it any more.                              *)
Beside ==
  /\ owed' = owed \cap PlacedIn(timelineList')
  /\ UNCHANGED <<disk, saver, caught, db, held, intact, session>>

Serve == Next /\ Beside

PNext ==
  \/ Serve \/ Signal \/ SecondSignal \/ TimelinesToDisk
  \/ Die \/ Restart

PSpec == PInit /\ [][PNext]_pvars

(* The main thread is scheduled, which is all that a save needs to end; in *)
(* PFairSpec the handler threads are scheduled too.  WritePart is bounded  *)
(* by the file; fairness of WriteDB says that a write ends.                *)
SaveFairness == WF_pvars(CopyTimeline \/ CopyDone \/ LoadCounter \/ StoreCounter
                           \/ SetCounter \/ Open \/ WriteDB \/ Exit)
SaveSpec == PSpec /\ SaveFairness
PFairSpec ==
  /\ SaveSpec
  /\ \A c \in Client : WF_pvars(Handler(c) /\ Beside)

-----------------------------------------------------------------------------
(* The file of a save that went through, while handlers kept running, on a *)
(* server that did not itself start from a file cut short.                 *)

(* The new variables have their types, next to those of the server, and    *)
(* while a server is up a signal is caught just when its save is under way.*)
PTypeOK ==
  /\ TypeOK
  /\ disk \in File /\ db \in File
  /\ saver \in {"none", "copy", "load", "store", "set", "open", "write", "exit",
                "failed", "stuck"}
  /\ caught \subseteq Signals
  /\ held \in Nat
  /\ owed \in SUBSET (Nat \X Stats)
  /\ intact \in BOOLEAN
  /\ session \in 0 .. MaxSessions
  /\ up => (caught = {} <=> saver = "none")

(* "Ensure the server time is later than any message": no message in the   *)
(* file has a stamp above the counter in it, although both were read while *)
(* messages were being stamped and stored.                                 *)
SavedTimeIsLatest ==
  saver = "exit" /\ intact =>
    \A s \in PostsOf(disk.timelines) : s.timestamp <= disk.counter

(* Every message that was in a timeline when the signal came, and that no  *)
(* handler has removed since, is in the same timeline of the file.         *)
NothingLost == saver = "exit" => owed \subseteq PlacedIn(disk.timelines)

(* "Use ctrl-c to save to disk and shutdown": once the save has begun the  *)
(* server stops.                                                           *)
SignalStops == (saver # "none") ~> ~up

(* The same for a save that no signal of the other kind interrupts: no     *)
(* loop of it, and nothing the handlers do to the lists it copies, keeps   *)
(* the server from stopping.                                               *)
SaveEnds == (saver # "none") ~> (~up \/ saver = "stuck")
=============================================================================
