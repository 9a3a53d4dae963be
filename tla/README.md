# A TLA+ model of chatroom-server2

The repository holds two chat rooms. The current one is a gRPC service,
`framework/route_guide/route_guide_server.cc`, with its client
`route_guide_client.cc` and messages `chatservice.proto`. The first version is
a plain socket server with one thread per room, `oldCode/fbsd.cpp`, with the
client `fbc.cpp` and the reads and writes of `common.h`. `src/fbsd.cpp` is an
unfinished port of the first to the second. Two pairs of tutorial programs, an
address book in a file and a gRPC greeter, are kept beside them. These modules
model all of these programs step by step, check them with TLC on small
instances, and prove their safety properties with TLAPS for all instances, under
hypotheses where the code needs them.

Paths below are relative to `src/`; `server.cc` and `client.cc` are short for
the two gRPC files.

## 1. Inventory

| Component | State it keeps | Operations | Talks to |
|---|---|---|---|
| Chat server handlers (`server.cc`) | `userList`, `timelineList`, `serverCounter`: globals without a lock; per handler thread the locals of the call | `User`, `Join`, `Leave`, `List`, `chat` | clients by unary calls and one bidirectional stream; other handlers through the globals |
| Shutdown and restart (`server.cc` 499-551) | `db.bin`, the `pthread_once` object | `signalHandler`, `TimelinesToDisk`, `TimelinesFromDisk` | reads and writes the globals from the main thread while handlers run |
| Chat client (`client.cc`) | user name, the stream, the writer's last line, `cin` | `user`, `join`, `leave`, `list`, `commandMode`; in `chat`, a thread that reads the stream and one that reads the keyboard | the server by calls and the stream; its two threads through stream and keyboard |
| Room server (`oldCode/fbsd.cpp`) | `rooms`, `fds`, `nextPort`, `serv`; per room thread an index into `rooms` | main room: CREATE, JOIN, DELETE, disconnect; room: forward, leave, close | clients by TCP; threads through the globals |
| Room client (`fbc.cpp`) | `fd`, `port`, `join` | read, follow a port, rejoin, type | room server by TCP |
| Sockets (`common.h`) | what is in flight | `cread`, `cwrite` | both of the above |
| Address book (`examples/addressbook/add_person.cc`, `list_people.cc`) | a file; per process a copy of it | read, prompt, truncate and write; read and print | other processes through the file |
| Greeter (`framework/greeter_client.cc`, `greeter_server.cc`) | none | `SayHello`, `SayHelloAgain`, one after the other | client and server by unary calls |
| Unfinished port (`fbsd.cpp`, `chatserver.proto`) | - | - | not built: it includes a header nobody generates |
| Makefiles, generated code | - | - | not modelled |

What is hard in each, and what makes it correct:

* **Handlers.** Any number run at once, over vectors that reallocate. Pointers
  and indices into `timelineList` are kept across other handlers' steps; a name
  is checked in one step and used in a later one; `LEAVE` replaces a timeline
  as a whole; a status and a subscription stand in their lists empty before they
  are assigned. Correct means: the messages of a stream were posted and come in
  the order of their stamps; undisturbed, none comes twice and no round of a chat
  loses what a later round will not ask for again; subscriptions name registered
  users; every call returns.
* **Shutdown and restart.** The save copies the lists one by one under running
  handlers, writes in place after truncating, and can be cut short. Correct
  means: a complete file has a counter above all its stamps, loses nothing
  that was there at the signal, and the process ends.
* **Room server.** Room threads refer to rooms by an index looked up once;
  lists are erased from inside loops that count through them; a port is handed
  out before anyone listens there. Correct means: each connection is in one
  list at most, a client that waits is listened to, a deleted room goes.
* **Room client.** It moves between connections by what it reads, and reads can
  drop messages.
* **Chat client.** Two threads use one stream; the results of `getline`, `Write`
  and the login are not looked at; the server may go away at any moment and come
  back with or without what it knew. Correct means: the server hears the name
  and then what was typed, in order; neither a silent user nor a slow stream
  keeps a line or a reply from its reader; calls come in the order the handlers
  rely on without checking it.
* **Address book.** A file is read, a user is asked, the file is truncated and
  written. Correct means: nobody is lost while adders keep apart, and nobody is
  invented, even by programs that are cut short, while no two of them write at once.
* **Greeter.** A failed call may have been executed. Correct means: what is
  printed was made for the call at hand, and no call is executed twice.

`PROJECT.json` lists the hazards line by line.

## 2. Modules

| Module | Lines of the code | Content |
|---|---|---|
| `ChatData` | loops of `server.cc` 130-191, 278-381 | the searches and copies over users, timelines and subscriptions, as operators |
| `ChatServer` | `server.cc` 121-497, `client.cc` 92-281 | every handler, one action per access to shared memory, and the calls clients make; the properties |
| `ChatFeed` | - | abstract specification: what a chat stream promises a client |
| `ChatBoard` | - | abstract specification: users, whom they follow and their pages, as sets |
| `ChatCalls` | - | abstract specification: the order of calls between a client and a server |
| `ChatClient` | `client.cc` 75-281 | the client's two threads, its keyboard and its stream, with a server that comes and goes; the properties |
| `ChatServerProofs` | - | theorems about `ChatServer` with overlapping handlers, and `ChatFeed` |
| `ChatSerialProofs`, `ChatRoundProofs` | - | theorems about `ChatServer` with one handler at a time: the lists; the rounds of a chat |
| `ChatBoardProofs` | - | theorem that the lists implement `ChatBoard` |
| `ChatPersistenceProofs` | - | theorems about `ChatPersistence` |
| `ClientProofs`, `ExampleProofs` | - | theorems about `ChatClient`; about `AddressBook` and `Greeter` |
| `RoomProofs` | - | theorems about `Rooms` |
| `ChatPersistence` | `server.cc` 499-587 | extends `ChatServer` by the save, the file, death and restart |
| `RoomNet` | `common.h` | connections, backlogs, `cread`, `cwrite` |
| `RoomServer` | `oldCode/fbsd.cpp` | the main thread and the room threads |
| `RoomClient` | `fbc.cpp` | the clients' loop and their users |
| `Rooms` | - | composes the last two over `RoomNet`; the properties |
| `AddressBook` | `add_person.cc`, `list_people.cc`, `addressbook.proto` | processes on one file |
| `Greeter` | `greeter_client.cc`, `greeter_server.cc` | callers and a server that comes and goes |
| `MCChat`, `MCPersistence`, `MCClient`, `MCRooms`, `MCExamples` | - | constants for TLC; the last runs the two examples side by side |

### The gRPC server

`pc[c]` is the stage of client `c` and of the handler thread that serves it: a
client makes one call at a time, so one stage describes both. Stages are named
after what the thread is about to do: `CheckUser`, `PushUser` and
`PushTimeline` are the body of `User`; `JoinFind`, `JoinTest`, `JoinAdd` and
`JoinAssign` are `processSubscription`; `LeaveFind`, `LeaveCopy`, `LeaveClear`,
`LeaveMerge` (or `LeaveNobody`) are `processUnsubscribe`, where the assignment of a
protobuf message is a clear followed by a merge; `Hello`, `FindMailbox`, `StampLoad`,
`StampStore`, `StampReturn`, `Publish`, `Assign`, `Recent`, `GatherNext`, `GatherTest`,
`GatherCopy`, `GatherEnd`, `GatherDone`, `WriteNext`, `WriteDone` and `EndChat` are
`chat` with `stamp` and `getRecentMessages` inlined. `slot` and `storage` are the
pointer or index a handler holds and the size of the vector when it was taken:
`Stale` says that the vector has been reallocated since.

Lists are filled in two steps, as in the code. `JoinAdd` puts an empty name
(`NoName`) at the end of the subscriptions and keeps its position in `hold`, and
`JoinAssign` gives it its value. `Publish` adds an empty status, without a name and
with stamp 0 (`Blank`), and `Assign` gives it its value (`Temp` is where the
pointer leads). What an empty status will become is known by its `msg`, which tells
the handler that is about to assign to it. Anything may happen in between: another
handler or the save reads the empty name or status, or a LEAVE clears the timeline,
after which the late assignment goes to an object that the list does not use, or to
one that has taken its place.

A round of `getRecentMessages` goes through the subscriptions with `at` (the `i` of
the code) and through the statuses of `source` (`subbedTimeline`), where `seen` is
those that `j` has passed. `GatherTest` compares one with the mark and, if it is
newer, remembers it in `tested`; `GatherCopy` copies it in a later step and finds
what is there by then: the status, or what was assigned to it, or, when the timeline
was cleared in between, something without a name, with the stamp of an empty status or
of another one (`Copies`). A status without a name is nobody's message.

Undefined behaviour is a choice between what the build can produce. When two
pending accesses conflict (`Race`), they happen in either order, one of two
writes is lost (`LostWrite`), or the process ends (`Crash`). A read through a
dangling pointer finds nothing more, a write through one is lost, or the
process ends. So does indexing outside the list, the uninitialised `temp` of
`processListRequest`, and `chat`, which returns no status. `Clear` of a protobuf
list keeps its objects for later use: a pointer into a cleared list is therefore
valid, and an assignment through it is lost or lands in the object of whoever has
taken it since. A search of `userList` or `timelineList` that runs to its end, and
`LeaveCopy` with its loops over one list of subscriptions, are one step each.

Data that no property tells apart is abstracted: a text is the client it was
typed at and its rank, replies to unary calls are left out, the statuses of a
timeline are a set because the code only filters and sorts them. A client that
ends while its handler is busy is taken to end when the handler is back at
`Read` (`Kill`): no handler looks at the result of a `Write`, so the server does
the same things in both cases. Clients with `"QUIT"` in `Uses` may end so.

Two abstract specifications stand over these handlers. `ChatFeed` is what the
streams look like (`FeedSpec`, proved): posted messages in order (`Deliver`), and
among them what names nobody (`Garble`). `ChatBoard` forgets that there are two
lists searched by index: users are a set, subscriptions and posts are sets for
each user, and a command changes what belongs to its caller at one moment. The
refinement (`BoardSpec`) reads `userList` and the first timeline of each name; a
LEAVE takes effect when the assignment has cleared the timeline, so until the
merge `follows` also holds the names in `copy`, and a JOIN or a post counts from its
assignment on.

### The chat client

`main[c]` and `writer[c]` are the program counters of the two threads. The main
thread logs in, gives commands and, in `chat`, opens the stream, sends the name,
starts the writer and reads; the writer alternates `getline` and `Write`. A line
is the list of its words, since `commandMode` splits it at spaces; in chat it is
a message. `Getline` is what `std::getline(cin, s)` does to `s`: give out the
next line; on finding nothing but the end, clear `s` and fail; once the end has
been seen (`eofbit`, at once if the last line had no newline), fail and leave `s`
alone. Nobody asks whether it failed, so a client in command mode reads blank
commands for ever, and one in chat sends its last string again and again.

The server in this module is whatever answers calls while it is up: it takes
messages from a stream in order (`Hear`), writes after it has heard the name
(`Answer`), and may go away (`GoDown`), with what is on its way lost or not, and
come back (`ComeUp`). `Write` waits while the stream's window is full and fails
silently on a lost stream; `Read` returns what is left and then false.

`ChatServer` and `ChatClient` see the boundary between them from its two sides,
and `ChatCalls` states it: a client logs in, makes one call at a time, may open its
stream, and never comes back from it. `ClientCalls` shows that the program in
`client.cc` keeps to it whatever is typed and however often the server goes away.
`ChatServer` gives its clients these calls by construction (`Calls`), which is an
assumption of that module and no result. A login that fails counts as one: the
client goes on to its commands, as the code does.

### Shutdown and restart

`saver` is the program counter of the main thread: copy each timeline, add ten
to the counter (a load and a store), set it in the message, open with
`trunc`, write, `exit(0)`. `WritePart` leaves a prefix of the file, which parses
with fewer timelines and no counter if it ends between two fields; an empty
file parses as an empty database, after which the server prints that logs were
found. Handlers run on (`Serve`). The history `owed` holds the posts that were in
timelines at the signal, each with the place of its timeline in the list, and loses
those that a handler removes meanwhile (`Beside`): a LEAVE has dropped them itself
(`LeaveOther`). A complete file holds what is owed in the same places
(`NothingLost`). It need not be closed under subscription: a save between
`add_subscribed()` and its assignment writes an empty name, and one in the middle of
a LEAVE a timeline without a name, whose followers then name nobody. The code does
both with a single handler beside the save, so no property denies it. `Restart`
starts a new server from whatever is in the file. A client in
command mode survives a restart without logging in again; it then has no
timeline until it does, and `JOIN` and `LEAVE` work on the first timeline of the
list because their index starts there (`OwnIndex`). `SaveRestart` has such a LEAVE: it clears the timeline of another user, with
her posts, while the next save goes on.

### The room server

The main thread selects, accepts with priority, or scans its ready
connections: `MasterRead` is the read and the search for the room,
`process_request` what is then done with the request. A room thread resolves
and binds its address through the shared `serv` (`Resolve`, `Bind`, `Listen`),
looks its index up once (`Lookup`), and loops (`Loop`, `Select`, `Accept`,
`Scan`, `Scanned`) until it sees the `close` flag (`Goodbye`, `Erase`). The
listening socket is an element of `members`, as in the code, which matters for
the loop that closes every second member (`EverySecond`): the loop erases while it
counts, the first of the sockets it closes is the listening one, and closing that
cuts off who still waits there (`Close`). Threads get their port through a
pointer to a local that may be gone: they find their port, a later one, or
garbage and exit. A thread that was told a later port, or looks its room up when
rooms have moved, puts its listening socket, and then its visitors, into a room
that another thread serves. `select` then reports that socket like any other
(`Knocked`), `recv` fails on it, and it is closed and erased (`Reads`).

The model keeps ports as numbers from the master port on, and messages as their
kind with a port or a sender. `num_members`, which only appears in the text of an
answer and is never decremented, is left out. Messages are assumed to be short
(several fit in 255 bytes) and room names not to start with `CHAT`, the prefix
by which a client recognises the goodbye of a room.

### The examples

An adder reads the book (an absent file is an empty one, an unreadable one ends
the program), appends the person its user describes, opens the file with `trunc`
and writes. `WritePart` leaves a prefix, which parses if it is cut between two
people. When two adders write at once each has its own file offset, so the later
write covers the front of the earlier one: `mixed` records whose file has been
truncated or written since it was opened, and such a write leaves its own
book, that book with a tail of the other's, or a file that does not parse. The tail
may begin inside a record, say in a phone number, and the bytes from there on may
parse as a person whom nobody typed in: `Stray` stands for that person. `NoStranger`
is therefore claimed only while no adder has written a file that another has touched
since it opened it (`clean`); once one has, there are strangers within the bounds of
`Examples`.
`PromptForAddress` is the person made of a user's answers: an id that is not a
number fails `cin`, and every later answer is blank. The greeter's server goes
away before or after a call was executed, and the client sees the same failure.

## 3. What is checked

Bounds are the constants of each `.cfg`. `MaxActive` is the number of handlers that
may be executing at once: 1 asks what the algorithms do, 2 what they do to each
other (each race in this code is between two threads).

| Run | Expect | What it shows |
|---|---|---|
| `ChatSerial` | pass | 3 clients, 3 names, one handler at a time. The two global lists agree and have no duplicates (`RosterMatchesTimelines`); stamps are distinct and below the counter (`StampsAreLatest`); timelines hold posts of their owner only (`OwnersOnly`); a reader misses no message at or below its mark (`NoGap`), gets none twice unless subscribed twice (`NoDuplicate`), and a round that is not full leaves nothing unsent (`RoundDrains`). K = 2 with two authors makes rounds that are cut and rounds that are not. The lists implement the board (`BoardSpec`). |
| `ChatOverlap` | pass | 3 clients, two handlers at once: a reader, two processes of one user writing one timeline, one of which may first LEAVE the reader and so clear that timeline under the reader's loop. Half-done and half-cleared statuses are read in some of the behaviours. The inductive invariant `ChatInv` holds and the server implements `ChatFeed` (`FeedSpec`). |
| `ChatLive` | pass | 3 users, two handlers at once, on a file in which two follow each other: one joins and leaves, which clears the timeline the other reads; the other chats; the third logs in, which reallocates the list. With fair handler threads every call and every round returns (`HandlerReturns`); `RoundOrder`, `StreamOrder` and `SubscriptionsRegistered` hold on the way. |
| `SaveRestart` | pass | A save during a login, a JOIN, posts and a LEAVE by a user whose timeline an earlier file lost, either or both signals, a death at any point, and a restart: `SavedTimeIsLatest`, `NothingLost`; a save that no second signal interrupts ends the server (`SaveEnds`). |
| `ClientChat` | pass | A client that may type three lines, end its input and be restarted, and a server that comes and goes. `HeardIsTyped`; `EveryLineHeard` and `EveryReplyShown` under fair threads; the client implements `ChatCalls` (`ClientCalls`). |
| `RoomServe` | pass | Two clients, one room name, two ports: create, enter, talk, delete, create again, with one client that may end at any time. `OneList`, `EveryoneHeard`, `DeletedRoomGoes`. |
| `Examples` | pass | Two adders and a lister, three programs started in all; a greeter client and its server. `ApartKeepsAll`, `NoStranger` (while no two adders write at once), `GreetedOnce`. |
| `Greeting` | violation | `server.cc:144` promises the most recent k messages; the code sorts ascending and keeps the first k, which are the oldest. |
| `LeaveOther` | violation | Leaving a user one is not subscribed to removes the first subscription instead (`server.cc:311`, against the comment at 379), and replaces the timeline by one without posts (`server.cc:364`, against the comment at 344). |
| `SecondSignal` | violation | A SIGQUIT during the save of a SIGINT waits for itself in `pthread_once`; the server never stops (`server.cc:549`, against 569). |
| `ClientEnds` | violation | The writer's loop has no way out, so when the stream has ended the main thread waits in `join` for ever (`client.cc:177`, against the comment at 192). |
| `RoomShift` | violation | Deleting a room moves up the rooms behind it but not the indices of their threads; a room deleted later is then never erased (`fbsd.cpp:84`, against the comments at 143 and 339). |

Each property of a passing run has a mutated form of the code beside the
definition it mutates ("Mutated form" in the comments) that violates it.

**Bounds.** Messages are posted once or twice per client: rounds compare only two
messages at a time, and one more than K is enough to have a cut. Two sessions
show every restart, since a third depends on the file alone, as the second does.
Two lines per client in `RoomServe` are the shortest in which a room is created,
entered by the other client and talked in, or deleted with a member inside and
created anew; one room name keeps the indices of the threads valid, and
`RoomShift` shows what a second one does. A window of two messages is the smallest in
which a `Write` can both go ahead and wait, and with three lines one is left when
it does; one client is enough in `ClientChat`, because clients share nothing but
the server. Three runs of the address book programs are an adder before, and two
that overlap; more would only repeat the states of the file.

**Deadlock.** `CHECK_DEADLOCK FALSE` is set in every run: a server whose process has
ended, and clients that have used up their bounded lines, really do stop.

**Fairness.** `FairSpec` assumes weak fairness of each handler thread, `PFairSpec`
also of the main thread during a save, `RFairSpec` of the main thread, each room
thread and each client's loop: these are threads of running programs that never
wait for a lock, and the operating system schedules them. `SaveSpec` assumes only
the main thread of the server, which is all a save needs: `WriteDB` is in it, so
a write ends. `CFairSpec` assumes each of the two threads of a client, and that
the server goes on taking messages from a stream, which is what `HandlerReturns`
shows of it; both threads only wait for the user and for the stream. Nothing is assumed of
users: they need not type, and may leave at any time. A select that has
something to report reports it, so a room thread does not time out for ever
while messages wait.

**What a user of `RoomServe` does.** `MaxAhead = 1`: a user reads the answer of the
main room before typing the next line. Without this, `EveryoneHeard` fails: with
`MaxAhead = 2` a user types a second line while an answer is on its way, that
answer clears the `join` flag, the port of the room is not followed, and the
server has already erased the connection from `fds`. The client then types into a
connection that no thread reads.

**Races that have no run of their own.** With `MaxActive = 2`, `StampsAreLatest` is
violated (two `stamp()` return one value; the comment at `server.cc:123` knows),
`RosterMatchesTimelines` is violated (two processes with one new name both find it
free and register it twice), `BoardSpec` is violated (its posts are stamped above
all others), and, with two writers, so is `SavedTimeIsLatest` (one
writer has loaded the counter, the other posts, and the first then overwrites
both that post's stamp and the save's `serverCounter += 10`). `ChatOverlap` and
`ChatLive` run with these races enabled: the order of the messages on a stream
survives them. It is the order of messages only: a status that was empty when it was
copied, or cleared between its test and its copy, is written too, has stamp 0 or that
of another, and may come anywhere. (That is why `RoundOrder`, `StreamOrder`,
`AllPosted` and `ChatFeed` speak of statuses with a name.) What a reader can miss
is a message stamped before and stored after another it has already got, or one that
its round copied while it was still empty.

`RoomServe` has one room name, and so one room at a time; that what is said in one
room does not reach another is not claimed. Once a room is deleted in front of
another it is false: a later thread puts its listening socket into a room it does not
serve. What holds with any rooms is that a socket is in one list, once, and open
(`OneList`): that is proved for any names (`RoomsOneList`), threads at work in each
other's rooms included, and what happens to the rooms then is `RoomShift`.

**Other things met on the way.** A message reaches a reader only in the reply to
a line the reader types, since a round is made only after a `Read`. A save during
a `LEAVE` can write a timeline without a name, and one during a `JOIN` a subscription
without one. A JOIN to a user whose timeline is not pushed yet can make the file name
a user without a timeline. A greeting that overlaps a post can carry an empty message.
A client told the port of a room may find nobody listening yet and exit.

## 4. What is proved

TLAPS checks the theorems below for any sets of clients and names, any bounds and
any K, from the assumptions on the constants that the modules name; TLC evaluates
these in every run. What a theorem needs beyond them is a hypothesis in its
statement.

| Theorem | States | Hypotheses |
|---|---|---|
| `TypeCorrect`, `Invariant`, `RoundsInOrder`, `StreamsInOrder`, `AlwaysRegistered` | types, `ChatInv`, `RoundOrder`, `StreamOrder`, `SubscriptionsRegistered` | none: handlers overlap |
| `ImplementsFeed` | `Spec => FeedSpec` | none |
| `SerialOwners` | `OwnersOnly` | `Serial`, `LoadedRoster`, `LoadedOwners` |
| `SerialBoard` | `Spec => BoardSpec` | `Serial` and the three on the file |
| `SerialNoGap`, `SerialDrains` | `NoGap`, `RoundDrains` | `Serial`, `Unshared`, `LoadedStamps`, `LoadedRoster` |
| `SerialNoDuplicate` | `NoDuplicate` | the same and `LoadedOwners` |
| `SavedTypes`, `SavedPosts` | `PTypeOK`, `NothingLost` | none: handlers overlap |
| `SavedTime` | `SavedTimeIsLatest` | `Serial`, `LoadedStamps` |
| `ClientTypes`, `HeardAsTyped` | `CTypeOK`, `HeardIsTyped` | none |
| `ClientKeepsProtocol` | `CSpec => ClientCalls` | none |
| `AddressTypes`, `OnlyEntered`, `ApartNothingLost` | `ATypeOK`, `NoStranger`, `ApartKeepsAll` | none |
| `GreetedAtMostOnce` | `GreetedOnce` | none |
| `RoomTypes`, `RoomsOneList` | `RTypeOK`, `OneList` | none: rooms in any order |

`Serial` is `MaxActive = 1` with finitely many clients. It is the question what the
algorithms do when they are not disturbed, and section 3 says which properties
fail without it. `Unshared`: no two clients use one name. The three on the file
(`LoadedStamps`: stamps are distinct and not above the counter; `LoadedRoster`:
names are distinct; `LoadedOwners`: posts carry the name of their timeline and
nobody follows himself) are what a server leaves whose handlers did not overlap each
other and whose save met none of them.

**Overlapping handlers** (`ChatServerProofs`).

* `StreamOrder` alone is not inductive: that appending a message keeps the stream in
  order needs to know that what was gathered is not older than what the stream
  carries, which is `RoundOrder`, and that the writer takes the oldest first.
  Both speak of a handler's own variables only, so steps of other handlers, races
  included, cannot disturb them. What they do to the lists shows when `GatherCopy`
  reads again what `GatherTest` has compared: it finds a stamp above the mark or
  something without a name, because an empty status passes the test only in a greeting,
  whose mark is below every stamp, and any other is still what it was (`GatherOrder`).
* A `WriteNext` is a `Deliver` of `ChatFeed`, or a `Garble` when what it writes has no
  name, an `Assign` is a `Post`, `Hello` and `Kill` are `Reset`, and every other step
  stutters. It needs `AllPosted`, the remaining conjunct
  of `ChatInv`: what a handler gathered was posted, although the timeline may have
  changed since.
* `AlwaysRegistered` needs that users are never removed (`UsersGrow`) and speaks of the
  names in flight (`target`, `copy`) as well as of those in timelines, so that a
  check in an early step still counts in a later one. The empty name between `JoinAdd`
  and `JoinAssign` is let through, as the code does.

**Serial handlers** (`ChatSerialProofs`). The first lemma is mutual exclusion, `Alone`:
at most one handler has accesses left to make. (The handler of a killed client is at
its end and may be there beside another.) So a handler's locals still describe the
lists when it uses them, and each property gets an invariant that says what the
handler in the middle has in hand:

* `StampInv`: between `StampLoad` and `StampStore` the loaded value is the counter, and
  until `Assign` no message has the stamp in hand. The lemma `SerialStamps` is that
  stamps are then distinct; overlapping handlers repeat them, so it is a step on the
  way to the board and the rounds and no result about the server.
* `RosterInv` = `ListsInStep` and `HandInv`: `userList` is ahead by one name between
  `PushUser` and `PushTimeline`, a timeline has lost its name between `LeaveClear` and
  `LeaveMerge`, and a slot or an empty name in hand is that of its user. Likewise
  the lemma `SerialRoster`.
* `OwnersInv`: what a JOIN is about to add, and what a LEAVE is about to write back, is not
  the name of its own user.

**The board** (`ChatBoardProofs`). The mapping reads `userList` and the timelines; lemmas say
how it changes when one timeline does, which depends on names being distinct
(`RosterInv`). A `LeaveClear` implements the board's LEAVE because what the
handler copied is still all of the list but one entry (`CopyInv`); the merge then
changes nothing that the board sees, nor does the addition of a name or a status that
is still empty (`Listed`, `Whole`). `BoardInv` is the conjunction of all these.

**Rounds** (`ChatRoundProofs`). `NamedInv`: a status without a name is one its handler is
about to assign to, so that a serial round meets none. `GapInv`: while messages are
gathered, what is later than the mark in the timelines already visited (`Gathered`),
and among the statuses already passed in the present one (`ScanInv`), is in `messages`
or about to be copied; while they are written,
each visible message is sent or in `messages`; and at all other stages of a chat every
visible message up to the mark is sent. That cutting a round after K messages is
safe rests on stamps being distinct (`StampInv`) and on the writer taking the oldest
first (`RoundOrder`). `OnceInv`: what was gathered stands under the name it was found
by, and was not sent before, unless its author is listed twice (`Doubled`).

**The save** (`ChatPersistenceProofs`).

* The types need no help: a user that a new server takes from a timeline without a
  name has the empty one (`userList` in `TypeOK`).
* `OwedInv`: until the copy is done, each post that is owed is in its timeline, and in
  the copy of that timeline if there is one (`Kept`). What a timeline loses is no
  longer owed, and timelines never change places. So this survives any handlers.
* `CounterInv`: the counter, and what the save and `stamp()` have loaded of it, is not
  below the posts that count (`Counted`), which are all of them until the copy is
  done and from then on those that were copied. The last step is what lets the save
  race with `stamp()`: a store that throws the counter back still leaves it above
  what the file will hold, since handlers do not overlap each other.

**The client** (`ClientProofs`). `MainMoves` lists where the main thread can go from each
place, and each of these pairs is a step or a stutter of `ChatCalls`. For
`HeardIsTyped`, `StreamInv` counts what was written to an open stream (`Written`:
heard or on its way) against what was typed in chat, with one greeting before it:
equal when the writer is about to read, one less when it holds a line, and more only
after the end of the input, when each further message is the last line
again (`Fits`).

**The examples** (`ExampleProofs`). `Held`: everybody in the file, in a
process's copy or in what a torn write leaves was entered, or is a stray when two
have written at once (`Everyone`). `Kept`: as long as adders keep
apart, the file is what was saved and the copy that one adder holds is that
and one more. `GreetInv`: the server has executed the call at hand exactly when it is
answered, and never a later one.

**The rooms** (`RoomProofs`).

* Types rest on `RoomsFit`: a port can be given out for each CREATE that is on its
  way or being dealt with. A read takes requests from the front of what is in flight
  or drops them, and so never adds to their number (`CreatesShift`, with the
  theorems on finite sets). Whatever room a thread's index points to, what it adds
  to its list is a socket that was made.
* `RoomsOneList` must survive threads at work in each other's rooms, so `ListsInv`
  says nothing of whose room it is. `In` and `Once` say which sockets a list of lists
  holds, and how often, without positions: erasing one element, erasing every
  second, appending, and erasing a whole room each come down to a map from the new
  positions to the old ones that is one-to-one (`FewerMembers`). What a list
  holds is open because every step that closes a socket also erases it. What a
  step adds is in no list yet: a connection that is still queued, or the
  listening socket of a thread that has not looked for its room.

**Only model-checked.** Liveness (`HandlerReturns`, `SaveEnds`, `EveryLineHeard`,
`EveryReplyShown`, `EveryoneHeard`, `DeletedRoomGoes`), which is beyond the prover.

## 5. Not modelled, and why

* Text: parsing of commands, replies, printing.
* Failure of `getaddrinfo` and `socket`, messages of
  255 bytes and more, more than 20 connections waiting at one port.
* Descriptor numbers. A socket that one thread closes is gone for all; a number that
  the system gives out again, while another thread still holds it, is not modelled.
* `serverCounter` runs into a signed overflow after 2^31 stamps of one session, which
  is undefined. Users who type do not get there; a client at the end of its input
  needs days. The model counts without a bound.
* `src/fbsd.cpp`, the port: its main loop is replaced by a gRPC server without a
  service, the handlers it keeps from the first version are never called, and it
  includes a header that is not generated. There is no behaviour to model. (Those
  handlers are copies of the ones in `oldCode/fbsd.cpp`, which are modelled; the two
  `fbc.cpp` are one file twice, and `map` names either.)
* `chatservice.pb.h` and `chatservice.grpc.pb.h`, almost half of the lines of the
  repository, are generated by protoc: accessors of one field each, and stubs. What
  the programs rely on of them is in the models (a message is a record that is copied by
  value, an assignment clears and then merges, a stream is ordered).
* `initTimelineList` and `makeMessage`, which nothing calls, `printUserList`, which
  is called only under a constant that is false, and the makefiles.

## 6. Plan

Done: the gRPC server with two abstract specifications, its shutdown and restart,
its client, the first version's rooms, the examples, and proofs of the safety
properties that the runs check. What is left:

A lemma for each step that `HandlerReturns` rests on (each stage of a handler
decreases a measure), so that only the temporal argument stays with TLC.
