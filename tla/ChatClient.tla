----------------------------- MODULE ChatClient -----------------------------
(***************************************************************************)
(* The chat client (route_guide_client.cc): its main thread, which reads   *)
(* commands and later what the server writes to the chat stream; its       *)
(* writer thread, which sends what is typed; and the keyboard both read.   *)
(*                                                                         *)
(* The server is whatever answers calls while it is up.  It may go away at *)
(* any time, may come back, and then knows nothing of the streams it had.  *)
(***************************************************************************)
EXTENDS Integers, Sequences

CONSTANTS
  Client,       \* client processes
  Line,         \* what a user may type, each line as the list of its words
  MaxTyped,     \* bound: lines typed at one process
  MaxReplies,   \* bound: messages the server writes to one stream
  MaxHeard,     \* bound: messages the server takes from one stream
  Window        \* messages a stream holds before Write blocks

(* A message without text, and what getline leaves in an empty string.     *)
Blank == <<"">>

ASSUME ClientAssumption ==
  /\ Line \subseteq Seq(STRING) /\ <<>> \notin Line
  /\ {MaxTyped, MaxReplies, MaxHeard, Window} \subseteq Nat

VARIABLES
  up,         \* the server is up
  main,       \* what the main thread is about to do or waits for
  writer,     \* what the writer thread is about to do
  input,      \* lines typed that cin has not given out
  ended,      \* will more be typed, and did the last line have its newline?
  eofbit,     \* cin has seen the end of its input
  line,       \* tempMessage of the writer
  typed,      \* how many lines were typed
  stream,     \* the chat stream: not there, usable, or lost with the server
  toServer,   \* messages written that the server has not taken
  toClient,   \* how many messages of the server wait to be read
  replied,    \* how many the server has written
  shown,      \* history: how many of those were printed
  chatted,    \* history: the lines that the writer got from cin
  heard       \* history: what the server took from the stream

keyboard == <<input, eofbit>>
user     == <<ended, typed>>
wire     == <<stream, toServer, toClient, replied>>
history  == <<shown, chatted, heard>>
cvars    == <<up, main, writer, keyboard, line, user, wire, history>>

CInit ==
  /\ up \in BOOLEAN
  /\ main = [c \in Client |-> "user"]
  /\ writer = [c \in Client |-> "none"]
  /\ input = [c \in Client |-> <<>>]
  /\ ended = [c \in Client |-> "no"]
  /\ eofbit = [c \in Client |-> FALSE]
  /\ line = [c \in Client |-> Blank]
  /\ typed = [c \in Client |-> 0]
  /\ stream = [c \in Client |-> "none"]
  /\ toServer = [c \in Client |-> <<>>]
  /\ toClient = [c \in Client |-> 0]
  /\ replied = [c \in Client |-> 0]
  /\ shown = [c \in Client |-> 0]
  /\ chatted = [c \in Client |-> <<>>]
  /\ heard = [c \in Client |-> <<>>]

Main(c, from, to) == main[c] = from /\ main' = [main EXCEPT ![c] = to]

(* getline(cin, str): l is what str holds afterwards, kept what it held.   *)
(* A getline that finds nothing but the end clears str, and one called     *)
(* after the end was seen leaves it alone.  (Both fail; nobody asks.)      *)
Getline(c, kept, l) ==
  \/ /\ ~eofbit[c] /\ input[c] # <<>>
     /\ l = Head(input[c])
     /\ input' = [input EXCEPT ![c] = Tail(@)]
     /\ eofbit' = [eofbit EXCEPT
                     ![c] = ended[c] = "partial" /\ Len(input[c]) = 1]
  \/ /\ ~eofbit[c] /\ input[c] = <<>> /\ ended[c] # "no"
     /\ l = Blank
     /\ eofbit' = [eofbit EXCEPT ![c] = TRUE]
     /\ UNCHANGED input
  \/ /\ eofbit[c]
     /\ l = kept
     /\ UNCHANGED keyboard

(* stream->Write: waits for room, and returns false on a lost stream.      *)
Write(c, m) ==
  \/ /\ stream[c] = "open" /\ Len(toServer[c]) < Window
     /\ toServer' = [toServer EXCEPT ![c] = Append(@, m)]
  \/ stream[c] # "open" /\ UNCHANGED toServer

-----------------------------------------------------------------------------
(* The main thread.                                                        *)

(* main constructs the client, on a channel that connects when it is used, *)
(* and logs in.                                                            *)
LogIn(c) ==
  /\ Main(c, "user", "login")
  /\ UNCHANGED <<up, writer, keyboard, line, user, wire, history>>

(* A unary call returns: the server has answered it, or it failed.  The    *)
(* client says which and goes on in both cases, after a login as well.     *)
Returned(c) ==
  /\ Main(c, "login", "command") \/ Main(c, "call", "command")
  /\ UNCHANGED <<up, writer, keyboard, line, user, wire, history>>

(* What commandMode makes of the words of a line.                          *)
Command(words) ==
  CASE words[1] = "LIST"                                    -> "call"
    [] words[1] \in {"JOIN", "LEAVE"} /\ Len(words) = 2     -> "call"
    [] words[1] = "CHAT"                                    -> "chat"
    [] OTHER                                                -> "command"

commandMode(c) ==
  /\ \E l \in Line \cup {Blank} :
       Getline(c, Blank, l) /\ Main(c, "command", Command(l))
  /\ UNCHANGED <<up, writer, line, user, wire, history>>

(* Mutated form: the writer is started before the name is sent.            *)
OpenAndStart(c) ==
  /\ Main(c, "chat", "greet")
  /\ stream' = [stream EXCEPT ![c] = IF up THEN "open" ELSE "lost"]
  /\ writer' = [writer EXCEPT ![c] = "getline"]
  /\ UNCHANGED <<up, keyboard, line, user, toServer, toClient, replied, history>>

(* chat: stub->chat starts the call.                                       *)
Open(c) ==
  /\ Main(c, "chat", "greet")
  /\ stream' = [stream EXCEPT ![c] = IF up THEN "open" ELSE "lost"]
  /\ UNCHANGED <<up, writer, keyboard, line, user, toServer, toClient, replied,
                 history>>

(* Mutated form: the main thread waits for the writer before it reads.     *)
GreetAndJoin(c) ==
  /\ Main(c, "greet", "join")
  /\ Write(c, Blank)
  /\ writer' = [writer EXCEPT ![c] = "getline"]
  /\ UNCHANGED <<up, keyboard, line, user, stream, toClient, replied, history>>

(* The first message has the user's name and no text; then the writer      *)
(* thread is started.                                                      *)
Greet(c) ==
  /\ Main(c, "greet", "read")
  /\ Write(c, Blank)
  /\ writer' = [writer EXCEPT ![c] = "getline"]
  /\ UNCHANGED <<up, keyboard, line, user, stream, toClient, replied, history>>

(* stream->Read returns a message, which is printed.                       *)
Show(c) ==
  /\ toClient[c] > 0
  /\ Main(c, "read", "read")
  /\ toClient' = [toClient EXCEPT ![c] = @ - 1]
  /\ shown' = [shown EXCEPT ![c] = @ + 1]
  /\ UNCHANGED <<up, writer, keyboard, line, user, stream, toServer, replied,
                 chatted, heard>>

(* Mutated form: chat returns and the main thread reads commands again.    *)
ReadEndsReturning(c) ==
  /\ toClient[c] = 0 /\ stream[c] = "lost"
  /\ Main(c, "read", "command")
  /\ UNCHANGED <<up, writer, keyboard, line, user, wire, history>>

(* stream->Read returns false, and the main thread waits in writer.join(), *)
(* for good: nothing in the writer's loop leaves it.                       *)
ReadEnds(c) ==
  /\ toClient[c] = 0 /\ stream[c] = "lost"
  /\ Main(c, "read", "join")
  /\ UNCHANGED <<up, writer, keyboard, line, user, wire, history>>

-----------------------------------------------------------------------------
(* The writer thread.                                                      *)

NextLine(c) ==
  /\ writer[c] = "getline"
  /\ \E l \in Line \cup {Blank} :
       /\ Getline(c, line[c], l)
       /\ line' = [line EXCEPT ![c] = l]
  /\ writer' = [writer EXCEPT ![c] = "write"]
  /\ chatted' = [chatted EXCEPT
       ![c] = IF input'[c] # input[c] THEN Append(@, Head(input[c])) ELSE @]
  /\ UNCHANGED <<up, main, user, wire, shown, heard>>

(* Mutated form: the thread sends one line and ends.                       *)
SendOnce(c) ==
  /\ writer[c] = "write"
  /\ Write(c, line[c])
  /\ writer' = [writer EXCEPT ![c] = "none"]
  /\ UNCHANGED <<up, main, keyboard, line, user, stream, toClient, replied,
                 history>>

(* The result of Write is not looked at.                                   *)
Send(c) ==
  /\ writer[c] = "write"
  /\ Write(c, line[c])
  /\ writer' = [writer EXCEPT ![c] = "getline"]
  /\ UNCHANGED <<up, main, keyboard, line, user, stream, toClient, replied,
                 history>>

-----------------------------------------------------------------------------
(* The user: types, ends the input, or ends the process and starts another.*)

Type(c) ==
  /\ ended[c] = "no" /\ typed[c] < MaxTyped
  /\ typed' = [typed EXCEPT ![c] = @ + 1]
  /\ \E l \in Line : input' = [input EXCEPT ![c] = Append(@, l)]
  /\ UNCHANGED <<up, main, writer, eofbit, line, ended, wire, history>>

EndInput(c) ==
  /\ ended[c] = "no"
  /\ \E e \in {"newline", "partial"} :
       /\ e = "partial" => input[c] # <<>>
       /\ ended' = [ended EXCEPT ![c] = e]
  /\ UNCHANGED <<up, main, writer, keyboard, line, typed, wire, history>>

Quit(c) ==
  /\ main' = [main EXCEPT ![c] = "user"]
  /\ writer' = [writer EXCEPT ![c] = "none"]
  /\ input' = [input EXCEPT ![c] = <<>>]
  /\ ended' = [ended EXCEPT ![c] = "no"]
  /\ eofbit' = [eofbit EXCEPT ![c] = FALSE]
  /\ line' = [line EXCEPT ![c] = Blank]
  /\ typed' = [typed EXCEPT ![c] = 0]
  /\ stream' = [stream EXCEPT ![c] = "none"]
  /\ toServer' = [toServer EXCEPT ![c] = <<>>]
  /\ toClient' = [toClient EXCEPT ![c] = 0]
  /\ replied' = [replied EXCEPT ![c] = 0]
  /\ shown' = [shown EXCEPT ![c] = 0]
  /\ chatted' = [chatted EXCEPT ![c] = <<>>]
  /\ heard' = [heard EXCEPT ![c] = <<>>]
  /\ UNCHANGED up

-----------------------------------------------------------------------------
(* The server.                                                             *)

Hear(c) ==
  /\ stream[c] = "open" /\ toServer[c] # <<>> /\ Len(heard[c]) < MaxHeard
  /\ heard' = [heard EXCEPT ![c] = Append(@, Head(toServer[c]))]
  /\ toServer' = [toServer EXCEPT ![c] = Tail(@)]
  /\ UNCHANGED <<up, main, writer, keyboard, line, user, stream, toClient,
                 replied, shown, chatted>>

(* It writes nothing before it has the name.                               *)
Answer(c) ==
  /\ stream[c] = "open" /\ heard[c] # <<>> /\ replied[c] < MaxReplies
  /\ replied' = [replied EXCEPT ![c] = @ + 1]
  /\ toClient' = [toClient EXCEPT ![c] = @ + 1]
  /\ UNCHANGED <<up, main, writer, keyboard, line, user, stream, toServer,
                 history>>

(* The server ends, and what is on its way may be lost with it.            *)
GoDown ==
  /\ up /\ up' = FALSE
  /\ stream' = [c \in Client |-> IF stream[c] = "open" THEN "lost" ELSE stream[c]]
  /\ toServer' = [c \in Client |-> <<>>]
  /\ toClient' \in [Client -> 0 .. MaxReplies]
  /\ \A c \in Client : toClient'[c] <= toClient[c]
  /\ UNCHANGED <<main, writer, keyboard, line, user, replied, history>>

ComeUp ==
  /\ ~up /\ up' = TRUE
  /\ UNCHANGED <<main, writer, keyboard, line, user, wire, history>>

-----------------------------------------------------------------------------
MainThread(c) ==
  \/ LogIn(c) \/ Returned(c) \/ commandMode(c)
  \/ Open(c) \/ Greet(c) \/ Show(c) \/ ReadEnds(c)
WriterThread(c) == NextLine(c) \/ Send(c)

CNext ==
  \/ \E c \in Client :
       \/ MainThread(c) \/ WriterThread(c) \/ Hear(c) \/ Answer(c)
       \/ Type(c) \/ EndInput(c) \/ Quit(c)
  \/ GoDown \/ ComeUp

CSpec == CInit /\ [][CNext]_cvars

(* Both threads are scheduled, a call returns because the server answers   *)
(* (HandlerReturns of ChatServer) or because its connection fails, and the *)
(* handler of a stream always comes back to Read (the same property).      *)
(* Nothing is assumed of the user, and nothing of the server's life.       *)
CFairSpec ==
  /\ CSpec
  /\ \A c \in Client : /\ WF_cvars(MainThread(c)) /\ WF_cvars(WriterThread(c))
                       /\ WF_cvars(Hear(c))

-----------------------------------------------------------------------------
(* The variables have their types; there is a writer only while the main   *)
(* thread is in chat, and a stream only from its opening on.               *)
CTypeOK ==
  /\ up \in BOOLEAN
  /\ main \in [Client -> {"user", "login", "command", "call", "chat", "greet",
                          "read", "join"}]
  /\ writer \in [Client -> {"none", "getline", "write"}]
  /\ input \in [Client -> Seq(Line)]
  /\ ended \in [Client -> {"no", "newline", "partial"}]
  /\ eofbit \in [Client -> BOOLEAN]
  /\ line \in [Client -> Line \cup {Blank}]
  /\ typed \in [Client -> 0 .. MaxTyped]
  /\ stream \in [Client -> {"none", "open", "lost"}]
  /\ toServer \in [Client -> Seq(Line \cup {Blank})]
  /\ toClient \in [Client -> Nat] /\ replied \in [Client -> Nat]
  /\ shown \in [Client -> Nat]
  /\ chatted \in [Client -> Seq(Line)] /\ heard \in [Client -> Seq(Line \cup {Blank})]
  /\ \A c \in Client :
       /\ writer[c] # "none" <=> main[c] \in {"read", "join"}
       /\ stream[c] # "none" <=> main[c] \in {"greet", "read", "join"}

(* The server takes the user's name first, which is what its handler reads *)
(* a first message as, and then the lines typed in chat in their order,    *)
(* each once; only when the input has ended does it get anything else: the *)
(* writer's last line, again and again.                                    *)
HeardIsTyped ==
  \A c \in Client : \A i \in DOMAIN heard[c] :
    \/ i = 1 /\ heard[c][i] = Blank
    \/ i - 1 \in DOMAIN chatted[c] /\ heard[c][i] = chatted[c][i - 1]
    \/ i > Len(chatted[c]) + 1 /\ eofbit[c] /\ heard[c][i] = line[c]

(* Every line typed in chat reaches the server, unless it is lost with the *)
(* server: neither the main thread nor the end of the input stops it.      *)
EveryLineHeard ==
  \A c \in Client : \A n \in 1 .. MaxTyped :
    (main[c] = "read" /\ Len(chatted[c]) + Len(input[c]) >= n)
      ~> (Len(heard[c]) > n \/ stream[c] # "open")

(* Everything the server writes is shown, unless it is lost with it, even  *)
(* to a user who types nothing more.                                       *)
EveryReplyShown ==
  \A c \in Client : \A n \in 1 .. MaxReplies :
    replied[c] >= n ~> (shown[c] >= n \/ stream[c] # "open")

(* The client makes its calls by the protocol that the server's handlers   *)
(* rely on, whatever is typed and however often the server goes away.      *)
CallStage(c) ==
  CASE main[c] = "user"              -> "out"
    [] main[c] \in {"login", "call"} -> main[c]
    [] main[c] \in {"command", "chat"} -> "command"
    [] OTHER                         -> "chat"
Calling == INSTANCE ChatCalls WITH stage <- [c \in Client |-> CallStage(c)]
ClientCalls == Calling!Spec

(* "Close the thread/connection and stop chatting": when the stream has    *)
(* ended, the writer thread does.                                          *)
ChatEnds == \A c \in Client : main[c] = "join" ~> writer[c] = "none"
=============================================================================
