---------------------------- MODULE ClientProofs ----------------------------
(***************************************************************************)
(* Proofs about ChatClient, for any number of clients, lines and replies.  *)
(***************************************************************************)
EXTENDS ChatClient, SequenceTheorems, TLAPS

-----------------------------------------------------------------------------
(* Types.                                                                  *)

(* What getline leaves in a string is a line or what was there, and it     *)
(* takes from the front of the input only.                                 *)
LEMMA GetlineType ==
  ASSUME CTypeOK, NEW c \in Client, NEW kept \in Line \cup {Blank},
         NEW l, Getline(c, kept, l)
  PROVE  /\ l \in Line \cup {Blank}
         /\ input' \in [Client -> Seq(Line)]
         /\ eofbit' \in [Client -> BOOLEAN]
         /\ input'[c] # input[c] => input[c] # <<>> /\ Head(input[c]) \in Line
  <1>1. input[c] \in Seq(Line) /\ eofbit[c] \in BOOLEAN
    BY DEF CTypeOK
  <1>2. CASE ~eofbit[c] /\ input[c] # <<>> /\ l = Head(input[c])
             /\ input' = [input EXCEPT ![c] = Tail(@)]
             /\ eofbit' = [eofbit EXCEPT
                     ![c] = ended[c] = "partial" /\ Len(input[c]) = 1]
    <2>1. Head(input[c]) \in Line /\ Tail(input[c]) \in Seq(Line)
      BY <1>1, <1>2, HeadTailProperties
    <2>2. (ended[c] = "partial" /\ Len(input[c]) = 1) \in BOOLEAN
      OBVIOUS
    <2> QED  BY <1>2, <2>1, <2>2 DEF CTypeOK
  <1>3. CASE input[c] = <<>> /\ l = Blank /\ UNCHANGED input
             /\ eofbit' = [eofbit EXCEPT ![c] = TRUE]
    BY <1>3 DEF CTypeOK
  <1>4. CASE l = kept /\ UNCHANGED keyboard
    BY <1>4 DEF CTypeOK, keyboard
  <1> QED  BY <1>2, <1>3, <1>4 DEF Getline

LEMMA WriteType ==
  ASSUME CTypeOK, NEW c \in Client, NEW m \in Line \cup {Blank}, Write(c, m)
  PROVE  toServer' \in [Client -> Seq(Line \cup {Blank})]
  <1>1. toServer[c] \in Seq(Line \cup {Blank})
    BY DEF CTypeOK
  <1>2. Append(toServer[c], m) \in Seq(Line \cup {Blank})
    BY <1>1, AppendProperties
  <1> QED  BY <1>2 DEF Write, CTypeOK

LEMMA MainTypeStep ==
  ASSUME CTypeOK, NEW c \in Client, MainThread(c)
  PROVE  CTypeOK'
  <1> USE DEF Main, keyboard, user, wire, history
  <1>1. CASE LogIn(c)
    BY <1>1 DEF LogIn, CTypeOK
  <1>2. CASE Returned(c)
    BY <1>2 DEF Returned, CTypeOK
  <1>3. CASE commandMode(c)
    <2>1. PICK l \in Line \cup {Blank} :
            Getline(c, Blank, l) /\ Main(c, "command", Command(l))
      BY <1>3 DEF commandMode
    <2>2. Command(l) \in {"command", "call", "chat"}
      BY Zenon DEF Command
    <2>3. input' \in [Client -> Seq(Line)] /\ eofbit' \in [Client -> BOOLEAN]
      BY <2>1, GetlineType
    <2> QED  BY <1>3, <2>1, <2>2, <2>3 DEF commandMode, CTypeOK
  <1>4. CASE Open(c)
    BY <1>4 DEF Open, CTypeOK
  <1>5. CASE Greet(c)
    <2>1. toServer' \in [Client -> Seq(Line \cup {Blank})]
      BY <1>5, WriteType DEF Greet
    <2> QED  BY <1>5, <2>1 DEF Greet, CTypeOK
  <1>6. CASE Show(c)
    <2>1. toClient[c] \in Nat /\ shown[c] \in Nat /\ toClient[c] > 0
      BY <1>6 DEF Show, CTypeOK
    <2>2. toClient[c] - 1 \in Nat /\ shown[c] + 1 \in Nat
      BY <2>1
    <2>3. toClient' \in [Client -> Nat] /\ shown' \in [Client -> Nat]
      BY <1>6, <2>2 DEF Show, CTypeOK
    <2>4. UNCHANGED <<main, writer, stream>>
      BY <1>6 DEF Show, CTypeOK
    <2> QED  BY <1>6, <2>3, <2>4 DEF Show, CTypeOK
  <1>7. CASE ReadEnds(c)
    BY <1>7 DEF ReadEnds, CTypeOK
  <1> QED  BY <1>1, <1>2, <1>3, <1>4, <1>5, <1>6, <1>7 DEF MainThread

LEMMA WriterTypeStep ==
  ASSUME CTypeOK, NEW c \in Client, WriterThread(c)
  PROVE  CTypeOK'
  <1> USE DEF keyboard, user, wire, history
  <1>1. CASE NextLine(c)
    <2>1. PICK l \in Line \cup {Blank} :
            Getline(c, line[c], l) /\ line' = [line EXCEPT ![c] = l]
      BY <1>1 DEF NextLine
    <2>2. line[c] \in Line \cup {Blank} /\ chatted[c] \in Seq(Line)
      BY DEF CTypeOK
    <2>3. /\ input' \in [Client -> Seq(Line)] /\ eofbit' \in [Client -> BOOLEAN]
          /\ input'[c] # input[c] => Head(input[c]) \in Line
      BY <2>1, <2>2, GetlineType
    <2>4. (IF input'[c] # input[c] THEN Append(chatted[c], Head(input[c]))
                                   ELSE chatted[c]) \in Seq(Line)
      BY <2>2, <2>3, AppendProperties
    <2> QED  BY <1>1, <2>1, <2>3, <2>4 DEF NextLine, CTypeOK
  <1>2. CASE Send(c)
    <2>1. line[c] \in Line \cup {Blank}
      BY DEF CTypeOK
    <2>2. toServer' \in [Client -> Seq(Line \cup {Blank})]
      BY <1>2, <2>1, WriteType DEF Send
    <2> QED  BY <1>2, <2>2 DEF Send, CTypeOK
  <1> QED  BY <1>1, <1>2 DEF WriterThread

LEMMA UserTypeStep ==
  ASSUME CTypeOK, NEW c \in Client, Type(c) \/ EndInput(c) \/ Quit(c)
  PROVE  CTypeOK'
  <1> USE ClientAssumption DEF keyboard, user, wire, history
  <1>1. CASE Type(c)
    <2>1. PICK l \in Line : input' = [input EXCEPT ![c] = Append(@, l)]
      BY <1>1 DEF Type
    <2>2. Append(input[c], l) \in Seq(Line)
      BY AppendProperties DEF CTypeOK
    <2>3. input' \in [Client -> Seq(Line)]
      BY <2>1, <2>2 DEF CTypeOK
    <2>4. typed' \in [Client -> 0 .. MaxTyped]
      BY <1>1 DEF Type, CTypeOK
    <2> QED  BY <1>1, <2>3, <2>4 DEF Type, CTypeOK
  <1>2. CASE EndInput(c)
    BY <1>2 DEF EndInput, CTypeOK
  <1>3. CASE Quit(c)
    <2>1. <<>> \in Seq(Line) /\ <<>> \in Seq(Line \cup {Blank})
      BY EmptySeq
    <2>2. /\ main' = [main EXCEPT ![c] = "user"]
          /\ writer' = [writer EXCEPT ![c] = "none"]
          /\ stream' = [stream EXCEPT ![c] = "none"]
      BY <1>3 DEF Quit
    <2>3. \A x \in Client :
            /\ writer'[x] # "none" <=> main'[x] \in {"read", "join"}
            /\ stream'[x] # "none" <=> main'[x] \in {"greet", "read", "join"}
      BY <2>2 DEF CTypeOK
    <2>4. /\ input' \in [Client -> Seq(Line)] /\ chatted' \in [Client -> Seq(Line)]
          /\ toServer' \in [Client -> Seq(Line \cup {Blank})]
          /\ heard' \in [Client -> Seq(Line \cup {Blank})]
          /\ line' \in [Client -> Line \cup {Blank}]
      BY <1>3, <2>1 DEF Quit, CTypeOK
    <2>5. /\ up' \in BOOLEAN /\ eofbit' \in [Client -> BOOLEAN]
          /\ ended' \in [Client -> {"no", "newline", "partial"}]
          /\ typed' \in [Client -> 0 .. MaxTyped]
          /\ toClient' \in [Client -> Nat] /\ replied' \in [Client -> Nat]
          /\ shown' \in [Client -> Nat]
      BY <1>3 DEF Quit, CTypeOK
    <2> QED  BY <2>2, <2>3, <2>4, <2>5 DEF CTypeOK
  <1> QED  BY <1>1, <1>2, <1>3

LEMMA ServerTypeStep ==
  ASSUME CTypeOK,
         (\E c \in Client : Hear(c) \/ Answer(c)) \/ GoDown \/ ComeUp
  PROVE  CTypeOK'
  <1> USE ClientAssumption DEF keyboard, user, wire, history
  <1>1. ASSUME NEW c \in Client, Hear(c) PROVE CTypeOK'
    <2>1. heard[c] \in Seq(Line \cup {Blank}) /\ toServer[c] \in Seq(Line \cup {Blank})
      BY DEF CTypeOK
    <2>2. /\ Tail(toServer[c]) \in Seq(Line \cup {Blank})
          /\ Append(heard[c], Head(toServer[c])) \in Seq(Line \cup {Blank})
      BY <1>1, <2>1, HeadTailProperties, AppendProperties DEF Hear
    <2> QED  BY <1>1, <2>2 DEF Hear, CTypeOK
  <1>2. ASSUME NEW c \in Client, Answer(c) PROVE CTypeOK'
    <2>1. toClient[c] \in Nat /\ replied[c] \in Nat
      BY DEF CTypeOK
    <2>2. toClient[c] + 1 \in Nat /\ replied[c] + 1 \in Nat
      BY <2>1
    <2>3. toClient' \in [Client -> Nat] /\ replied' \in [Client -> Nat]
      BY <1>2, <2>2 DEF Answer, CTypeOK
    <2> QED  BY <1>2, <2>3 DEF Answer, CTypeOK
  <1>3. CASE GoDown
    <2>1. <<>> \in Seq(Line \cup {Blank})
      BY EmptySeq
    <2>2. toClient' \in [Client -> Nat]
      BY <1>3 DEF GoDown
    <2> QED  BY <1>3, <2>1, <2>2 DEF GoDown, CTypeOK
  <1>4. CASE ComeUp
    BY <1>4 DEF ComeUp, CTypeOK
  <1> QED  BY <1>1, <1>2, <1>3, <1>4

LEMMA ClientTypeStep ==
  ASSUME CTypeOK, [CNext]_cvars
  PROVE  CTypeOK'
  <1>1. CASE UNCHANGED cvars
    BY <1>1 DEF cvars, keyboard, user, wire, history, CTypeOK
  <1> QED  BY <1>1, MainTypeStep, WriterTypeStep, UserTypeStep, ServerTypeStep DEF CNext

LEMMA ClientTypeInit ==
  ASSUME CInit PROVE CTypeOK
  <1>1. <<>> \in Seq(Line) /\ <<>> \in Seq(Line \cup {Blank})
    BY EmptySeq
  <1> QED  BY <1>1, ClientAssumption DEF CInit, CTypeOK

(* The variables keep their types, a writer thread runs only while the main*)
(* thread is in chat, and a stream is there only from its opening on, for  *)
(* any number of clients, whatever is typed.                               *)
THEOREM ClientTypes == CSpec => []CTypeOK
  BY ClientTypeInit, ClientTypeStep, PTL DEF CSpec

-----------------------------------------------------------------------------
(* The order of calls.                                                     *)

(* What the main thread may go on to, besides ending with its process.     *)
MainMoves ==
  {<<"user", "login">>, <<"login", "command">>, <<"call", "command">>,
   <<"command", "command">>, <<"command", "call">>, <<"command", "chat">>,
   <<"chat", "greet">>, <<"greet", "read">>, <<"read", "read">>,
   <<"read", "join">>}

LEMMA MainStep ==
  ASSUME CTypeOK, [CNext]_cvars, NEW x \in Client
  PROVE  \/ main'[x] = main[x] \/ main'[x] = "user"
         \/ <<main[x], main'[x]>> \in MainMoves
  <1>1. ASSUME NEW c \in Client, NEW from, NEW to, Main(c, from, to),
               <<from, to>> \in MainMoves
        PROVE  main'[x] = main[x] \/ <<main[x], main'[x]>> \in MainMoves
    BY <1>1 DEF Main, CTypeOK
  <1>2. ASSUME NEW c \in Client, MainThread(c)
        PROVE  main'[x] = main[x] \/ <<main[x], main'[x]>> \in MainMoves
    <2>1. CASE commandMode(c)
      <3>1. PICK l : Main(c, "command", Command(l))
        BY <2>1 DEF commandMode
      <3>2. Command(l) \in {"command", "call", "chat"}
        BY Zenon DEF Command
      <3> QED  BY <1>1, <3>1, <3>2 DEF MainMoves
    <2>2. CASE ~commandMode(c)
      <3>1. \E from, to : Main(c, from, to) /\ <<from, to>> \in MainMoves
        BY <1>2, <2>2 DEF MainThread, LogIn, Returned, Open, Greet, Show,
                          ReadEnds, MainMoves
      <3> QED  BY <1>1, <3>1
    <2> QED  BY <2>1, <2>2
  <1>3. ASSUME NEW c \in Client, Quit(c)
        PROVE  main'[x] = main[x] \/ main'[x] = "user"
    BY <1>3 DEF Quit, CTypeOK
  <1>4. CASE UNCHANGED main
    BY <1>4
  <1>5. CASE UNCHANGED cvars
    BY <1>4, <1>5 DEF cvars
  <1>6. ASSUME NEW c \in Client,
               WriterThread(c) \/ Hear(c) \/ Answer(c) \/ Type(c) \/ EndInput(c)
        PROVE  UNCHANGED main
    BY <1>6 DEF WriterThread, NextLine, Send, Hear, Answer, Type, EndInput
  <1>7. CASE GoDown \/ ComeUp
    BY <1>4, <1>7 DEF GoDown, ComeUp
  <1> QED  BY <1>2, <1>3, <1>4, <1>5, <1>6, <1>7 DEF CNext

LEMMA StageStep ==
  ASSUME CTypeOK, CTypeOK', [CNext]_cvars, NEW x \in Client
  PROVE  \/ CallStage(x)' = CallStage(x)
         \/ <<CallStage(x), CallStage(x)'>> \in Calling!Moves
  <1>1. CallStage(x) \in Calling!Stage
    BY DEF CallStage, CTypeOK, Calling!Stage
  <1>2. CASE main'[x] = main[x]
    BY <1>2 DEF CallStage
  <1>3. CASE main'[x] = "user"
    BY <1>1, <1>3 DEF CallStage, Calling!Moves
  <1>4. CASE <<main[x], main'[x]>> \in MainMoves
    BY <1>4 DEF CallStage, MainMoves, Calling!Moves
  <1> QED  BY <1>2, <1>3, <1>4, MainStep

(* The client program implements the protocol of calls: the handlers may   *)
(* rely on a login before a command, on one call at a time and on silence  *)
(* after the stream, whatever is typed and however often the server goes.  *)
THEOREM ClientKeepsProtocol == CSpec => ClientCalls
  <1> DEFINE stage == [c \in Client |-> CallStage(c)]
  <1>1. CInit => Calling!Init
    BY DEF CInit, Calling!Init, CallStage
  <1>2. CTypeOK /\ CTypeOK' /\ [CNext]_cvars => [Calling!Next]_stage
    <2> SUFFICES ASSUME CTypeOK, CTypeOK', [CNext]_cvars PROVE Calling!Next
      OBVIOUS
    <2>1. \A x \in Client : stage[x] = CallStage(x) /\ stage'[x] = CallStage(x)'
      OBVIOUS
    <2> QED  BY <2>1, StageStep DEF Calling!Next
  <1> QED  BY <1>1, <1>2, ClientTypes, PTL DEF CSpec, ClientCalls, Calling!Spec

-----------------------------------------------------------------------------
(* What the server hears.                                                  *)

(* What HeardIsTyped asks of the i-th message on the stream.               *)
Fits(c, i, m) ==
  \/ i = 1 /\ m = Blank
  \/ i - 1 \in DOMAIN chatted[c] /\ m = chatted[c][i - 1]
  \/ i > Len(chatted[c]) + 1 /\ eofbit[c] /\ m = line[c]

(* How many messages were written to a stream that is still usable.        *)
Written(c) == Len(heard[c]) + Len(toServer[c])

(* Before the greeting nothing was written or heard.  After it, what the   *)
(* server has heard and what is on its way to it fits, and the line that   *)
(* the writer holds, or will read next, is the next that fits.             *)
StreamInv(c) ==
  /\ main[c] \notin {"read", "join"} =>
       heard[c] = <<>> /\ toServer[c] = <<>> /\ chatted[c] = <<>>
  /\ \A i \in DOMAIN heard[c] : Fits(c, i, heard[c][i])
  /\ \A i \in DOMAIN toServer[c] : Fits(c, Len(heard[c]) + i, toServer[c][i])
  /\ stream[c] # "open" => toServer[c] = <<>>
  /\ stream[c] = "open" /\ writer[c] = "getline" =>
       \/ Written(c) = Len(chatted[c]) + 1
       \/ Written(c) > Len(chatted[c]) + 1 /\ eofbit[c]
  /\ stream[c] = "open" /\ writer[c] = "write" =>
       \/ Written(c) = Len(chatted[c]) /\ Written(c) > 0
            /\ chatted[c][Written(c)] = line[c]
       \/ Written(c) > Len(chatted[c]) /\ eofbit[c]

HeardInv == CTypeOK /\ \A c \in Client : StreamInv(c)

LEMMA Sums ==
  ASSUME NEW m \in Nat, NEW n \in Nat
  PROVE  /\ m + n \in Nat
         /\ m + (n + 1) = (m + n) + 1 /\ (m + 1) + n = m + (n + 1)
         /\ (m + 1) + (n - 1) = m + n
  OBVIOUS

LEMMA HeardType ==
  ASSUME CTypeOK, NEW c \in Client
  PROVE  /\ Len(heard[c]) \in Nat /\ DOMAIN heard[c] = 1 .. Len(heard[c])
         /\ Len(toServer[c]) \in Nat /\ DOMAIN toServer[c] = 1 .. Len(toServer[c])
         /\ Len(chatted[c]) \in Nat /\ DOMAIN chatted[c] = 1 .. Len(chatted[c])
         /\ Written(c) \in Nat
  <1>1. /\ heard[c] \in Seq(Line \cup {Blank})
        /\ toServer[c] \in Seq(Line \cup {Blank}) /\ chatted[c] \in Seq(Line)
    BY DEF CTypeOK
  <1>2. /\ Len(heard[c]) \in Nat /\ DOMAIN heard[c] = 1 .. Len(heard[c])
        /\ Len(toServer[c]) \in Nat /\ DOMAIN toServer[c] = 1 .. Len(toServer[c])
        /\ Len(chatted[c]) \in Nat /\ DOMAIN chatted[c] = 1 .. Len(chatted[c])
    BY <1>1, LenProperties
  <1>3. Written(c) \in Nat
    BY <1>2, Sums DEF Written
  <1> QED  BY <1>2, <1>3

(* A step that leaves a client's stream alone keeps its part.              *)
LEMMA SameStream ==
  ASSUME NEW c \in Client, StreamInv(c),
         UNCHANGED <<heard[c], toServer[c], chatted[c], stream[c], writer[c],
                     line[c], eofbit[c]>>,
         main'[c] \notin {"read", "join"} => main[c] \notin {"read", "join"}
  PROVE  StreamInv(c)'
  BY DEF StreamInv, Fits, Written

(* Write puts the next message that fits behind the others.                *)
LEMMA WriteFits ==
  ASSUME CTypeOK, CTypeOK', NEW c \in Client, StreamInv(c),
         NEW m \in Line \cup {Blank}, Write(c, m), Fits(c, Written(c) + 1, m),
         UNCHANGED <<heard, chatted, stream, line, eofbit>>
  PROVE  /\ \A i \in DOMAIN heard'[c] : Fits(c, i, heard[c][i])'
         /\ \A i \in DOMAIN toServer'[c] :
              Fits(c, Len(heard[c]) + i, toServer[c][i])'
         /\ stream'[c] # "open" => toServer'[c] = <<>>
         /\ stream[c] = "open" => Written(c)' = Written(c) + 1
  <1>1. toServer[c] \in Seq(Line \cup {Blank})
    BY DEF CTypeOK
  <1>2. CASE stream[c] = "open" /\ toServer' = [toServer EXCEPT ![c] = Append(@, m)]
    <2>1. toServer'[c] = Append(toServer[c], m)
      BY <1>2 DEF CTypeOK
    <2>2. /\ Len(toServer'[c]) = Len(toServer[c]) + 1
          /\ DOMAIN toServer'[c] = 1 .. Len(toServer[c]) + 1
          /\ \A i \in 1 .. Len(toServer[c]) : toServer'[c][i] = toServer[c][i]
          /\ toServer'[c][Len(toServer[c]) + 1] = m
      BY <1>1, <2>1, AppendProperties, LenProperties
    <2>0. Len(heard[c]) \in Nat /\ Len(toServer[c]) \in Nat
      BY HeardType
    <2>4. Len(heard[c]) + (Len(toServer[c]) + 1) = Written(c) + 1
      BY <2>0, Sums DEF Written
    <2>3. Written(c)' = Written(c) + 1
      <3>1. Written(c)' = Len(heard[c]) + (Len(toServer[c]) + 1)
        BY <2>2 DEF Written
      <3> QED  BY <2>4, <3>1
    <2>5. ASSUME NEW i \in DOMAIN toServer'[c]
          PROVE  Fits(c, Len(heard[c]) + i, toServer[c][i])'
      <3>1. CASE i \in 1 .. Len(toServer[c])
        BY <2>2, <3>1, HeardType DEF Fits, StreamInv
      <3>2. CASE i = Len(toServer[c]) + 1
        BY <2>2, <2>4, <3>2 DEF Fits
      <3> QED  BY <2>2, <2>5, <3>1, <3>2, HeardType
    <2>6. \A i \in DOMAIN heard'[c] : Fits(c, i, heard[c][i])'
      BY DEF StreamInv, Fits
    <2> QED  BY <1>2, <2>3, <2>5, <2>6
  <1>3. CASE stream[c] # "open" /\ UNCHANGED toServer
    BY <1>3 DEF StreamInv, Fits
  <1> QED  BY <1>2, <1>3 DEF Write

(* A client that is not in chat has said and heard nothing.                *)
LEMMA NoStream ==
  ASSUME NEW c \in Client, heard'[c] = <<>>, toServer'[c] = <<>>,
         chatted'[c] = <<>>, writer'[c] = "none"
  PROVE  StreamInv(c)'
  BY DEF StreamInv

LEMMA OutOfChat ==
  ASSUME CTypeOK, CTypeOK', NEW c \in Client, StreamInv(c),
         main[c] \notin {"read", "join"}, main'[c] \notin {"read", "join"},
         UNCHANGED <<heard, toServer, chatted>>
  PROVE  StreamInv(c)'
  <1>1. heard[c] = <<>> /\ toServer[c] = <<>> /\ chatted[c] = <<>>
    BY DEF StreamInv
  <1>2. writer'[c] = "none"
    BY DEF CTypeOK
  <1> QED  BY <1>1, <1>2, NoStream

LEMMA GreetFits ==
  ASSUME CTypeOK, CTypeOK', NEW c \in Client, StreamInv(c), Greet(c)
  PROVE  StreamInv(c)'
  <1>1. /\ heard[c] = <<>> /\ toServer[c] = <<>> /\ chatted[c] = <<>>
        /\ main'[c] = "read" /\ writer'[c] = "getline"
    BY DEF StreamInv, Greet, Main, CTypeOK
  <1>2. Written(c) = 0 /\ Len(chatted[c]) = 0
    BY <1>1 DEF Written
  <1>3. Fits(c, Written(c) + 1, Blank)
    BY <1>2 DEF Fits
  <1>4. /\ Write(c, Blank)
        /\ UNCHANGED <<heard, chatted, stream, line, eofbit>>
    BY DEF Greet, keyboard, history
  <1>5. Blank \in Line \cup {Blank}
    OBVIOUS
  <1>6. /\ \A i \in DOMAIN heard'[c] : Fits(c, i, heard[c][i])'
        /\ \A i \in DOMAIN toServer'[c] : Fits(c, Len(heard[c]) + i, toServer[c][i])'
        /\ stream'[c] # "open" => toServer'[c] = <<>>
        /\ stream[c] = "open" => Written(c)' = Written(c) + 1
    BY <1>3, <1>4, <1>5, WriteFits
  <1>7. stream'[c] = "open" => Written(c)' = Len(chatted'[c]) + 1
    BY <1>2, <1>4, <1>6
  <1> QED  BY <1>1, <1>6, <1>7 DEF StreamInv

LEMMA SendFits ==
  ASSUME CTypeOK, CTypeOK', NEW c \in Client, StreamInv(c), Send(c)
  PROVE  StreamInv(c)'
  <1>1. /\ writer[c] = "write" /\ writer'[c] = "getline" /\ main' = main
        /\ Write(c, line[c]) /\ line[c] \in Line \cup {Blank}
        /\ UNCHANGED <<heard, chatted, stream, line, eofbit>>
    BY DEF Send, CTypeOK, keyboard, history
  <1>2. /\ Written(c) \in Nat /\ Len(chatted[c]) \in Nat
        /\ DOMAIN chatted[c] = 1 .. Len(chatted[c])
    BY HeardType
  <1>3. main[c] \in {"read", "join"}
    BY <1>1 DEF CTypeOK
  <1>4. CASE stream[c] = "open"
    <2>1. \/ Written(c) = Len(chatted[c]) /\ Written(c) > 0
               /\ chatted[c][Written(c)] = line[c]
          \/ Written(c) > Len(chatted[c]) /\ eofbit[c]
      BY <1>1, <1>4 DEF StreamInv
    <2>2. Fits(c, Written(c) + 1, line[c])
      BY <1>2, <2>1 DEF Fits
    <2>3. /\ \A i \in DOMAIN heard'[c] : Fits(c, i, heard[c][i])'
          /\ \A i \in DOMAIN toServer'[c] :
               Fits(c, Len(heard[c]) + i, toServer[c][i])'
          /\ stream'[c] # "open" => toServer'[c] = <<>>
          /\ Written(c)' = Written(c) + 1
      BY <1>1, <1>4, <2>2, WriteFits
    <2>4. \/ Written(c)' = Len(chatted'[c]) + 1
          \/ Written(c)' > Len(chatted'[c]) + 1 /\ eofbit'[c]
      BY <1>1, <1>2, <2>1, <2>3
    <2> QED  BY <1>1, <1>3, <2>3, <2>4 DEF StreamInv
  <1>5. CASE stream[c] # "open"
    <2>1. UNCHANGED toServer
      BY <1>1, <1>5 DEF Write
    <2> QED  BY <1>1, <1>3, <1>5, <2>1 DEF StreamInv, Fits
  <1> QED  BY <1>4, <1>5

LEMMA HearFits ==
  ASSUME CTypeOK, CTypeOK', NEW c \in Client, StreamInv(c), Hear(c)
  PROVE  StreamInv(c)'
  <1> DEFINE m == Head(toServer[c])
  <1>1. /\ toServer[c] \in Seq(Line \cup {Blank}) /\ toServer[c] # <<>>
        /\ heard[c] \in Seq(Line \cup {Blank}) /\ stream[c] = "open"
        /\ heard'[c] = Append(heard[c], m) /\ toServer'[c] = Tail(toServer[c])
        /\ UNCHANGED <<main, writer, eofbit, line, stream, chatted>>
    BY DEF Hear, CTypeOK, keyboard
  <1>2. /\ Len(heard[c]) \in Nat /\ Len(toServer[c]) \in Nat
        /\ Len(toServer[c]) > 0 /\ m = toServer[c][1]
        /\ Len(Tail(toServer[c])) = Len(toServer[c]) - 1
        /\ DOMAIN Tail(toServer[c]) = 1 .. Len(toServer[c]) - 1
        /\ \A i \in 1 .. Len(toServer[c]) - 1 : Tail(toServer[c])[i] = toServer[c][i + 1]
        /\ m \in Line \cup {Blank}
    BY <1>1, LenProperties, HeadTailProperties, EmptySeq
  <1>3. /\ Len(heard'[c]) = Len(heard[c]) + 1
        /\ DOMAIN heard'[c] = 1 .. Len(heard[c]) + 1
        /\ \A i \in 1 .. Len(heard[c]) : heard'[c][i] = heard[c][i]
        /\ heard'[c][Len(heard[c]) + 1] = m
    BY <1>1, <1>2, AppendProperties, LenProperties
  <1>4. Written(c)' = Written(c)
    <2>1. Written(c)' = (Len(heard[c]) + 1) + (Len(toServer[c]) - 1)
      BY <1>1, <1>2, <1>3 DEF Written
    <2> QED  BY <1>2, <2>1, Sums DEF Written
  <1>5. ASSUME NEW i \in DOMAIN heard'[c] PROVE Fits(c, i, heard[c][i])'
    <2>1. CASE i \in 1 .. Len(heard[c])
      <3>1. Fits(c, i, heard[c][i])
        BY <2>1, HeardType DEF StreamInv
      <3> QED  BY <1>1, <1>3, <2>1, <3>1 DEF Fits
    <2>2. CASE i = Len(heard[c]) + 1
      <3>1. Fits(c, Len(heard[c]) + 1, m)
        BY <1>2, HeardType DEF StreamInv
      <3> QED  BY <1>1, <1>3, <2>2, <3>1 DEF Fits
    <2> QED  BY <1>2, <1>3, <1>5, <2>1, <2>2
  <1>6. ASSUME NEW i \in DOMAIN toServer'[c]
        PROVE  Fits(c, Len(heard[c]) + i, toServer[c][i])'
    <2>1. i \in 1 .. Len(toServer[c]) - 1 /\ i + 1 \in 1 .. Len(toServer[c])
      BY <1>1, <1>2, <1>6
    <2>2. Fits(c, Len(heard[c]) + (i + 1), toServer[c][i + 1])
      BY <2>1, HeardType DEF StreamInv
    <2>3. /\ Len(heard'[c]) + i = Len(heard[c]) + (i + 1)
          /\ toServer'[c][i] = toServer[c][i + 1]
      <3>1. Len(heard[c]) \in Nat /\ i \in Nat
        BY <1>2, <2>1
      <3>2. (Len(heard[c]) + 1) + i = Len(heard[c]) + (i + 1)
        BY <3>1, Sums
      <3> QED  BY <1>1, <1>2, <1>3, <2>1, <3>2
    <2> QED  BY <1>1, <2>2, <2>3 DEF Fits
  <1>7. main[c] \in {"read", "join"}
    BY <1>1, <1>2, EmptySeq DEF StreamInv
  <1> QED  BY <1>1, <1>4, <1>5, <1>6, <1>7 DEF StreamInv

(* The writer reads a line: it is the next of those typed in chat, or the  *)
(* input has ended.                                                        *)
LEMMA NextFits ==
  ASSUME CTypeOK, CTypeOK', NEW c \in Client, StreamInv(c), NextLine(c)
  PROVE  StreamInv(c)'
  <1>1. /\ writer[c] = "getline" /\ writer'[c] = "write"
        /\ UNCHANGED <<main, heard, toServer, stream>>
    BY DEF NextLine, CTypeOK, wire
  <1>2. /\ chatted[c] \in Seq(Line) /\ input[c] \in Seq(Line)
        /\ Len(chatted[c]) \in Nat /\ DOMAIN chatted[c] = 1 .. Len(chatted[c])
        /\ Written(c) \in Nat /\ Written(c)' = Written(c)
    BY <1>1, HeardType DEF CTypeOK, Written
  <1>3. main[c] \in {"read", "join"}
    BY <1>1 DEF CTypeOK
  <1>4. PICK l \in Line \cup {Blank} :
          Getline(c, line[c], l) /\ line' = [line EXCEPT ![c] = l]
    BY DEF NextLine
  <1>5. /\ line'[c] = l
        /\ chatted'[c] = IF input'[c] # input[c] THEN Append(chatted[c], Head(input[c]))
                                                ELSE chatted[c]
    BY <1>4 DEF NextLine, CTypeOK
  <1>6. CASE ~eofbit[c] /\ input[c] # <<>> /\ l = Head(input[c])
             /\ input' = [input EXCEPT ![c] = Tail(@)]
    <2>1. Len(Tail(input[c])) # Len(input[c])
      BY <1>2, <1>6, HeadTailProperties, LenProperties, EmptySeq
    <2>2. input'[c] # input[c]
      BY <1>6, <2>1 DEF CTypeOK
    <2>3. l \in Line /\ chatted'[c] = Append(chatted[c], l)
      BY <1>2, <1>5, <1>6, <2>2, HeadTailProperties
    <2>4. /\ Len(chatted'[c]) = Len(chatted[c]) + 1
          /\ DOMAIN chatted'[c] = 1 .. Len(chatted[c]) + 1
          /\ \A i \in 1 .. Len(chatted[c]) : chatted'[c][i] = chatted[c][i]
          /\ chatted'[c][Len(chatted[c]) + 1] = l
      BY <1>2, <2>3, AppendProperties, LenProperties
    <2>5. ASSUME NEW i, NEW m, Fits(c, i, m) PROVE Fits(c, i, m)'
      BY <1>2, <1>6, <2>4, <2>5 DEF Fits
    <2>6. stream[c] = "open" =>
            /\ Written(c)' = Len(chatted'[c]) /\ Written(c)' > 0
            /\ chatted'[c][Written(c)'] = line'[c]
      BY <1>1, <1>2, <1>5, <1>6, <2>4 DEF StreamInv
    <2> QED  BY <1>1, <1>3, <2>5, <2>6 DEF StreamInv
  <1>7. CASE ~eofbit[c] /\ eofbit' = [eofbit EXCEPT ![c] = TRUE] /\ UNCHANGED input
    <2>1. eofbit'[c] /\ chatted'[c] = chatted[c]
      BY <1>5, <1>7 DEF CTypeOK
    <2>2. ASSUME NEW i, NEW m, Fits(c, i, m) PROVE Fits(c, i, m)'
      BY <1>7, <2>1, <2>2 DEF Fits
    <2>3. stream[c] = "open" => Written(c)' > Len(chatted'[c])
      BY <1>1, <1>2, <1>7, <2>1 DEF StreamInv
    <2> QED  BY <1>1, <1>3, <2>1, <2>2, <2>3 DEF StreamInv
  <1>8. CASE eofbit[c] /\ l = line[c] /\ UNCHANGED keyboard
    <2>1. eofbit'[c] /\ eofbit[c] /\ chatted'[c] = chatted[c] /\ line'[c] = line[c]
      BY <1>5, <1>8 DEF keyboard
    <2>2. ASSUME NEW i, NEW m, Fits(c, i, m) PROVE Fits(c, i, m)'
      BY <2>1, <2>2 DEF Fits
    <2>3. stream[c] = "open" => Written(c)' > Len(chatted'[c])
      BY <1>1, <1>2, <2>1 DEF StreamInv
    <2> QED  BY <1>1, <1>3, <2>1, <2>2, <2>3 DEF StreamInv
  <1> QED  BY <1>4, <1>6, <1>7, <1>8 DEF Getline

LEMMA HeardStep ==
  ASSUME HeardInv, [CNext]_cvars
  PROVE  HeardInv'
  <1>1. CTypeOK /\ CTypeOK'
    BY ClientTypeStep DEF HeardInv
  <1> SUFFICES ASSUME NEW x \in Client PROVE StreamInv(x)'
    BY <1>1 DEF HeardInv
  <1>2. StreamInv(x)
    BY DEF HeardInv
  <1>11. eofbit \in [Client -> BOOLEAN] /\ DOMAIN main = Client
    BY <1>1 DEF CTypeOK
  <1> USE DEF keyboard, user, wire, history
  (* Another client's step, or one that does not touch the stream.         *)
  <1>3. ASSUME UNCHANGED <<heard[x], toServer[x], chatted[x], stream[x], writer[x],
                           line[x], eofbit[x], main[x]>>
        PROVE  StreamInv(x)'
    BY <1>2, <1>3, SameStream
  <1>4. ASSUME NEW c \in Client, MainThread(c)
        PROVE  StreamInv(x)'
    <2>1. CASE c # x
      <3>1. CASE LogIn(c) \/ Returned(c) \/ Show(c) \/ ReadEnds(c)
        <4>1. main'[x] = main[x]
          BY <1>11, <2>1, <3>1 DEF LogIn, Returned, Show, ReadEnds, Main
        <4> QED
          BY <1>3, <3>1, <4>1 DEF LogIn, Returned, Show, ReadEnds
      <3>2. CASE commandMode(c)
        <4>1. PICK l \in Line \cup {Blank} :
                Getline(c, Blank, l) /\ Main(c, "command", Command(l))
          BY <3>2 DEF commandMode
        <4>2. eofbit'[x] = eofbit[x]
          BY <1>11, <2>1, <4>1, Zenon DEF Getline
        <4>3. main'[x] = main[x]
          BY <1>1, <2>1, <4>1 DEF Main, CTypeOK
        <4> QED  BY <1>3, <3>2, <4>2, <4>3 DEF commandMode
      <3>3. CASE Open(c)
        <4>1. main'[x] = main[x] /\ stream'[x] = stream[x]
          BY <1>1, <2>1, <3>3 DEF Open, Main, CTypeOK
        <4> QED  BY <1>3, <3>3, <4>1 DEF Open
      <3>4. CASE Greet(c)
        <4>1. main'[x] = main[x] /\ writer'[x] = writer[x]
          BY <1>1, <2>1, <3>4 DEF Greet, Main, CTypeOK
        <4>2. toServer'[x] = toServer[x]
          BY <1>1, <2>1, <3>4 DEF Greet, Write, CTypeOK
        <4> QED  BY <1>3, <3>4, <4>1, <4>2 DEF Greet
      <3> QED  BY <1>4, <3>1, <3>2, <3>3, <3>4 DEF MainThread
    <2>2. CASE c = x /\ Greet(x)
      BY <1>1, <1>2, <2>2, GreetFits
    <2>3. CASE c = x /\ (Show(x) \/ ReadEnds(x))
      <3>1. /\ main[x] \in {"read", "join"} /\ main'[x] \in {"read", "join"}
            /\ UNCHANGED <<heard, toServer, chatted, stream, writer, line, eofbit>>
        BY <1>1, <2>3 DEF Show, ReadEnds, Main, CTypeOK
      <3> QED  BY <1>2, <3>1, SameStream
    <2>4. CASE c = x /\ (LogIn(x) \/ Returned(x) \/ commandMode(x) \/ Open(x))
      <3>1. /\ main[x] \notin {"read", "join"}
            /\ UNCHANGED <<heard, toServer, chatted, writer>>
        BY <2>4 DEF LogIn, Returned, commandMode, Open, Main
      <3>2. main'[x] \notin {"read", "join"}
        BY <1>1, <3>1 DEF CTypeOK
      <3> QED  BY <1>1, <1>2, <3>1, <3>2, OutOfChat
    <2> QED  BY <1>4, <2>1, <2>2, <2>3, <2>4 DEF MainThread
  <1>5. ASSUME NEW c \in Client, WriterThread(c)
        PROVE  StreamInv(x)'
    <2>1. CASE c # x
      <3>1. CASE NextLine(c)
        <4>1. PICK l \in Line \cup {Blank} :
                Getline(c, line[c], l) /\ line' = [line EXCEPT ![c] = l]
          BY <3>1 DEF NextLine
        <4>2. eofbit'[x] = eofbit[x]
          BY <1>11, <2>1, <4>1, Zenon DEF Getline
        <4>3. line'[x] = line[x]
          BY <1>1, <2>1, <4>1 DEF CTypeOK
        <4>4. writer'[x] = writer[x] /\ chatted'[x] = chatted[x]
          BY <1>1, <2>1, <3>1 DEF NextLine, CTypeOK
        <4> QED  BY <1>3, <3>1, <4>2, <4>3, <4>4 DEF NextLine
      <3>2. CASE Send(c)
        <4>1. writer'[x] = writer[x]
          BY <1>1, <2>1, <3>2 DEF Send, CTypeOK
        <4>2. toServer'[x] = toServer[x]
          BY <1>1, <2>1, <3>2 DEF Send, Write, CTypeOK
        <4> QED  BY <1>3, <3>2, <4>1, <4>2 DEF Send
      <3> QED  BY <1>5, <3>1, <3>2 DEF WriterThread
    <2>2. CASE c = x
      BY <1>1, <1>2, <1>5, <2>2, NextFits, SendFits DEF WriterThread
    <2> QED  BY <2>1, <2>2
  <1>6. ASSUME NEW c \in Client, Hear(c)
        PROVE  StreamInv(x)'
    <2>1. CASE c # x
      <3>1. /\ heard'[x] = heard[x] /\ toServer'[x] = toServer[x]
            /\ UNCHANGED <<main, writer, eofbit, line, stream, chatted>>
        BY <1>1, <1>6, <2>1 DEF Hear, CTypeOK
      <3> QED  BY <1>3, <3>1
    <2>2. CASE c = x
      BY <1>1, <1>2, <1>6, <2>2, HearFits
    <2> QED  BY <2>1, <2>2
  <1>7. ASSUME NEW c \in Client, Quit(c)
        PROVE  StreamInv(x)'
    <2>1. CASE c # x
      <3>1. heard'[x] = heard[x] /\ toServer'[x] = toServer[x]
        BY <1>1, <1>7, <2>1 DEF Quit, CTypeOK
      <3>2. chatted'[x] = chatted[x] /\ stream'[x] = stream[x]
        BY <1>1, <1>7, <2>1 DEF Quit, CTypeOK
      <3>3. writer'[x] = writer[x] /\ line'[x] = line[x]
        BY <1>1, <1>7, <2>1 DEF Quit, CTypeOK
      <3>4. eofbit'[x] = eofbit[x] /\ main'[x] = main[x]
        BY <1>11, <1>7, <2>1, Zenon DEF Quit
      <3> QED  BY <1>3, <3>1, <3>2, <3>3, <3>4
    <2>2. CASE c = x
      <3>1. /\ heard'[x] = <<>> /\ toServer'[x] = <<>> /\ chatted'[x] = <<>>
            /\ writer'[x] = "none"
        BY <1>1, <1>7, <2>2 DEF Quit, CTypeOK
      <3> QED  BY <3>1, NoStream
    <2> QED  BY <2>1, <2>2
  <1>8. CASE GoDown
    <2>1. /\ toServer'[x] = <<>> /\ stream'[x] # "open"
          /\ UNCHANGED <<main, heard, chatted, line, eofbit>>
      BY <1>1, <1>8 DEF GoDown, CTypeOK
    <2> QED  BY <1>2, <2>1 DEF StreamInv, Fits
  <1>9. ASSUME NEW c \in Client, Answer(c) \/ Type(c) \/ EndInput(c)
        PROVE  StreamInv(x)'
    BY <1>3, <1>9 DEF Answer, Type, EndInput
  <1>10. CASE ComeUp \/ UNCHANGED cvars
    BY <1>3, <1>10 DEF ComeUp, cvars
  <1> QED  BY <1>4, <1>5, <1>6, <1>7, <1>8, <1>9, <1>10 DEF CNext

LEMMA HeardInit ==
  ASSUME CInit PROVE HeardInv
  <1>1. CTypeOK
    BY ClientTypeInit
  <1>2. ASSUME NEW c \in Client PROVE StreamInv(c)
    BY <1>2 DEF CInit, StreamInv
  <1> QED  BY <1>1, <1>2 DEF HeardInv

(* The server hears the user's name and then what was typed in chat, in    *)
(* its order and each line once, until the input has ended, for any number *)
(* of clients, any window and any lives of the server.                     *)
THEOREM HeardAsTyped == CSpec => []HeardIsTyped
  <1>1. HeardInv => HeardIsTyped
    BY DEF HeardInv, StreamInv, Fits, HeardIsTyped
  <1> QED  BY <1>1, HeardInit, HeardStep, PTL DEF CSpec
=============================================================================
