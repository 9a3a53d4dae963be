------------------------------ MODULE ChatCalls ------------------------------
(***************************************************************************)
(* The protocol between a client and the chat server, as the sequence of   *)
(* calls that can be seen between them.  The server's handlers rely on it  *)
(* without checking it: one thread per client, and a timeline that is there*)
(* because the client logged in first.                                     *)
(***************************************************************************)
CONSTANT Client

VARIABLE stage   \* of each client

Stage == {"out", "login", "command", "call", "chat"}

(* A client logs in, issues one command at a time, may then open its chat  *)
(* stream, and never comes back from it: it ends and is started again.     *)
Moves ==
  {<<"out", "login">>, <<"login", "command">>,
   <<"command", "call">>, <<"call", "command">>, <<"command", "chat">>}
    \cup {<<s, "out">> : s \in Stage}

Init == stage = [c \in Client |-> "out"]

(* Several clients may lose their server in one step.                      *)
Next ==
  \A c \in Client : stage'[c] = stage[c] \/ <<stage[c], stage'[c]>> \in Moves

Spec == Init /\ [][Next]_stage
=============================================================================
