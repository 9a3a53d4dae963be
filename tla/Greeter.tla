------------------------------- MODULE Greeter -------------------------------
(***************************************************************************)
(* The greeter of the examples: greeter_client.cc makes two calls, one     *)
(* after the other, and prints what it gets; greeter_server.cc answers any *)
(* number of them at once and keeps no state.  The server may go away in   *)
(* the middle of a call, and come back.                                    *)
(***************************************************************************)
EXTENDS Integers, Sequences

CONSTANT Caller   \* client processes

VARIABLES
  alive,    \* the server is up
  doing,    \* the call that each client makes: none yet, one of two, or no more
  call,     \* how far that call is
  reply,    \* the message the server has made for it
  printed,  \* history: what each client printed
  greeted   \* history: the calls the server has executed for each client

gvars == <<alive, doing, call, reply, printed, greeted>>

Calls == {"SayHello", "SayHelloAgain"}

(* What the server's two methods answer, and what a failed call returns.   *)
SayHello(user)      == <<"Hello", user>>
SayHelloAgain(user) == <<"Hello again", user>>
Failed              == <<"RPC failed">>

GInit ==
  /\ alive \in BOOLEAN
  /\ doing = [c \in Caller |-> "none"]
  /\ call = [c \in Caller |-> "no"]
  /\ reply = [c \in Caller |-> <<>>]
  /\ printed = [c \in Caller |-> <<>>]
  /\ greeted = [c \in Caller |-> <<>>]

(* The client sends its request.                                           *)
Begin(c, first, m) ==
  /\ call[c] = "no" /\ doing[c] = first
  /\ doing' = [doing EXCEPT ![c] = m]
  /\ call' = [call EXCEPT ![c] = "asked"]
  /\ UNCHANGED <<alive, reply, printed, greeted>>

BeginHello(c) == Begin(c, "none", "SayHello")
BeginAgain(c) == Begin(c, "SayHello", "SayHelloAgain")

(* The server executes the method that was called.                         *)
Execute(c) ==
  /\ alive /\ call[c] = "asked"
  /\ call' = [call EXCEPT ![c] = "answered"]
  /\ reply' = [reply EXCEPT ![c] = IF doing[c] = "SayHello"
                                   THEN SayHello("world") ELSE SayHelloAgain("world")]
  /\ greeted' = [greeted EXCEPT ![c] = Append(@, doing[c])]
  /\ UNCHANGED <<alive, doing, printed>>

(* Mutated form: a failed call is made again.                              *)
Retry(c) ==
  /\ ~alive /\ call[c] \in {"asked", "answered"}
  /\ call' = [call EXCEPT ![c] = "asked"]
  /\ UNCHANGED <<alive, doing, reply, printed, greeted>>

Return(c, m) ==
  /\ call' = [call EXCEPT ![c] = "no"]
  /\ reply' = [reply EXCEPT ![c] = <<>>]
  /\ printed' = [printed EXCEPT ![c] = Append(@, m)]

(* The call returns with a status that is ok, and the reply.               *)
Ok(c) ==
  /\ alive /\ call[c] = "answered"
  /\ Return(c, reply[c])
  /\ UNCHANGED <<alive, doing, greeted>>

(* Or with one that is not, before or after the server has executed it.    *)
NotOk(c) ==
  /\ ~alive /\ call[c] \in {"asked", "answered"}
  /\ Return(c, Failed)
  /\ UNCHANGED <<alive, doing, greeted>>

(* The two methods of class GreeterClient, which differ in what they call. *)
GreeterClient(c) == BeginHello(c) \/ BeginAgain(c) \/ Ok(c) \/ NotOk(c)

(* A server starts, when the calls that its predecessor answered too late  *)
(* have failed; and the end of its process.                                *)
RunServer ==
  /\ ~alive /\ alive' = TRUE
  /\ \A c \in Caller : call[c] # "answered"
  /\ UNCHANGED <<doing, call, reply, printed, greeted>>
StopServer ==
  /\ alive /\ alive' = FALSE
  /\ UNCHANGED <<doing, call, reply, printed, greeted>>

GNext ==
  \/ \E c \in Caller : GreeterClient(c) \/ Execute(c)
  \/ RunServer \/ StopServer

GSpec == GInit /\ [][GNext]_gvars

-----------------------------------------------------------------------------
(* A client prints a greeting only if the server made it in answer to the  *)
(* same call, and no call is executed twice, however often the server goes *)
(* away while calls are under way.                                         *)
GreetedOnce ==
  \A c \in Caller :
    /\ \A i, j \in DOMAIN greeted[c] : greeted[c][i] = greeted[c][j] => i = j
    /\ \A i \in DOMAIN printed[c] :
         printed[c][i] # Failed =>
           /\ printed[c][i] = <<SayHello("world"), SayHelloAgain("world")>>[i]
           /\ \E j \in DOMAIN greeted[c] :
                greeted[c][j] = <<"SayHello", "SayHelloAgain">>[i]
=============================================================================
