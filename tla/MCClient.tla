------------------------------ MODULE MCClient ------------------------------
(***************************************************************************)
(* Instances of ChatClient for TLC.                                        *)
(***************************************************************************)
EXTENDS ChatClient

CONSTANT c1

(* Lines that are a command, a command with a word missing, and the other  *)
(* command; in chat each of them is a message.                             *)
Lines == {<<"CHAT">>, <<"JOIN">>, <<"LEAVE", "b">>}
=============================================================================
