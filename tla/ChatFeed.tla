------------------------------ MODULE ChatFeed ------------------------------
(***************************************************************************)
(* What a chat stream promises to the client at its other end, however the *)
(* handlers of the server interleave: it carries messages that were posted,*)
(* and it carries them in the order of their timestamps.  It may also carry*)
(* what is no message: a status that was read before it was assigned, or   *)
(* while it was cleared, and which names nobody.                           *)
(***************************************************************************)
EXTENDS Integers, Sequences

CONSTANTS Client, Stats, NoName

VARIABLES
  posted,       \* every message that was stored
  sent,         \* the messages on each client's open stream
  mostRecent    \* the timestamp each stream has got to

feed == <<posted, sent, mostRecent>>

Init ==
  /\ posted \in SUBSET Stats
  /\ sent = [c \in Client |-> <<>>]
  /\ mostRecent = [c \in Client |-> -1]

(* A new message is stored.  (Named from posted' and not from Stats, which *)
(* is infinite: TLC only evaluates this on steps of an implementation.)    *)
Post ==
  /\ \E s \in posted' : s \in Stats \ posted /\ posted' = posted \cup {s}
  /\ UNCHANGED <<sent, mostRecent>>

(* A stored message goes out; the stream never goes back in time.          *)
Deliver(c) ==
  /\ \E s \in posted :
       /\ s.timestamp >= mostRecent[c]
       /\ sent' = [sent EXCEPT ![c] = Append(@, s)]
       /\ mostRecent' = [mostRecent EXCEPT ![c] = s.timestamp]
  /\ UNCHANGED posted

(* Something that names nobody goes out.  Its stamp, if any, is kept as the*)
(* one the stream has got to.  (Named from sent', as above.)               *)
Garble(c) ==
  /\ \E s \in {sent'[c][i] : i \in DOMAIN sent'[c]} :
       /\ s \in Stats /\ s.name = NoName
       /\ sent' = [sent EXCEPT ![c] = Append(@, s)]
       /\ mostRecent' = [mostRecent EXCEPT
            ![c] = IF s.timestamp > @ THEN s.timestamp ELSE @]
  /\ UNCHANGED posted

(* The client ends or opens another stream.                                *)
Reset(c) ==
  /\ sent' = [sent EXCEPT ![c] = <<>>]
  /\ mostRecent' = [mostRecent EXCEPT ![c] = -1]
  /\ UNCHANGED posted

Next == Post \/ \E c \in Client : Deliver(c) \/ Garble(c) \/ Reset(c)

Spec == Init /\ [][Next]_feed
=============================================================================
