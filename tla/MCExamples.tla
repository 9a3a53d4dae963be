----------------------------- MODULE MCExamples -----------------------------
(***************************************************************************)
(* Instances of the examples for TLC.  The two have nothing in common and  *)
(* are run side by side.                                                   *)
(***************************************************************************)
EXTENDS AddressBook, Greeter

CONSTANTS p1, p2, l1, c1

NoText == ""

(* A full set of answers with two phones before the blank one, and one     *)
(* whose id is not a number.                                               *)
SomeAnswers ==
  {[id |-> 7, name |-> "Ann", email |-> NoText,
    phones |-> <<<<"1", "home">>, <<"2", "fax">>, <<NoText, NoText>>, <<"3", "work">>>>],
   [id |-> NaN, name |-> "Bob", email |-> "b@x", phones |-> <<>>]}

ExInit == AInit /\ GInit
ExNext ==
  \/ ANext /\ UNCHANGED gvars
  \/ GNext /\ UNCHANGED avars
ExSpec == ExInit /\ [][ExNext]_<<avars, gvars>>
=============================================================================
