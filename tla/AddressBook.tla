----------------------------- MODULE AddressBook -----------------------------
(***************************************************************************)
(* The address book of the examples: add_person.cc reads a whole file,     *)
(* asks its user for one more person, and writes the whole file;           *)
(* list_people.cc prints it.  Any number of them run at once on one file,  *)
(* and any of them may be ended at any moment.                             *)
(***************************************************************************)
EXTENDS Integers, SequencesExt

CONSTANTS
  Adder, Lister,   \* the processes
  Answers,         \* what a user may answer to the prompts
  Blank, NaN,      \* an empty answer, and one that is not a number
  MaxRuns          \* bound: how many times a program is started

Phone  == [number : STRING, type : {"MOBILE", "HOME", "WORK"}]
Person == [id : Int, name : STRING, email : STRING, phones : Seq(Phone)]
Book   == Seq(Person)

ASSUME AddressAssumption ==
  /\ \A a \in Answers :
       /\ a.id \in Int \cup {NaN} /\ {a.name, a.email} \subseteq STRING
       /\ a.phones \in Seq(STRING \X STRING)
  /\ MaxRuns \in Nat /\ Blank \in STRING /\ NaN \notin Int
  /\ Adder \cap Lister = {}

VARIABLES
  file,      \* is there a file, can it be parsed, and who is found in it
  stage,     \* what each process is about to do
  book,      \* the local address_book
  mixed,     \* adders whose file another has opened or written since they opened it
  runs,      \* how many programs have been started
  entered,   \* history: everyone who was typed in
  saved,     \* history: those whose program returned 0, in that order
  apart,     \* history: no two adders overlapped, none was cut short in a write
  clean      \* history: no adder has written to a file of its `mixed`

avars == <<file, stage, book, mixed, runs, entered, saved, apart, clean>>

File == [there : BOOLEAN, readable : BOOLEAN, people : Book]
NoFile == [there |-> FALSE, readable |-> TRUE, people |-> <<>>]
Unreadable == [there |-> TRUE, readable |-> FALSE, people |-> <<>>]
Holding(people) == [there |-> TRUE, readable |-> TRUE, people |-> people]

AInit ==
  /\ file = NoFile
  /\ stage = [p \in Adder \cup Lister |-> "ended"]
  /\ book = [p \in Adder \cup Lister |-> <<>>]
  /\ mixed = {} /\ runs = 0
  /\ entered = {} /\ saved = <<>> /\ apart = TRUE /\ clean = TRUE

Go(p, from, to) == stage[p] = from /\ stage' = [stage EXCEPT ![p] = to]

(* An adder that has read the file and not written it yet.                 *)
Adding == {p \in Adder : stage[p] \in {"prompt", "open", "write", "rest"}}
Writing == {p \in Adder : stage[p] \in {"write", "rest"}}

-----------------------------------------------------------------------------
(* add_person.cc                                                           *)

(* Mutated form: the word is taken as it is.                               *)
PhoneTypeAsTyped(word) == word

(* The type of a phone: one of three words, or the default.                *)
PhoneType(word) ==
  CASE word = "home" -> "HOME" [] word = "work" -> "WORK" [] OTHER -> "MOBILE"

(* The person made from a user's answers.  Phones are asked for until one  *)
(* is blank.  An id that is no number makes cin fail, and every answer     *)
(* after it is then read as blank.                                         *)
PromptForAddress(a) ==
  LET blanks == {i \in DOMAIN a.phones : a.phones[i][1] = Blank}
      asked  == {i \in DOMAIN a.phones : \A j \in blanks : i < j}
  IN  IF a.id = NaN
      THEN [id |-> 0, name |-> Blank, email |-> Blank, phones |-> <<>>]
      ELSE [id |-> a.id, name |-> a.name, email |-> a.email,
            phones |-> [i \in asked |-> [number |-> a.phones[i][1],
                                         type |-> PhoneType(a.phones[i][2])]]]

Run(p) ==
  /\ runs < MaxRuns
  /\ Go(p, "ended", "read")
  /\ runs' = runs + 1
  /\ book' = [book EXCEPT ![p] = <<>>]
  /\ UNCHANGED <<file, mixed, entered, saved, apart, clean>>

(* Mutated form: the file is not read.                                     *)
ReadNothing(p) ==
  /\ Go(p, "read", "prompt")
  /\ apart' = (apart /\ Adding = {})
  /\ UNCHANGED <<file, book, mixed, runs, entered, saved, clean>>

(* No file is an empty book; one that does not parse ends the program.     *)
ReadBook(p) ==
  /\ Go(p, "read", IF file.readable THEN "prompt" ELSE "ended")
  /\ book' = [book EXCEPT ![p] = file.people]
  /\ apart' = (apart /\ (Adding = {} \/ ~file.readable))
  /\ UNCHANGED <<file, mixed, runs, entered, saved, clean>>

(* Mutated form: a person is added twice, and only one is filled in.       *)
PromptTwice(p) ==
  /\ Go(p, "prompt", "open")
  /\ \E a \in Answers :
       /\ book' = [book EXCEPT ![p] = Append(Append(@, PromptForAddress(a)),
            [id |-> 0, name |-> Blank, email |-> Blank, phones |-> <<>>])]
       /\ entered' = entered \cup {PromptForAddress(a)}
  /\ UNCHANGED <<file, mixed, runs, saved, apart, clean>>

Prompt(p) ==
  /\ Go(p, "prompt", "open")
  /\ \E a \in Answers :
       /\ book' = [book EXCEPT ![p] = Append(@, PromptForAddress(a))]
       /\ entered' = entered \cup {PromptForAddress(a)}
  /\ UNCHANGED <<file, mixed, runs, saved, apart, clean>>

(* The file is opened with ios::trunc, or cannot be opened.                *)
OpenBook(p) ==
  /\ \/ /\ Go(p, "open", "write")
        /\ file' = Holding(<<>>)
        /\ mixed' = mixed \cup (Writing \ {p})
     \/ Go(p, "open", "ended") /\ UNCHANGED <<file, mixed>>
  /\ UNCHANGED <<book, runs, entered, saved, apart, clean>>

(* Someone who was never typed in, and stands for whoever is found when the*)
(* file is parsed from the middle of a record.                             *)
Stray == [id |-> -1, name |-> Blank, email |-> Blank, phones |-> <<>>]

(* What is in the file when p has written these people to it.  If another  *)
(* has opened or written it since p opened it, the end of what the other   *)
(* wrote may stick out behind, from the middle of a record on, or bytes be *)
(* missing in front.                                                       *)
Written(p, people) ==
  {Holding(people)} \cup
    IF p \notin mixed THEN {}
    ELSE {Unreadable, Holding(Append(people, Stray))} \cup
         {Holding(people \o SubSeq(file.people, n, Len(file.people))) :
            n \in DOMAIN file.people}

(* A part of the message reaches the file: cut between two people it can be*)
(* parsed.                                                                 *)
WritePart(p) ==
  /\ Go(p, "write", "rest")
  /\ file' \in {Unreadable} \cup
       UNION {Written(p, SubSeq(book[p], 1, n)) : n \in DOMAIN book[p]}
  /\ mixed' = mixed \cup (Writing \ {p})
  /\ clean' = (clean /\ p \notin mixed)
  /\ UNCHANGED <<book, runs, entered, saved, apart>>

(* The rest reaches it, and p returns 0.                                   *)
WriteBook(p) ==
  /\ p \in Writing /\ Go(p, stage[p], "ended")
  /\ file' \in Written(p, book[p])
  /\ mixed' = (mixed \cup Writing) \ {p}
  /\ clean' = (clean /\ p \notin mixed)
  /\ saved' = Append(saved, Last(book[p]))
  /\ UNCHANGED <<book, runs, entered, apart>>

-----------------------------------------------------------------------------
(* list_people.cc: one that is not there does not parse either.            *)

ReadList(p) ==
  /\ Go(p, "read", IF file.there /\ file.readable THEN "print" ELSE "ended")
  /\ book' = [book EXCEPT ![p] = file.people]
  /\ UNCHANGED <<file, mixed, runs, entered, saved, apart, clean>>

ListPeople(p) ==
  /\ Go(p, "print", "ended")
  /\ UNCHANGED <<file, book, mixed, runs, entered, saved, apart, clean>>

End(p) ==
  /\ stage[p] # "ended"
  /\ Go(p, stage[p], "ended")
  /\ apart' = (apart /\ p \notin Writing)
  /\ mixed' = mixed \ {p}
  /\ UNCHANGED <<file, book, runs, entered, saved, clean>>

-----------------------------------------------------------------------------
(* The main functions of the two programs.                                 *)
add_person(p) ==
  ReadBook(p) \/ Prompt(p) \/ OpenBook(p) \/ WritePart(p) \/ WriteBook(p)
list_people(p) == ReadList(p) \/ ListPeople(p)

ANext ==
  \/ \E p \in Adder : add_person(p)
  \/ \E p \in Lister : list_people(p)
  \/ \E p \in Adder \cup Lister : Run(p) \/ End(p)

ASpec == AInit /\ [][ANext]_avars

-----------------------------------------------------------------------------
(* The variables have their types.                                         *)
ATypeOK ==
  /\ file \in File
  /\ stage \in [Adder \cup Lister ->
                  {"ended", "read", "prompt", "open", "write", "rest", "print"}]
  /\ \A p \in Lister : stage[p] \in {"ended", "read", "print"}
  /\ mixed \subseteq Writing
  /\ book \in [Adder \cup Lister -> Book]
  /\ runs \in 0 .. MaxRuns
  /\ entered \in SUBSET Person /\ saved \in Book
  /\ {apart, clean} \subseteq BOOLEAN

(* "Reads the entire address book from a file, adds one person based on    *)
(* user input, then writes it back out to the same file": as long as no    *)
(* two adders overlap and none is ended while it writes, the file is the   *)
(* list of those who were added, in that order, whoever else reads it and  *)
(* whichever programs end before they write.                               *)
ApartKeepsAll ==
  apart /\ Adding = {} => file.people = saved

(* As long as no two adders write at once, however else they overlap and   *)
(* wherever they are ended, in the middle of a write too, nobody is in the *)
(* file, or printed, who was not typed in.                                 *)
NoStranger ==
  clean =>
    /\ ToSet(file.people) \subseteq entered
    /\ \A p \in Adder \cup Lister : ToSet(book[p]) \subseteq entered
=============================================================================
