---------------------------- MODULE ExampleProofs ----------------------------
(***************************************************************************)
(* Proofs about the two examples: AddressBook, for any number of programs, *)
(* any answers and any number of runs; Greeter, for any number of clients  *)
(* and any number of times that the server goes away.                      *)
(***************************************************************************)
EXTENDS AddressBook, Greeter, SequenceTheorems, WellFoundedInduction, TLAPS

-----------------------------------------------------------------------------
(* The answers.                                                            *)

LEMMA PrefixIsInterval ==
  ASSUME NEW n \in Nat, NEW B \in SUBSET (1 .. n)
  PROVE  \E k \in 0 .. n : {i \in 1 .. n : \A j \in B : i < j} = 1 .. k
  <1>1. CASE B = {}
    BY <1>1
  <1>2. CASE B # {}
    <2>0. B \subseteq Nat
      OBVIOUS
    <2>3. PICK b \in B : \A j \in B : <<j, b>> \notin OpToRel(<, Nat)
      BY <1>2, <2>0, NatLessThanWellFounded, WFMin
    <2>1. \A j \in B : ~(j < b)
      BY <2>0, <2>3, Zenon DEF OpToRel
    <2>2. {i \in 1 .. n : \A j \in B : i < j} = 1 .. b - 1
      BY <2>1
    <2> QED  BY <2>1, <2>2
  <1> QED  BY <1>1, <1>2

LEMMA PhoneTypeType ==
  ASSUME NEW w PROVE PhoneType(w) \in {"MOBILE", "HOME", "WORK"}
  BY DEF PhoneType

Entry == {PromptForAddress(a) : a \in Answers}

(* What a program makes of the answers is a person, and the phones are a   *)
(* sequence: those given before the first blank one.                       *)
LEMMA EntryType == Entry \subseteq Person
  <1> SUFFICES ASSUME NEW a \in Answers PROVE PromptForAddress(a) \in Person
    BY DEF Entry
  <1>1. /\ a.id \in Int \cup {NaN} /\ a.name \in STRING /\ a.email \in STRING
        /\ a.phones \in Seq(STRING \X STRING)
    BY AddressAssumption
  <1> DEFINE n == Len(a.phones)
             blanks == {i \in DOMAIN a.phones : a.phones[i][1] = Blank}
             asked == {i \in DOMAIN a.phones : \A j \in blanks : i < j}
             phones == [i \in asked |-> [number |-> a.phones[i][1],
                                         type |-> PhoneType(a.phones[i][2])]]
  <1>2. n \in Nat /\ DOMAIN a.phones = 1 .. n
    BY <1>1, LenProperties
  <1>3. PICK k \in 0 .. n : asked = 1 .. k
    <2>1. blanks \in SUBSET (1 .. n)
      BY <1>2
    <2>2. asked = {i \in 1 .. n : \A j \in blanks : i < j}
      BY <1>2
    <2> HIDE DEF asked, blanks, n
    <2> QED  BY <1>2, <2>1, <2>2, PrefixIsInterval
  <1>4. \A i \in 1 .. k : [number |-> a.phones[i][1],
                           type |-> PhoneType(a.phones[i][2])] \in Phone
    <2> TAKE i \in 1 .. k
    <2>1. a.phones[i] \in STRING \X STRING
      BY <1>1, <1>2, <1>3, ElementOfSeq
    <2>2. a.phones[i][1] \in STRING
      BY <2>1
    <2> QED  BY <2>2, PhoneTypeType DEF Phone
  <1>5. phones \in [1 .. k -> Phone]
    BY <1>3, <1>4
  <1>6. phones \in Seq(Phone)
    <2>1. k \in Nat
      BY <1>2
    <2> HIDE DEF phones
    <2> QED  BY <1>5, <2>1, SeqDef
  <1>7. PromptForAddress(a) =
          IF a.id = NaN
          THEN [id |-> 0, name |-> Blank, email |-> Blank, phones |-> <<>>]
          ELSE [id |-> a.id, name |-> a.name, email |-> a.email, phones |-> phones]
    BY DEF PromptForAddress
  <1>8. <<>> \in Seq(Phone)
    BY EmptySeq
  <1> HIDE DEF phones
  <1>9. CASE a.id = NaN
    <2>1. Blank \in STRING
      BY AddressAssumption
    <2>2. PromptForAddress(a) = [id |-> 0, name |-> Blank, email |-> Blank, phones |-> <<>>]
      BY <1>7, <1>9
    <2> QED  BY <1>8, <2>1, <2>2 DEF Person
  <1>10. CASE a.id # NaN
    BY <1>1, <1>6, <1>7, <1>10 DEF Person
  <1> QED  BY <1>9, <1>10

-----------------------------------------------------------------------------
(* Types.                                                                  *)

FileOf(S) == [there : BOOLEAN, readable : BOOLEAN, people : Seq(S)]
Stages == {"ended", "read", "prompt", "open", "write", "rest", "print"}

(* Who may be in a book: those who were typed in, and, once two adders have*)
(* written at once, a stray.                                               *)
Everyone == entered \cup (IF clean THEN {} ELSE {Stray})

(* Books hold nobody else, and from the prompt on an adder's book is not   *)
(* empty.                                                                  *)
Held ==
  /\ file \in FileOf(Everyone)
  /\ stage \in [Adder \cup Lister -> Stages]
  /\ \A p \in Lister : stage[p] \in {"ended", "read", "print"}
  /\ mixed \subseteq Writing
  /\ book \in [Adder \cup Lister -> Seq(Everyone)]
  /\ \A p \in Adder : stage[p] \in {"open", "write", "rest"} => book[p] # <<>>
  /\ runs \in 0 .. MaxRuns
  /\ entered \subseteq Entry /\ saved \in Seq(Everyone)
  /\ apart \in BOOLEAN /\ clean \in BOOLEAN

LEMMA LastIs ==
  ASSUME NEW S, NEW s \in Seq(S), s # <<>>
  PROVE  Last(s) \in S
  <1>1. Len(s) \in Nat \ {0}
    BY EmptySeq
  <1> QED  BY <1>1, ElementOfSeq DEF Last

LEMMA LastAppended ==
  ASSUME NEW S, NEW s \in Seq(S), NEW e \in S
  PROVE  Append(s, e) \in Seq(S) /\ Append(s, e) # <<>> /\ Last(Append(s, e)) = e
  <1>1. /\ Append(s, e) \in Seq(S) /\ Len(Append(s, e)) = Len(s) + 1
        /\ Append(s, e)[Len(s) + 1] = e
    BY AppendProperties
  <1>2. Len(s) \in Nat
    BY LenProperties
  <1> QED  BY <1>1, <1>2, EmptySeq DEF Last

LEMMA PartIs ==
  ASSUME NEW S, NEW s \in Seq(S), NEW m \in DOMAIN s, NEW n \in DOMAIN s
  PROVE  SubSeq(s, m, n) \in Seq(S)
  <1>1. DOMAIN s = 1 .. Len(s) /\ Len(s) \in Nat
    BY LenProperties
  <1>2. \A i \in m .. n : s[i] \in S
    BY <1>1, ElementOfSeq
  <1> QED  BY <1>1, <1>2, SubSeqProperties

LEMMA HoldingType ==
  ASSUME NEW S, NEW s \in Seq(S)
  PROVE  Holding(s) \in FileOf(S) /\ Unreadable \in FileOf(S) /\ NoFile \in FileOf(S)
  BY EmptySeq DEF Holding, Unreadable, NoFile, FileOf

LEMMA HeldInit ==
  ASSUME AInit PROVE Held
  <1>1. <<>> \in Seq(Everyone)
    BY EmptySeq
  <1>2. /\ file \in FileOf(Everyone)
        /\ book \in [Adder \cup Lister -> Seq(Everyone)] /\ saved \in Seq(Everyone)
    BY <1>1, HoldingType DEF AInit
  <1>3. runs \in 0 .. MaxRuns
    BY AddressAssumption DEF AInit
  <1>4. /\ stage \in [Adder \cup Lister -> Stages]
        /\ \A p \in Adder \cup Lister : stage[p] = "ended"
    BY DEF AInit, Stages
  <1> QED  BY <1>2, <1>3, <1>4 DEF AInit, Held

(* A step of p changes p's stage only; mixed stays with those who write.   *)
LEMMA StageStep ==
  ASSUME Held, NEW p \in Adder \cup Lister, NEW from, NEW to, Go(p, from, to),
         to \in IF p \in Adder THEN Stages ELSE {"ended", "read", "print"}
  PROVE  /\ stage' \in [Adder \cup Lister -> Stages]
         /\ \A q \in Lister : stage'[q] \in {"ended", "read", "print"}
         /\ stage[p] = from /\ stage'[p] = to
         /\ \A q \in Adder \cup Lister : q # p => stage'[q] = stage[q]
         /\ Writing \ {p} \subseteq Writing'
         /\ from \notin {"write", "rest"} => Writing \subseteq Writing'
         /\ to \in {"write", "rest"} => Writing \subseteq Writing'
  <1>1. stage \in [Adder \cup Lister -> Stages]
    BY DEF Held
  <1>2. stage' \in [Adder \cup Lister -> Stages]
    BY <1>1 DEF Go, Stages
  <1>3. stage[p] = from /\ stage'[p] = to
    BY <1>1 DEF Go
  <1>4. \A q \in Adder \cup Lister : q # p => stage'[q] = stage[q]
    BY <1>1 DEF Go
  <1>5. ASSUME NEW q \in Lister PROVE stage'[q] \in {"ended", "read", "print"}
    BY <1>3, <1>4, AddressAssumption DEF Held
  <1>6. Writing \ {p} \subseteq Writing'
    BY <1>4 DEF Writing
  <1>7. from \notin {"write", "rest"} => p \notin Writing
    BY <1>3 DEF Writing
  <1>8. to \in {"write", "rest"} => p \in Writing' \/ p \notin Writing
    BY <1>3 DEF Writing
  <1> QED  BY <1>2, <1>3, <1>4, <1>5, <1>6, <1>7, <1>8

LEMMA RunHeld ==
  ASSUME Held, NEW p \in Adder \cup Lister, Run(p) \/ End(p) PROVE Held'
  <1>0. Everyone' = Everyone
    BY DEF Run, End, Everyone
  <1>1. CASE Run(p)
    <2>1. Go(p, "ended", "read") /\ <<>> \in Seq(Everyone)
      BY <1>1, EmptySeq DEF Run
    <2>2. book' \in [Adder \cup Lister -> Seq(Everyone)]
      BY <1>1, <2>1 DEF Run, Held
    <2>3. mixed' \subseteq Writing'
      BY <1>1, <2>1, StageStep DEF Run, Held, Stages
    <2>4. \A q \in Adder :
            stage'[q] \in {"open", "write", "rest"} => book'[q] # <<>>
      BY <1>1, <2>1, StageStep DEF Run, Held, Stages
    <2>5. runs' \in 0 .. MaxRuns
      BY <1>1, AddressAssumption DEF Run, Held
    <2> QED
      BY <1>0, <1>1, <2>1, <2>2, <2>3, <2>4, <2>5, StageStep DEF Run, Held, Stages
  <1>2. CASE End(p)
    <2>1. Go(p, stage[p], "ended")
      BY <1>2 DEF End
    <2>2. mixed' \subseteq Writing'
      BY <1>2, <2>1, StageStep DEF End, Held, Stages
    <2>3. \A q \in Adder :
            stage'[q] \in {"open", "write", "rest"} => book'[q] # <<>>
      BY <1>2, <2>1, StageStep DEF End, Held, Stages
    <2> QED  BY <1>0, <1>2, <2>1, <2>2, <2>3, StageStep DEF End, Held, Stages
  <1> QED  BY <1>1, <1>2

LEMMA ReadHeld ==
  ASSUME Held, NEW p \in Adder, ReadBook(p) PROVE Held'
  <1>0. Everyone' = Everyone
    BY DEF ReadBook, Everyone
  <1>1. PICK to \in {"prompt", "ended"} : Go(p, "read", to)
    BY DEF ReadBook
  <1>2. book' \in [Adder \cup Lister -> Seq(Everyone)]
    BY DEF ReadBook, Held, FileOf
  <1>3. mixed' \subseteq Writing'
    BY <1>1, StageStep DEF ReadBook, Held, Stages, Writing
  <1>4. \A q \in Adder : stage'[q] \in {"open", "write", "rest"} => book'[q] # <<>>
    BY <1>1, StageStep DEF ReadBook, Held, Stages
  <1>5. apart' \in BOOLEAN
    BY DEF ReadBook
  <1> QED  BY <1>0, <1>1, <1>2, <1>3, <1>4, <1>5, StageStep DEF ReadBook, Held, Stages

LEMMA PromptHeld ==
  ASSUME Held, NEW p \in Adder, Prompt(p) PROVE Held'
  <1>1. Go(p, "prompt", "open")
    BY DEF Prompt
  <1>2. PICK a \in Answers :
          /\ book' = [book EXCEPT ![p] = Append(@, PromptForAddress(a))]
          /\ entered' = entered \cup {PromptForAddress(a)}
    BY DEF Prompt
  <1>3. Everyone \subseteq Everyone' /\ PromptForAddress(a) \in Everyone'
    BY <1>2 DEF Prompt, Everyone
  <1>4. \A s \in Seq(Everyone) : s \in Seq(Everyone')
    BY <1>3, SeqMonotonic
  <1>5. book[p] \in Seq(Everyone')
    BY <1>4 DEF Held
  <1>6. book'[p] = Append(book[p], PromptForAddress(a))
    BY <1>2 DEF Held
  <1>7. book'[p] \in Seq(Everyone') /\ book'[p] # <<>>
    BY <1>3, <1>5, <1>6, LastAppended
  <1>8. \A q \in Adder \cup Lister : q # p => book'[q] = book[q]
    BY <1>2 DEF Held
  <1>9. book' \in [Adder \cup Lister -> Seq(Everyone')]
    <2>1. DOMAIN book' = Adder \cup Lister /\ book' = [q \in DOMAIN book' |-> book'[q]]
      BY <1>2 DEF Held
    <2>2. \A q \in Adder \cup Lister : book'[q] \in Seq(Everyone')
      BY <1>4, <1>7, <1>8 DEF Held
    <2> QED  BY <2>1, <2>2
  <1>10. mixed' \subseteq Writing'
    BY <1>1, StageStep DEF Prompt, Held, Stages
  <1>11. \A q \in Adder : stage'[q] \in {"open", "write", "rest"} => book'[q] # <<>>
    <2> SUFFICES ASSUME NEW q \in Adder, q # p,
                        stage'[q] \in {"open", "write", "rest"}
                 PROVE  book'[q] # <<>>
      BY <1>7
    <2>1. stage'[q] = stage[q]
      BY <1>1, StageStep DEF Stages
    <2> QED  BY <1>8, <2>1 DEF Held
  <1>12. file' \in FileOf(Everyone')
    BY <1>4 DEF Prompt, Held, FileOf
  <1>13. entered' \subseteq Entry
    BY <1>2 DEF Held, Entry
  <1>14. /\ saved' \in Seq(Everyone') /\ runs' \in 0 .. MaxRuns
         /\ apart' \in BOOLEAN /\ clean' \in BOOLEAN
    BY <1>4 DEF Prompt, Held
  <1> QED
    BY <1>1, <1>9, <1>10, <1>11, <1>12, <1>13, <1>14, StageStep DEF Held, Stages

LEMMA OpenHeld ==
  ASSUME Held, NEW p \in Adder, OpenBook(p) PROVE Held'
  <1>0. Everyone' = Everyone
    BY DEF OpenBook, Everyone
  <1>1. PICK to \in {"write", "ended"} : Go(p, "open", to)
    BY DEF OpenBook
  <1>2. file' \in FileOf(Everyone)
    <2>1. <<>> \in Seq(Everyone)
      BY EmptySeq
    <2> QED  BY <2>1, HoldingType DEF OpenBook, Held
  <1>3. mixed' \subseteq Writing'
    BY <1>1, StageStep DEF OpenBook, Held, Stages, Writing
  <1>4. \A q \in Adder : stage'[q] \in {"open", "write", "rest"} => book'[q] # <<>>
    BY <1>1, StageStep DEF OpenBook, Held, Stages
  <1> QED  BY <1>0, <1>1, <1>2, <1>3, <1>4, StageStep DEF OpenBook, Held, Stages

(* Whatever is found in the file after a write is a person of the written  *)
(* book or was in the file, or is a stray if writes have been mixed.       *)
LEMMA WrittenType ==
  ASSUME Held, NEW p \in Adder, NEW people \in Seq(Everyone),
         clean' = (clean /\ p \notin mixed), entered' = entered,
         file' \in Written(p, people) \cup {Unreadable}
  PROVE  Everyone \subseteq Everyone' /\ file' \in FileOf(Everyone')
  <1>1. Everyone \subseteq Everyone' /\ (p \in mixed => Stray \in Everyone')
    BY DEF Everyone
  <1>2. people \in Seq(Everyone') /\ file.people \in Seq(Everyone')
    BY <1>1, SeqMonotonic DEF Held, FileOf
  <1>3. CASE file' = Unreadable
    BY <1>1, <1>3, EmptySeq, HoldingType
  <1>4. CASE file' = Holding(people)
    BY <1>1, <1>2, <1>4, HoldingType
  <1>5. CASE p \in mixed /\ file' = Holding(Append(people, Stray))
    <2>1. Append(people, Stray) \in Seq(Everyone')
      BY <1>1, <1>2, <1>5, AppendProperties
    <2> QED  BY <1>1, <1>5, <2>1, HoldingType
  <1>6. ASSUME NEW n \in DOMAIN file.people,
               file' = Holding(people \o SubSeq(file.people, n, Len(file.people)))
        PROVE  file' \in FileOf(Everyone')
    <2>1. Len(file.people) \in DOMAIN file.people
      BY <1>2, LenProperties
    <2>2. SubSeq(file.people, n, Len(file.people)) \in Seq(Everyone')
      BY <1>2, <2>1, PartIs
    <2>3. people \o SubSeq(file.people, n, Len(file.people)) \in Seq(Everyone')
      BY <1>2, <2>2, ConcatProperties
    <2> QED  BY <1>6, <2>3, HoldingType
  <1> QED  BY <1>1, <1>3, <1>4, <1>5, <1>6 DEF Written

LEMMA PartHeld ==
  ASSUME Held, NEW p \in Adder, WritePart(p) PROVE Held'
  <1>1. Go(p, "write", "rest")
    BY DEF WritePart
  <1>2. book[p] \in Seq(Everyone) /\ book[p] # <<>>
    BY <1>1 DEF Held, Go
  <1>3. PICK n \in DOMAIN book[p] :
          file' \in Written(p, SubSeq(book[p], 1, n)) \cup {Unreadable}
    <2>1. 1 \in DOMAIN book[p]
      BY <1>2, LenProperties, EmptySeq
    <2> QED  BY <2>1 DEF WritePart
  <1>4. SubSeq(book[p], 1, n) \in Seq(Everyone)
    <2>1. 1 \in DOMAIN book[p]
      BY <1>2, LenProperties
    <2> QED  BY <1>2, <2>1, PartIs
  <1>5. Everyone \subseteq Everyone' /\ file' \in FileOf(Everyone')
    BY <1>3, <1>4, WrittenType DEF WritePart
  <1>6. \A s \in Seq(Everyone) : s \in Seq(Everyone')
    BY <1>5, SeqMonotonic
  <1>7. book' \in [Adder \cup Lister -> Seq(Everyone')] /\ saved' \in Seq(Everyone')
    BY <1>6 DEF WritePart, Held
  <1>8. mixed' \subseteq Writing'
    BY <1>1, StageStep DEF WritePart, Held, Stages, Writing
  <1>9. \A q \in Adder : stage'[q] \in {"open", "write", "rest"} => book'[q] # <<>>
    BY <1>1, StageStep DEF WritePart, Held, Stages
  <1>10. runs' \in 0 .. MaxRuns /\ entered' \subseteq Entry /\ apart' \in BOOLEAN
         /\ clean' \in BOOLEAN
    BY DEF WritePart, Held
  <1> QED
    BY <1>1, <1>5, <1>7, <1>8, <1>9, <1>10, StageStep DEF Held, Stages

LEMMA WriteHeld ==
  ASSUME Held, NEW p \in Adder, WriteBook(p) PROVE Held'
  <1>1. Go(p, stage[p], "ended") /\ p \in Writing
    BY DEF WriteBook
  <1>2. book[p] \in Seq(Everyone)
    BY DEF Held
  <1>3. Everyone \subseteq Everyone' /\ file' \in FileOf(Everyone')
    BY <1>2, WrittenType DEF WriteBook
  <1>4. \A s \in Seq(Everyone) : s \in Seq(Everyone')
    BY <1>3, SeqMonotonic
  <1>5. mixed' \subseteq Writing'
    <2>1. mixed' = (mixed \cup Writing) \ {p} /\ mixed \subseteq Writing
      BY DEF WriteBook, Held
    <2>2. Writing \ {p} \subseteq Writing'
      BY <1>1, StageStep DEF Held, Stages
    <2> QED  BY <2>1, <2>2
  <1>6. \A q \in Adder : stage'[q] \in {"open", "write", "rest"} => book'[q] # <<>>
    <2>1. stage'[p] = "ended" /\ \A q \in Adder : q # p => stage'[q] = stage[q]
      BY <1>1, StageStep DEF Held, Stages
    <2>2. book' = book
      BY DEF WriteBook
    <2> QED  BY <2>1, <2>2 DEF Held
  <1>7. saved' \in Seq(Everyone')
    <2>1. book[p] # <<>>
      BY <1>1 DEF Writing, Held
    <2>2. Last(book[p]) \in Everyone'
      BY <1>2, <1>3, <2>1, LastIs
    <2>3. saved \in Seq(Everyone')
      BY <1>4 DEF Held
    <2> QED  BY <2>2, <2>3, LastAppended DEF WriteBook
  <1>8. book' \in [Adder \cup Lister -> Seq(Everyone')]
    BY <1>4 DEF WriteBook, Held
  <1>9. runs' \in 0 .. MaxRuns /\ entered' \subseteq Entry /\ apart' \in BOOLEAN
        /\ clean' \in BOOLEAN
    BY DEF WriteBook, Held
  <1> QED
    BY <1>1, <1>3, <1>5, <1>6, <1>7, <1>8, <1>9, StageStep DEF Held, Stages

LEMMA ListHeld ==
  ASSUME Held, NEW p \in Lister, list_people(p) PROVE Held'
  <1>1. p \notin Adder
    BY AddressAssumption
  <1>2. PICK from \in Stages, to \in {"print", "ended"} : Go(p, from, to)
    BY DEF list_people, ReadList, ListPeople, Stages
  <1>3. book' \in [Adder \cup Lister -> Seq(Everyone)]
    BY DEF list_people, ReadList, ListPeople, Held, FileOf
  <1>4. \A q \in Adder : book'[q] = book[q] /\ stage'[q] = stage[q]
    BY <1>1, <1>2, StageStep DEF list_people, ReadList, ListPeople, Held
  <1>5. /\ UNCHANGED <<file, mixed, runs, entered, saved, apart, clean>>
        /\ Writing' = Writing /\ Everyone' = Everyone
    BY <1>4 DEF list_people, ReadList, ListPeople, Writing, Everyone
  <1> QED  BY <1>1, <1>2, <1>3, <1>4, <1>5, StageStep DEF Held, Stages

LEMMA HeldStep ==
  ASSUME Held, [ANext]_avars PROVE Held'
  <1>1. CASE UNCHANGED avars
    BY <1>1 DEF avars, Held, Writing, Everyone
  <1>2. CASE ANext
    BY <1>2, RunHeld, ReadHeld, PromptHeld, OpenHeld, PartHeld, WriteHeld, ListHeld
       DEF ANext, add_person
  <1> QED  BY <1>1, <1>2

LEMMA HeldIsTyped == Held => ATypeOK
  <1> SUFFICES ASSUME Held PROVE ATypeOK
    OBVIOUS
  <1>0. Stray \in Person
    <2>1. Blank \in STRING /\ <<>> \in Seq(Phone)
      BY AddressAssumption, EmptySeq
    <2> QED  BY <2>1 DEF Stray, Person
  <1>1. Everyone \subseteq Person /\ entered \subseteq Person
    BY <1>0, EntryType DEF Held, Everyone
  <1>2. \A s \in Seq(Everyone) : s \in Book
    BY <1>1, SeqMonotonic DEF Book
  <1> QED  BY <1>1, <1>2 DEF Held, ATypeOK, FileOf, File, Stages

LEMMA HeldIsEntered == Held => NoStranger
  <1> SUFFICES ASSUME Held PROVE NoStranger
    OBVIOUS
  <1>1. ASSUME NEW s \in Seq(Everyone) PROVE ToSet(s) \subseteq Everyone
    BY <1>1, LenProperties, ElementOfSeq DEF ToSet
  <1>2. clean => Everyone = entered
    BY DEF Everyone
  <1> QED  BY <1>1, <1>2 DEF Held, FileOf, NoStranger

(* The variables of the address book keep their types, and the answers are *)
(* made into people, for any number of programs, answers and runs.         *)
THEOREM AddressTypes == ASpec => []ATypeOK
  BY HeldInit, HeldStep, HeldIsTyped, PTL DEF ASpec

(* As long as no two adders write at once, nobody is in the file or printed*)
(* who was not typed in, however else any number of programs overlap and   *)
(* wherever they are ended.                                                *)
THEOREM OnlyEntered == ASpec => []NoStranger
  BY HeldInit, HeldStep, HeldIsEntered, PTL DEF ASpec

-----------------------------------------------------------------------------
(* Programs that do not overlap.                                           *)

(* While no two adders overlap there is at most one; until it opens the    *)
(* file for writing the file holds those who were saved, and what it will  *)
(* write is that and one more.                                             *)
Kept ==
  /\ \A p, q \in Adding : p = q
  /\ mixed = {}
  /\ Writing = {} => file.people = saved
  /\ \A p \in Adding :
       IF stage[p] = "prompt" THEN book[p] = saved
       ELSE book[p] = Append(saved, Last(book[p]))

KeptInv == Held /\ (apart => Kept)

LEMMA WritingAdds == Writing \subseteq Adding
  BY DEF Writing, Adding

(* A step that touches no adder between its reading and its writing.       *)
LEMMA NoAdderStep ==
  ASSUME Kept, UNCHANGED <<file, saved>>, mixed' \subseteq mixed, Adding' \subseteq Adding,
         Writing' = Writing,
         \A p \in Adding' : stage'[p] = stage[p] /\ book'[p] = book[p]
  PROVE  Kept'
  BY DEF Kept

LEMMA KeptStep ==
  ASSUME KeptInv, ANext, apart' PROVE Kept'
  <1>1. Held /\ Held'
    BY HeldStep DEF KeptInv
  <1>2. apart
    BY DEF ANext, add_person, list_people, ReadBook, Prompt, OpenBook, WritePart,
       WriteBook, ReadList, ListPeople, Run, End
  <1>3. Kept
    BY <1>2 DEF KeptInv
  <1>4. ASSUME NEW p \in Lister, list_people(p) PROVE Kept'
    <2>1. p \notin Adder
      BY AddressAssumption
    <2>2. \A q \in Adder : stage'[q] = stage[q] /\ book'[q] = book[q]
      BY <1>1, <1>4, <2>1 DEF list_people, ReadList, ListPeople, Go, Held
    <2>3. Adding' = Adding /\ Writing' = Writing
      BY <2>2 DEF Adding, Writing
    <2>4. UNCHANGED <<file, saved, mixed>>
      BY <1>4 DEF list_people, ReadList, ListPeople
    <2> QED  BY <1>3, <2>2, <2>3, <2>4, NoAdderStep DEF Adding
  <1>5. ASSUME NEW p \in Adder \cup Lister, Run(p) \/ End(p) PROVE Kept'
    <2>1. PICK to \in {"read", "ended"} : Go(p, stage[p], to)
      BY <1>5 DEF Run, End, Go
    <2>2. p \notin Writing /\ UNCHANGED <<file, saved>> /\ mixed' \subseteq mixed
      BY <1>5 DEF Run, End, Go, Writing
    <2>3. /\ \A q \in Adder : q # p => stage'[q] = stage[q]
          /\ stage'[p] \in {"read", "ended"}
      BY <1>1, <2>1 DEF Go, Held
    <2>4. Writing' = Writing /\ Adding' \subseteq Adding \ {p}
      BY <2>2, <2>3 DEF Writing, Adding
    <2>5. \A q \in Adding' : book'[q] = book[q]
      BY <1>1, <1>5, <2>4 DEF Run, End, Held, Adding
    <2>6. \A q \in Adding' : stage'[q] = stage[q]
      BY <2>3, <2>4 DEF Adding
    <2> QED  BY <1>3, <2>2, <2>4, <2>5, <2>6, NoAdderStep
  <1> SUFFICES ASSUME NEW p \in Adder, add_person(p) PROVE Kept'
    BY <1>4, <1>5 DEF ANext
  (* p alone moves.                                                        *)
  <1>6. ASSUME NEW from, NEW to, Go(p, from, to)
        PROVE  /\ stage[p] = from /\ stage'[p] = to
               /\ \A q \in Adder : q # p => stage'[q] = stage[q]
    BY <1>1, <1>6 DEF Go, Held
  (* An adder that is past reading is the only one.                        *)
  <1>7. ASSUME p \in Adding, NEW from, NEW to, Go(p, from, to)
        PROVE  /\ Adding' \subseteq {p} /\ Writing' \subseteq {p}
               /\ Adding = {p} /\ Writing \subseteq {p}
    <2>1. Adding = {p} /\ Writing \subseteq {p}
      BY <1>3, <1>7, WritingAdds DEF Kept
    <2>2. Adding' \subseteq {p}
      BY <1>6, <1>7, <2>1 DEF Adding
    <2> QED  BY <2>1, <2>2 DEF Writing, Adding
  <1>8. CASE ReadBook(p)
    <2>1. CASE ~file.readable
      <3>1. stage'[p] = "ended" /\ stage[p] = "read"
        BY <1>6, <1>8, <2>1 DEF ReadBook
      <3>2. Adding' = Adding /\ Writing' = Writing /\ p \notin Adding
        BY <1>6, <1>8, <2>1, <3>1 DEF ReadBook, Adding, Writing
      <3>3. \A q \in Adding' : stage'[q] = stage[q] /\ book'[q] = book[q]
        BY <1>1, <1>6, <1>8, <3>2 DEF ReadBook, Adding, Held
      <3> QED  BY <1>3, <1>8, <3>2, <3>3, NoAdderStep DEF ReadBook
    <2>2. CASE file.readable
      <3>1. Adding = {} /\ stage'[p] = "prompt"
        BY <1>6, <1>8, <2>2 DEF ReadBook
      <3>2. Adding' = {p}
        BY <1>6, <1>8, <2>2, <3>1 DEF ReadBook, Adding
      <3>3. Writing = {}
        BY <3>1, WritingAdds
      <3>4. book'[p] = saved /\ file'.people = saved' /\ saved' = saved
        BY <1>1, <1>3, <1>8, <3>3 DEF ReadBook, Kept, Held
      <3>5. mixed' = {}
        BY <1>3, <1>8 DEF ReadBook, Kept
      <3> QED  BY <3>1, <3>2, <3>4, <3>5 DEF Kept
    <2> QED  BY <2>1, <2>2
  <1>9. CASE Prompt(p)
    <2>1. Go(p, "prompt", "open") /\ stage[p] = "prompt" /\ stage'[p] = "open"
      BY <1>6, <1>9 DEF Prompt
    <2>2. p \in Adding /\ p \notin Writing
      BY <2>1 DEF Adding, Writing
    <2>3. Adding' \subseteq {p} /\ Writing = {}
      BY <1>7, <2>1, <2>2
    <2>4. book[p] = saved /\ file.people = saved
      BY <1>3, <2>1, <2>2, <2>3 DEF Kept
    <2>5. PICK a \in Answers :
            /\ book' = [book EXCEPT ![p] = Append(@, PromptForAddress(a))]
            /\ entered' = entered \cup {PromptForAddress(a)}
      BY <1>9 DEF Prompt
    <2>6. book'[p] = Append(saved, PromptForAddress(a))
      BY <1>1, <2>4, <2>5 DEF Held
    <2>7. /\ saved' = saved /\ file' = file /\ saved' \in Seq(Everyone')
          /\ mixed' = mixed
      BY <1>1, <1>9 DEF Prompt, Held
    <2>8. Last(book'[p]) = PromptForAddress(a)
      <3>1. PromptForAddress(a) \in Everyone' /\ saved \in Seq(Everyone')
        BY <2>5, <2>7 DEF Everyone
      <3> QED  BY <2>6, <3>1, LastAppended
    <2> QED  BY <1>3, <2>1, <2>3, <2>4, <2>6, <2>7, <2>8 DEF Kept
  <1>10. CASE OpenBook(p)
    <2>1. PICK to \in {"write", "ended"} : Go(p, "open", to)
      BY <1>10 DEF OpenBook
    <2>2. p \in Adding /\ p \notin Writing /\ stage[p] = "open" /\ stage'[p] = to
      BY <1>6, <2>1 DEF Adding, Writing
    <2>3. Adding' \subseteq {p} /\ Writing = {}
      BY <1>7, <2>1, <2>2
    <2>4. saved' = saved /\ book' = book /\ book[p] = Append(saved, Last(book[p]))
      BY <1>3, <1>10, <2>2 DEF OpenBook, Kept
    <2>7. mixed' = {}
      BY <1>3, <1>10, <2>3 DEF OpenBook, Kept
    <2>5. CASE to = "ended"
      <3>1. file' = file
        BY <1>6, <1>10, <2>2, <2>5 DEF OpenBook
      <3>2. Adding' = {}
        BY <2>2, <2>3, <2>5 DEF Adding
      <3> QED  BY <1>3, <2>3, <2>4, <2>7, <3>1, <3>2 DEF Kept
    <2>6. CASE to = "write"
      <3>1. p \in Writing'
        BY <2>2, <2>6 DEF Writing
      <3> QED  BY <2>2, <2>3, <2>4, <2>6, <2>7, <3>1 DEF Kept
    <2> QED  BY <2>5, <2>6
  <1>11. CASE WritePart(p)
    <2>1. Go(p, "write", "rest") /\ stage[p] = "write" /\ stage'[p] = "rest"
      BY <1>6, <1>11 DEF WritePart
    <2>2. p \in Adding /\ p \in Writing'
      BY <2>1 DEF Adding, Writing
    <2>3. Adding' \subseteq {p}
      BY <1>7, <2>1, <2>2
    <2>4. saved' = saved /\ book' = book /\ book[p] = Append(saved, Last(book[p]))
      BY <1>3, <1>11, <2>1, <2>2 DEF WritePart, Kept
    <2>5. mixed' = {}
      BY <1>3, <1>7, <1>11, <2>1, <2>2 DEF WritePart, Kept
    <2> QED  BY <2>1, <2>2, <2>3, <2>4, <2>5 DEF Kept
  <1>12. CASE WriteBook(p)
    <2>1. Go(p, stage[p], "ended") /\ p \in Writing /\ stage'[p] = "ended"
      BY <1>6, <1>12 DEF WriteBook
    <2>2. p \in Adding /\ stage[p] # "prompt"
      BY <2>1, WritingAdds DEF Writing
    <2>3. Adding' = {}
      BY <1>7, <2>1, <2>2 DEF Adding
    <2>4. Writing = {p}
      BY <1>7, <2>1, <2>2
    <2>5. book[p] = Append(saved, Last(book[p]))
      BY <1>3, <2>2 DEF Kept
    <2>6. mixed = {} /\ mixed' = {}
      BY <1>3, <1>12, <2>4 DEF WriteBook, Kept
    <2>7. file' = Holding(book[p]) /\ saved' = Append(saved, Last(book[p]))
      BY <1>12, <2>6 DEF WriteBook, Written
    <2> QED  BY <2>3, <2>5, <2>6, <2>7 DEF Kept, Holding
  <1> QED  BY <1>8, <1>9, <1>10, <1>11, <1>12 DEF add_person

LEMMA KeptInit == ASSUME AInit PROVE KeptInv
  BY HeldInit DEF AInit, KeptInv, Kept, Adding, NoFile

(* As long as no two adders overlap and none is ended while it writes, the *)
(* file is the list of those who were added, in that order, whoever else   *)
(* reads it and whichever programs end before they write.                  *)
THEOREM ApartNothingLost == ASpec => []ApartKeepsAll
  <1>1. KeptInv => ApartKeepsAll
    BY WritingAdds DEF KeptInv, Kept, ApartKeepsAll
  <1>2. ASSUME KeptInv, [ANext]_avars PROVE KeptInv'
    <2>1. Held'
      BY <1>2, HeldStep DEF KeptInv
    <2>2. CASE UNCHANGED avars
      BY <1>2, <2>1, <2>2 DEF avars, KeptInv, Kept, Adding, Writing
    <2> QED  BY <1>2, <2>1, <2>2, KeptStep DEF KeptInv
  <1> QED  BY <1>1, <1>2, KeptInit, PTL DEF ASpec

-----------------------------------------------------------------------------
(* The greeter.                                                            *)

Message == {SayHello("world"), SayHelloAgain("world"), Failed}
Made(m) == IF m = "SayHello" THEN SayHello("world") ELSE SayHelloAgain("world")

GreetTypes ==
  /\ alive \in BOOLEAN
  /\ doing \in [Caller -> {"none"} \cup Calls]
  /\ call \in [Caller -> {"no", "asked", "answered"}]
  /\ reply \in [Caller -> Message \cup {<<>>}]
  /\ printed \in [Caller -> Seq(Message)]
  /\ greeted \in [Caller -> Seq(Calls)]

(* How many calls a client has begun, and how many have returned.          *)
Begun(c) == CASE doing[c] = "none" -> 0
              [] doing[c] = "SayHello" -> 1
              [] OTHER -> 2
Returned(c) == IF call[c] = "no" THEN Begun(c) ELSE Begun(c) - 1

(* The server has executed only what was called, and the call at hand just *)
(* when it has been answered.                                              *)
GreetInv(c) ==
  /\ doing[c] = "none" => call[c] = "no" /\ greeted[c] = <<>>
  /\ Len(printed[c]) = Returned(c)
  /\ \A i \in DOMAIN greeted[c] : greeted[c][i] = "SayHelloAgain" =>
       doing[c] = "SayHelloAgain"
  /\ call[c] = "asked" => \A i \in DOMAIN greeted[c] : greeted[c][i] # doing[c]
  /\ call[c] = "answered" =>
       /\ \E i \in DOMAIN greeted[c] : greeted[c][i] = doing[c]
       /\ reply[c] = Made(doing[c])

GreeterInv == GreetTypes /\ GreetedOnce /\ \A c \in Caller : GreetInv(c)

(* The steps of client c, and of the server for it, leave others alone.    *)
LEMMA OthersGreeted ==
  ASSUME GreetTypes, NEW c \in Caller, GreeterClient(c) \/ Execute(c),
         NEW d \in Caller \ {c}
  PROVE  /\ doing'[d] = doing[d] /\ call'[d] = call[d] /\ reply'[d] = reply[d]
         /\ printed'[d] = printed[d] /\ greeted'[d] = greeted[d]
  BY DEF GreetTypes, GreeterClient, BeginHello, BeginAgain, Begin, Execute, Ok, NotOk,
         Return

(* What GreetedOnce says of one client.                                    *)
Once(c) ==
  /\ \A i, j \in DOMAIN greeted[c] : greeted[c][i] = greeted[c][j] => i = j
  /\ \A i \in DOMAIN printed[c] :
       printed[c][i] # Failed =>
         /\ printed[c][i] = <<SayHello("world"), SayHelloAgain("world")>>[i]
         /\ \E j \in DOMAIN greeted[c] :
              greeted[c][j] = <<"SayHello", "SayHelloAgain">>[i]

LEMMA BeginKeeps ==
  ASSUME GreeterInv, NEW c \in Caller, BeginHello(c) \/ BeginAgain(c)
  PROVE  GreetTypes' /\ Once(c)' /\ GreetInv(c)'
  <1>1. /\ call[c] = "no" /\ call' = [call EXCEPT ![c] = "asked"]
        /\ \/ doing[c] = "none" /\ doing' = [doing EXCEPT ![c] = "SayHello"]
           \/ doing[c] = "SayHello" /\ doing' = [doing EXCEPT ![c] = "SayHelloAgain"]
        /\ UNCHANGED <<alive, reply, printed, greeted>>
    BY DEF BeginHello, BeginAgain, Begin
  <1>2. GreetTypes'
    BY <1>1 DEF GreeterInv, GreetTypes, Calls
  <1>3. Once(c)'
    BY <1>1 DEF GreeterInv, GreetedOnce, Once
  <1>4. doing'[c] \in {"SayHello", "SayHelloAgain"} /\ call'[c] = "asked"
    BY <1>1 DEF GreeterInv, GreetTypes
  <1>5. /\ \A i \in DOMAIN greeted[c] : greeted[c][i] # doing'[c]
        /\ \A i \in DOMAIN greeted[c] : greeted[c][i] = "SayHelloAgain" =>
             doing'[c] = "SayHelloAgain"
    <2>1. CASE doing[c] = "none"
      BY <1>1, <2>1 DEF GreeterInv, GreetInv
    <2>2. CASE doing[c] = "SayHello" /\ doing'[c] = "SayHelloAgain"
      BY <1>1, <2>2 DEF GreeterInv, GreetInv
    <2> QED  BY <1>1, <2>1, <2>2 DEF GreeterInv, GreetTypes
  <1>6. Len(printed'[c]) = Returned(c)'
    BY <1>1 DEF GreeterInv, GreetTypes, GreetInv, Returned, Begun
  <1> QED  BY <1>1, <1>2, <1>3, <1>4, <1>5, <1>6 DEF GreetInv

LEMMA ExecuteKeeps ==
  ASSUME GreeterInv, NEW c \in Caller, Execute(c)
  PROVE  GreetTypes' /\ Once(c)' /\ GreetInv(c)'
  <1> DEFINE n == Len(greeted[c])
  <1>1. /\ call[c] = "asked" /\ doing[c] \in Calls
        /\ call' = [call EXCEPT ![c] = "answered"]
        /\ reply' = [reply EXCEPT ![c] = Made(doing[c])]
        /\ greeted' = [greeted EXCEPT ![c] = Append(@, doing[c])]
        /\ UNCHANGED <<alive, doing, printed>>
    BY DEF Execute, Made, GreeterInv, GreetTypes, GreetInv
  <1>2. greeted[c] \in Seq(Calls) /\ n \in Nat /\ DOMAIN greeted[c] = 1 .. n
    BY LenProperties DEF GreeterInv, GreetTypes
  <1>3. /\ greeted'[c] \in Seq(Calls) /\ DOMAIN greeted'[c] = 1 .. n + 1
        /\ \A i \in 1 .. n : greeted'[c][i] = greeted[c][i]
        /\ greeted'[c][n + 1] = doing[c]
    BY <1>1, <1>2, AppendProperties, LenProperties DEF GreeterInv, GreetTypes
  <1>4. GreetTypes'
    BY <1>1, <1>3 DEF GreeterInv, GreetTypes, Made, Message
  <1>5. \A i \in 1 .. n : greeted[c][i] # doing[c]
    BY <1>1, <1>2 DEF GreeterInv, GreetInv
  <1>6. Once(c)'
    <2>1. Once(c)
      BY DEF GreeterInv, GreetedOnce, Once
    <2>2. \A i, j \in DOMAIN greeted'[c] : greeted'[c][i] = greeted'[c][j] => i = j
      <3>1. \A i, j \in 1 .. n : greeted[c][i] = greeted[c][j] => i = j
        BY <1>2, <2>1 DEF Once
      <3>2. \A i \in 1 .. n + 1 : i \in 1 .. n \/ i = n + 1
        BY <1>2
      <3> HIDE DEF n
      <3> QED  BY <1>3, <1>5, <3>1, <3>2
    <2>3. \A m : (\E j \in DOMAIN greeted[c] : greeted[c][j] = m) =>
                   \E j \in DOMAIN greeted'[c] : greeted'[c][j] = m
      BY <1>2, <1>3
    <2> QED  BY <1>1, <2>1, <2>2, <2>3 DEF Once
  <1>7. GreetInv(c)'
    <2>1. /\ doing'[c] = doing[c] /\ call'[c] = "answered" /\ reply'[c] = Made(doing[c])
          /\ printed'[c] = printed[c]
      BY <1>1 DEF GreeterInv, GreetTypes
    <2>2. \A i \in DOMAIN greeted'[c] : greeted'[c][i] = "SayHelloAgain" =>
            doing'[c] = "SayHelloAgain"
      BY <1>2, <1>3, <2>1 DEF GreeterInv, GreetInv
    <2>3. \E i \in DOMAIN greeted'[c] : greeted'[c][i] = doing'[c]
      BY <1>2, <1>3, <2>1
    <2>4. Len(printed'[c]) = Returned(c)'
      BY <1>1, <2>1 DEF GreeterInv, GreetInv, Returned, Begun
    <2> QED  BY <1>1, <2>1, <2>2, <2>3, <2>4 DEF Calls, GreetInv
  <1> QED  BY <1>4, <1>6, <1>7

LEMMA ReturnKeeps ==
  ASSUME GreeterInv, NEW c \in Caller, Ok(c) \/ NotOk(c)
  PROVE  GreetTypes' /\ Once(c)' /\ GreetInv(c)'
  <1> DEFINE n == Len(printed[c])
  <1>1. PICK m \in Message :
          /\ Return(c, m) /\ UNCHANGED <<alive, doing, greeted>>
          /\ call[c] \in {"asked", "answered"}
          /\ m # Failed => call[c] = "answered" /\ m = Made(doing[c])
    <2>1. CASE Ok(c)
      BY <2>1 DEF Ok, GreeterInv, GreetInv, Made, Message
    <2>2. CASE NotOk(c)
      BY <2>2 DEF NotOk, Message
    <2> QED  BY <2>1, <2>2
  <1>2. printed[c] \in Seq(Message) /\ n \in Nat /\ DOMAIN printed[c] = 1 .. n
    BY LenProperties DEF GreeterInv, GreetTypes
  <1>3. /\ printed'[c] \in Seq(Message) /\ Len(printed'[c]) = n + 1
        /\ DOMAIN printed'[c] = 1 .. n + 1
        /\ \A i \in 1 .. n : printed'[c][i] = printed[c][i]
        /\ printed'[c][n + 1] = m
    <2>1. printed'[c] = Append(printed[c], m)
      BY <1>1 DEF Return, GreeterInv, GreetTypes
    <2> QED  BY <1>2, <2>1, AppendProperties, LenProperties
  <1>4. doing[c] \in Calls /\ Begun(c) = n + 1
    <2>1. doing[c] # "none" /\ doing[c] \in {"none"} \cup Calls
      BY <1>1 DEF GreeterInv, GreetTypes, GreetInv
    <2>2. n = Begun(c) - 1
      BY <1>1 DEF GreeterInv, GreetInv, Returned
    <2>3. Begun(c) \in {1, 2}
      BY <2>1 DEF Begun
    <2> QED  BY <2>1, <2>2, <2>3
  <1>5. GreetTypes'
    BY <1>1, <1>3 DEF Return, GreeterInv, GreetTypes
  <1>6. Once(c)'
    <2>1. Once(c)
      BY DEF GreeterInv, GreetedOnce, Once
    <2>2. m # Failed =>
            /\ m = <<SayHello("world"), SayHelloAgain("world")>>[n + 1]
            /\ \E j \in DOMAIN greeted[c] :
                 greeted[c][j] = <<"SayHello", "SayHelloAgain">>[n + 1]
      <3>1. CASE doing[c] = "SayHello"
        <4>1. n + 1 = 1
          BY <1>4, <3>1 DEF Begun
        <4> QED  BY <1>1, <3>1, <4>1 DEF Made, GreeterInv, GreetInv
      <3>2. CASE doing[c] = "SayHelloAgain"
        <4>1. n + 1 = 2
          BY <1>4, <3>2 DEF Begun
        <4> QED  BY <1>1, <3>2, <4>1 DEF Made, GreeterInv, GreetInv
      <3> QED  BY <1>4, <3>1, <3>2 DEF Calls
    <2>3. \A i \in 1 .. n + 1 : i \in 1 .. n \/ i = n + 1
      BY <1>2
    <2>4. ASSUME NEW i \in DOMAIN printed'[c], printed'[c][i] # Failed
          PROVE  /\ printed'[c][i] = <<SayHello("world"), SayHelloAgain("world")>>[i]
                 /\ \E j \in DOMAIN greeted[c] :
                      greeted[c][j] = <<"SayHello", "SayHelloAgain">>[i]
      <3>1. CASE i \in 1 .. n
        <4>1. printed'[c][i] = printed[c][i] /\ i \in DOMAIN printed[c]
          BY <1>2, <1>3, <3>1
        <4> QED  BY <2>1, <2>4, <4>1 DEF Once
      <3>2. CASE i = n + 1
        BY <1>3, <2>2, <2>4, <3>2
      <3> QED  BY <1>3, <2>3, <2>4, <3>1, <3>2
    <2>5. greeted' = greeted
      BY <1>1
    <2> QED  BY <2>1, <2>4, <2>5 DEF Once
  <1>7. GreetInv(c)'
    <2>1. doing'[c] = doing[c] /\ call'[c] = "no" /\ greeted'[c] = greeted[c]
      BY <1>1 DEF Return, GreeterInv, GreetTypes
    <2>2. Len(printed'[c]) = Returned(c)'
      BY <1>1, <1>3, <1>4, <2>1 DEF Returned, Begun
    <2> QED  BY <1>4, <2>1, <2>2 DEF GreeterInv, GreetInv, Calls
  <1> QED  BY <1>5, <1>6, <1>7

(* No call is executed twice, and what a client prints was made for the    *)
(* call at hand, however often the server goes away in between: because a  *)
(* failed call is not made again, and a server that starts has no answers  *)
(* of its predecessor to give.                                             *)
THEOREM GreetedAtMostOnce == GSpec => []GreetedOnce
  <1>1. GInit => GreeterInv
    BY EmptySeq DEF GInit, GreeterInv, GreetTypes, GreetedOnce, GreetInv, Returned,
                    Begun, Message, Calls
  <1>2. GreeterInv /\ [GNext]_gvars => GreeterInv'
    <2> SUFFICES ASSUME GreeterInv, [GNext]_gvars PROVE GreeterInv'
      OBVIOUS
    <2>0. GreetTypes /\ \A d \in Caller : Once(d) /\ GreetInv(d)
      BY DEF GreeterInv, GreetedOnce, Once
    <2>1. ASSUME NEW c \in Caller, GreeterClient(c) \/ Execute(c)
          PROVE  GreetTypes' /\ \A d \in Caller : Once(d)' /\ GreetInv(d)'
      <3>1. GreetTypes' /\ Once(c)' /\ GreetInv(c)'
        BY <2>1, BeginKeeps, ExecuteKeeps, ReturnKeeps DEF GreeterClient
      <3>2. ASSUME NEW d \in Caller \ {c} PROVE Once(d)' /\ GreetInv(d)'
        BY <2>0, <2>1, <3>2, OthersGreeted DEF Once, GreetInv, Returned, Begun
      <3> QED  BY <3>1, <3>2
    <2>2. ASSUME RunServer \/ StopServer \/ UNCHANGED gvars
          PROVE  GreetTypes' /\ \A d \in Caller : Once(d)' /\ GreetInv(d)'
      <3>1. /\ UNCHANGED <<doing, call, reply, printed, greeted>>
            /\ alive' \in BOOLEAN
        BY <2>0, <2>2 DEF RunServer, StopServer, gvars, GreetTypes
      <3>2. GreetTypes'
        BY <2>0, <3>1 DEF GreetTypes
      <3>3. ASSUME NEW d \in Caller PROVE Once(d)' /\ GreetInv(d)'
        <4>1. Once(d) /\ GreetInv(d)
          BY <2>0
        <4> QED  BY <3>1, <4>1 DEF Once, GreetInv, Returned, Begun
      <3> QED  BY <3>2, <3>3
    <2>3. GreetTypes' /\ \A d \in Caller : Once(d)' /\ GreetInv(d)'
      <3>1. \/ \E c \in Caller : GreeterClient(c) \/ Execute(c)
            \/ RunServer \/ StopServer \/ UNCHANGED gvars
        BY DEF GNext
      <3> QED  BY <2>1, <2>2, <3>1
    <2> QED  BY <2>3 DEF GreeterInv, GreetedOnce, Once
  <1>3. GreeterInv => GreetedOnce
    BY DEF GreeterInv
  <1> QED  BY <1>1, <1>2, <1>3, PTL DEF GSpec
=============================================================================
