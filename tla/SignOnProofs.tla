---------------------------- MODULE SignOnProofs ----------------------------
(***************************************************************************)
(* What holds of SignOn for any number of people, names, handlers,         *)
(* sign-ins and changes by others, and whichever names are tried for whom. *)
(***************************************************************************)
EXTENDS SignOn, FiniteSetTheorems, TLAPS

Active(p) == req[p].at # "idle"

\* The steps of a handler once it has begun.
Works(p) ==
    \/ ExchangeCode(p) \/ SelectSubject(p) \/ FindLegacy(p) \/ BindLegacy(p)
    \/ InsertCandidate(p) \/ SelectAgain(p) \/ NoNameLeft(p) \/ IssueToken(p)
Begins(p) == (\E n \in Attempts : Callback(p, n)) \/ (\E g \in Googlers : GoogleBegin(p, g))

LEMMA StepCases ==
    ASSUME [Next]_vars
    PROVE  \/ UNCHANGED vars
           \/ \E s \in Subjects : Start(s)
           \/ \E p \in Procs : Begins(p)
           \/ \E p \in Procs : Works(p)
           \/ \E n \in Attempts : Expire(n) \/ Exchange(n)
           \/ \E n \in Names : Register(n) \/ Block(n)
           \/ \E n \in Names : Delete(n)
           \/ Restart
BY DEF Next, Works, Begins
-----------------------------------------------------------------------------
(* Types                                                                   *)

UserRow == [there : BOOLEAN, by : People \cup {Nobody}, subjects : SUBSET People,
            blocked : BOOLEAN, crossed : BOOLEAN]
Steps == {"idle", "code", "select", "legacy", "insert", "again", "bind", "blocked"}
Handling == [at : Steps, attempt : 0..MaxAttempts, try : 1..4,
             name : Names \cup {Nobody}, swapped : BOOLEAN]

UsersType == users \in [Names -> UserRow]
ReqType == req \in [Procs -> Handling]
WhoType == /\ who \in [Attempts -> People \cup {Nobody}] /\ begun \in 0..MaxAttempts
           /\ \A n \in Attempts : n <= begun => who[n] \in People
CountType == /\ changes \in 0..MaxChanges
             /\ passed \in [Attempts -> Nat] /\ given \in [Attempts -> Nat]
StatesType == \A n \in states : n \in Attempts /\ n <= begun

(* What a step of a handler says of its sign-in.                           *)
Placed(p) ==
    /\ Active(p) => req[p].attempt \in Attempts /\ req[p].attempt <= begun
    /\ req[p].at \in {"bind", "blocked"} => req[p].name \in Names
    /\ req[p].at \in {"legacy", "bind"} => Person(p) \in Googlers
    /\ req[p].at = "again" => Person(p) \in Subjects
AllPlaced == \A p \in Procs : Placed(p)

Typed == UsersType /\ ReqType /\ WhoType /\ CountType /\ StatesType /\ AllPlaced

LEMMA Constants ==
    /\ MaxAttempts \in Nat /\ MaxChanges \in Nat /\ Attempts \subseteq Nat
    /\ Subjects \cap Googlers = {} /\ People = Subjects \cup Googlers
    /\ Nobody \notin People /\ Nobody \notin Names
    /\ \A s \in People : \A k \in 1..3 : Candidates[s][k] \in Names
BY SignOnAssumption DEF People, Attempts

LEMMA RecordTypes ==
    /\ NoRow \in UserRow /\ Idle \in Handling
    /\ \A s \in People \cup {Nobody} : Made(s) \in UserRow /\ OldGoogle(s) \in UserRow
<1>1. NoRow \in UserRow
  BY DEF NoRow, UserRow
<1>2. Idle \in Handling
  BY Constants DEF Idle, Handling, Steps
<1>3. ASSUME NEW s \in People \cup {Nobody} PROVE Made(s) \in UserRow /\ OldGoogle(s) \in UserRow
  <2>1. {s} \ {Nobody} \in SUBSET People
    OBVIOUS
  <2>2. Made(s) \in UserRow
    BY <2>1 DEF Made, NoRow, UserRow
  <2> QED
    BY <2>2 DEF OldGoogle, UserRow
<1> QED
  BY <1>1, <1>2, <1>3

LEMMA MadeParts ==
    ASSUME NEW s
    PROVE  /\ Made(s).there /\ Made(s).by = s /\ Made(s).subjects = {s} \ {Nobody}
           /\ ~Made(s).crossed
BY DEF Made, NoRow

(* What becomes of the record of a handler that works.                     *)
LEMMA WorkOfOne ==
    ASSUME ReqType, NEW p \in Procs, Works(p)
    PROVE  /\ Active(p)
           /\ \A q \in Procs : q # p => req'[q] = req[q]
           /\ \/ req'[p] = Idle
              \/ /\ Active(p)' /\ req'[p].attempt = req[p].attempt
                 /\ req'[p].swapped = req[p].swapped
<1>0. req \in [Procs -> Handling] /\ req[p] \in Handling
  BY DEF ReqType
<1> USE <1>0 DEF Goto, Found, Done, Active, Handling
<1>1. CASE ExchangeCode(p)
  BY <1>1 DEF ExchangeCode
<1>2. CASE SelectSubject(p)
  BY <1>2 DEF SelectSubject
<1>3. CASE FindLegacy(p)
  BY <1>3 DEF FindLegacy
<1>4. CASE BindLegacy(p)
  BY <1>4 DEF BindLegacy
<1>5. CASE InsertCandidate(p)
  BY <1>5 DEF InsertCandidate, AfterConflict
<1>6. CASE SelectAgain(p)
  BY <1>6 DEF SelectAgain
<1>7. CASE NoNameLeft(p) \/ IssueToken(p)
  BY <1>7 DEF NoNameLeft, IssueToken
<1> QED
  BY <1>1, <1>2, <1>3, <1>4, <1>5, <1>6, <1>7 DEF Works

(* The steps that change what is common to all.                            *)
LEMMA WorkChanges ==
    ASSUME NEW p \in Procs, Works(p)
    PROVE  /\ UNCHANGED <<states, who, begun, changes, passed>>
           /\ UNCHANGED users \/ InsertCandidate(p) \/ BindLegacy(p)
           /\ UNCHANGED <<tickets, issued, given>> \/ IssueToken(p)
           /\ UNCHANGED refused \/ NoNameLeft(p)
BY DEF Works, history, ExchangeCode, SelectSubject, FindLegacy, BindLegacy, InsertCandidate,
       SelectAgain, NoNameLeft, IssueToken

LEMMA BeginOfOne ==
    ASSUME WhoType, NEW p \in Procs, Begins(p)
    PROVE  \E n \in Attempts :
              /\ ~Active(p)
              /\ req' = [req EXCEPT ![p] = [Idle EXCEPT !.at = "code", !.attempt = n]]
              /\ UNCHANGED <<users, tickets, changes, issued, given, refused>>
              /\ \/ Callback(p, n)
                 \/ n = begun + 1 /\ \E g \in Googlers : GoogleBegin(p, g)
<1>1. ASSUME NEW g \in Googlers, GoogleBegin(p, g)
      PROVE  /\ begun + 1 \in Attempts /\ ~Active(p)
             /\ req' = [req EXCEPT ![p] = [Idle EXCEPT !.at = "code", !.attempt = begun + 1]]
             /\ UNCHANGED <<users, tickets, changes, issued, given, refused>>
  BY <1>1, Constants DEF GoogleBegin, WhoType, Attempts, Active
<1>2. ASSUME NEW n \in Attempts, Callback(p, n)
      PROVE  /\ ~Active(p)
             /\ req' = [req EXCEPT ![p] = [Idle EXCEPT !.at = "code", !.attempt = n]]
             /\ UNCHANGED <<users, tickets, changes, issued, given, refused>>
  BY <1>2 DEF Callback, Active
<1> QED
  BY <1>1, <1>2 DEF Begins

LEMMA InitTyped == Init => Typed
<1> SUFFICES ASSUME Init PROVE Typed
  OBVIOUS
<1> USE Constants DEF Init
<1>1. UsersType
  <2>1. {NoRow, Made(Nobody)} \cup {OldGoogle(g) : g \in Googlers} \subseteq UserRow
    BY RecordTypes
  <2> QED
    BY <2>1 DEF UsersType
<1>2. ReqType /\ AllPlaced
  BY RecordTypes DEF ReqType, AllPlaced, Placed, Active, Idle
<1>3. WhoType /\ CountType /\ StatesType
  BY DEF WhoType, CountType, StatesType, Attempts
<1> QED
  BY <1>1, <1>2, <1>3 DEF Typed

LEMMA UsersStep ==
    ASSUME Typed, [Next]_vars
    PROVE  UsersType'
<1> USE DEF UsersType
<1>0. users \in [Names -> UserRow]
  BY DEF Typed
<1>1. CASE UNCHANGED users
  BY <1>0, <1>1
<1>2. ASSUME NEW p \in Procs, Works(p) PROVE UsersType'
  <2>0. Active(p) /\ Person(p) \in People
    BY <1>2, WorkOfOne DEF Typed, AllPlaced, Placed, WhoType, Person
  <2>1. CASE InsertCandidate(p)
    BY <1>0, <2>0, <2>1, RecordTypes DEF InsertCandidate
  <2>2. CASE BindLegacy(p)
    <3>1. req[p].at = "bind" /\ Person(p) \in Googlers /\ req[p].name \in Names
          /\ req[p].swapped \in BOOLEAN
      BY <2>2 DEF BindLegacy, Typed, AllPlaced, Placed, ReqType, Handling
    <3> DEFINE n == req[p].name
               u == users[n]
               subjects == (u.subjects \ Googlers) \cup {Person(p)}
               crossed == u.crossed \/ req[p].swapped
    <3>2. u \in UserRow /\ subjects \in SUBSET People /\ crossed \in BOOLEAN
      BY <1>0, <3>1, Constants DEF UserRow
    <3>3. [u EXCEPT !.subjects = subjects, !.crossed = crossed] \in UserRow
      <4> HIDE DEF u, subjects, crossed
      <4> QED
        BY <3>2 DEF UserRow
    <3>4. users' = users \/ users' = [users EXCEPT ![n] = [u EXCEPT !.subjects = subjects,
                                                                    !.crossed = crossed]]
      BY <1>0, <2>2 DEF BindLegacy
    <3> QED
      <4> HIDE DEF u, subjects, crossed
      <4> QED
        BY <1>0, <3>3, <3>4
  <2> QED
    BY <1>1, <1>2, <2>1, <2>2, WorkChanges
<1>3. ASSUME NEW n \in Names, Register(n) \/ Block(n) \/ Delete(n) PROVE UsersType'
  <2>1. CASE Register(n)
    BY <1>0, <2>1, RecordTypes DEF Register
  <2>2. CASE Block(n)
    <3>1. [users[n] EXCEPT !.blocked = TRUE] \in UserRow
      BY <1>0 DEF UserRow
    <3> QED
      BY <1>0, <2>2, <3>1 DEF Block
  <2>3. CASE Delete(n)
    BY <1>0, <2>3, RecordTypes DEF Delete
  <2> QED
    BY <1>3, <2>1, <2>2, <2>3
<1>4. ASSUME NEW p \in Procs, Begins(p) PROVE UsersType'
  BY <1>1, <1>4 DEF Begins, Callback, GoogleBegin
<1> QED
  BY <1>1, <1>2, <1>3, <1>4, StepCases DEF vars, Start, Expire, Exchange, Restart

LEMMA ReqStep ==
    ASSUME Typed, [Next]_vars
    PROVE  ReqType'
<1> USE DEF ReqType
<1>0. req \in [Procs -> Handling]
  BY DEF Typed
<1>1. CASE UNCHANGED req
  BY <1>0, <1>1
<1>2. ASSUME NEW p \in Procs, Works(p) PROVE ReqType'
  <2>0. req[p] \in Handling /\ Idle \in Handling
    BY <1>0, RecordTypes
  <2>1. ASSUME NEW r \in Handling, req' = [req EXCEPT ![p] = r] PROVE ReqType'
    BY <1>0, <2>1
  <2>2. ASSUME NEW at \in Steps, Goto(p, at) PROVE ReqType'
    <3>1. [req[p] EXCEPT !.at = at] \in Handling
      BY <2>0 DEF Handling
    <3> QED
      BY <2>1, <2>2, <3>1 DEF Goto
  <2>3. ASSUME Done(p) PROVE ReqType'
    BY <2>0, <2>1, <2>3 DEF Done
  <2>4. ASSUME NEW n \in Names, Found(p, n) PROVE ReqType'
    BY <1>0, <2>0, <2>4 DEF Found, Handling, Steps
  <2>5. CASE ExchangeCode(p) \/ NoNameLeft(p) \/ IssueToken(p)
    BY <2>2, <2>3, <2>5 DEF ExchangeCode, NoNameLeft, IssueToken, Steps
  <2>6. CASE SelectSubject(p) \/ SelectAgain(p)
    BY <2>2, <2>4, <2>6 DEF SelectSubject, SelectAgain, Bound, Steps
  <2>7. CASE FindLegacy(p)
    <3>0. Person(p) \in People
      BY <2>7 DEF FindLegacy, Typed, AllPlaced, Placed, WhoType, Person, Active
    <3>1. Candidates[Person(p)][1] \in Names
      BY <3>0, Constants
    <3>2. [req[p] EXCEPT !.at = "bind", !.name = Candidates[Person(p)][1]] \in Handling
          /\ [req[p] EXCEPT !.at = "insert"] \in Handling
      BY <2>0, <3>1 DEF Handling, Steps
    <3> QED
      BY <2>1, <2>7, <3>2 DEF FindLegacy
  <2>8. CASE BindLegacy(p)
    BY <2>4, <2>8 DEF BindLegacy, Typed, AllPlaced, Placed
  <2>9. CASE InsertCandidate(p)
    <3>0. Person(p) \in People /\ req[p].try \in 1..3
      BY <2>0, <2>9 DEF InsertCandidate, Typed, AllPlaced, Placed, WhoType, Person, Active, Handling
    <3>1. Candidates[Person(p)][req[p].try] \in Names
      BY <3>0, Constants
    <3>2. AfterConflict(Person(p)) \in Steps
      BY DEF AfterConflict, Steps
    <3>3. CASE req' = [req EXCEPT ![p].at = AfterConflict(Person(p)), ![p].try = @ + 1]
      <4> DEFINE at == AfterConflict(Person(p))
                 try == req[p].try + 1
      <4>1. [req[p] EXCEPT !.at = at, !.try = try] \in Handling
        <5>1. at \in Steps /\ try \in 1..4
          BY <3>0, <3>2
        <5> HIDE DEF at, try
        <5> QED
          BY <2>0, <5>1 DEF Handling
      <4>2. req' = [req EXCEPT ![p] = [req[p] EXCEPT !.at = at, !.try = try]]
        BY <1>0, <2>0, <3>3
      <4> QED
        BY <2>1, <4>1, <4>2
    <3> QED
      BY <2>4, <2>9, <3>1, <3>3 DEF InsertCandidate
  <2> QED
    BY <1>2, <2>5, <2>6, <2>7, <2>8, <2>9 DEF Works
<1>3. ASSUME NEW p \in Procs, Begins(p) PROVE ReqType'
  <2>1. \A n \in Attempts : [Idle EXCEPT !.at = "code", !.attempt = n] \in Handling
    <3> SUFFICES ASSUME NEW n \in Attempts
                 PROVE  [Idle EXCEPT !.at = "code", !.attempt = n] \in Handling
      OBVIOUS
    <3>1. n \in 0..MaxAttempts /\ "code" \in Steps
      BY Constants DEF Attempts, Steps
    <3> QED
      BY <3>1, RecordTypes DEF Handling
  <2> QED
    BY ZenonT(30), <1>0, <1>3, <2>1, BeginOfOne DEF Typed
<1>4. ASSUME NEW n \in Names, Delete(n) PROVE ReqType'
  BY <1>0, <1>4 DEF Delete, Handling
<1>5. CASE Restart
  BY <1>5, RecordTypes DEF Restart
<1> QED
  BY <1>1, <1>2, <1>3, <1>4, <1>5, StepCases DEF vars, Start, Expire, Exchange, Register, Block

(* An attempt keeps its person, and the numbers given out only grow.       *)
LEMMA WhoStep ==
    ASSUME Typed, [Next]_vars
    PROVE  WhoType' /\ begun <= begun' /\ \A n \in Attempts : n <= begun => who'[n] = who[n]
<1> USE DEF WhoType
<1>0. WhoType /\ Attempts \subseteq Nat /\ MaxAttempts \in Nat
  BY Constants DEF Typed
<1>1. CASE UNCHANGED <<who, begun>>
  BY <1>0, <1>1
<1>2. ASSUME NEW s \in People, begun < MaxAttempts, begun' = begun + 1,
             who' = [who EXCEPT ![begun + 1] = s]
      PROVE  WhoType' /\ begun <= begun' /\ \A n \in Attempts : n <= begun => who'[n] = who[n]
  BY <1>0, <1>2 DEF Attempts
<1>3. ASSUME NEW p \in Procs, Begins(p)
      PROVE  WhoType' /\ begun <= begun' /\ \A n \in Attempts : n <= begun => who'[n] = who[n]
  BY <1>1, <1>2, <1>3, Constants DEF Begins, Callback, GoogleBegin
<1>4. ASSUME NEW s \in Subjects, Start(s)
      PROVE  WhoType' /\ begun <= begun' /\ \A n \in Attempts : n <= begun => who'[n] = who[n]
  BY <1>2, <1>4, Constants DEF Start
<1> QED
  BY <1>1, <1>3, <1>4, StepCases, WorkChanges
     DEF vars, Expire, Exchange, Register, Block, Delete, Restart

LEMMA CountStep ==
    ASSUME Typed, [Next]_vars
    PROVE  CountType'
<1> USE DEF CountType
<1>0. CountType /\ MaxChanges \in Nat
  BY Constants DEF Typed
<1>1. ASSUME NEW p \in Procs, Begins(p) PROVE CountType'
  <2>1. ASSUME NEW n \in Attempts, Callback(p, n) PROVE CountType'
    BY <1>0, <2>1 DEF Callback
  <2>2. ASSUME NEW g \in Googlers, GoogleBegin(p, g) PROVE CountType'
    BY <1>0, <2>2 DEF GoogleBegin
  <2> QED
    BY <1>1, <2>1, <2>2 DEF Begins
<1>2. ASSUME NEW p \in Procs, Works(p) PROVE CountType'
  BY SMTT(30), <1>0, <1>2 DEF Works, history, ExchangeCode, SelectSubject, FindLegacy, BindLegacy,
       InsertCandidate, SelectAgain, NoNameLeft, IssueToken
<1>3. ASSUME NEW n \in Names, Register(n) \/ Block(n) \/ Delete(n) PROVE CountType'
  BY <1>0, <1>3 DEF Register, Block, Delete, Others, history
<1> QED
  BY <1>0, <1>1, <1>2, <1>3, StepCases DEF vars, history, Start, Expire, Exchange, Restart

LEMMA StatesStep ==
    ASSUME Typed, [Next]_vars
    PROVE  StatesType'
<1> USE DEF StatesType
<1>0. /\ StatesType /\ Attempts \subseteq Nat /\ begun \in Nat /\ begun' \in Nat
      /\ begun <= begun' /\ MaxAttempts \in Nat
  BY WhoStep, Constants DEF Typed, WhoType
<1>1. ASSUME states' \subseteq states PROVE StatesType'
  <2> SUFFICES ASSUME NEW n \in states' PROVE n \in Attempts /\ n <= begun'
    OBVIOUS
  <2>1. n \in Attempts /\ n <= begun /\ n \in Nat
    BY <1>0, <1>1
  <2> QED
    BY <1>0, <2>1
<1>2. ASSUME NEW s \in Subjects, Start(s) PROVE StatesType'
  BY <1>0, <1>2 DEF Start, Attempts
<1>3. ASSUME NEW p \in Procs, Begins(p) PROVE StatesType'
  BY <1>0, <1>1, <1>3 DEF Begins, Callback, GoogleBegin, takeOIDCState
<1> QED
  BY <1>1, <1>2, <1>3, StepCases, WorkChanges
     DEF vars, Expire, Exchange, Register, Block, Delete, Restart

LEMMA PersonKept ==
    ASSUME Typed, [Next]_vars, NEW p \in Procs, Active(p), req'[p].attempt = req[p].attempt
    PROVE  Person(p)' = Person(p) /\ Person(p) \in People
BY WhoStep DEF Typed, WhoType, AllPlaced, Placed, Person

LEMMA PlacedWork ==
    ASSUME Typed, [Next]_vars, NEW p \in Procs, Works(p)
    PROVE  Placed(p)'
<1>0. /\ req \in [Procs -> Handling] /\ req[p] \in Handling /\ Placed(p) /\ ReqType
      /\ Nobody \notin People /\ People = Subjects \cup Googlers /\ begun' = begun /\ Active(p)
  BY Constants, WorkChanges, WorkOfOne DEF Typed, ReqType, AllPlaced
<1>1. CASE req'[p] = Idle
  BY <1>1 DEF Placed, Active, Idle
<1>2. CASE Active(p)' /\ req'[p].attempt = req[p].attempt
  <2>1. Person(p)' = Person(p) /\ Person(p) \in People
    BY <1>0, <1>2, PersonKept
  <2>2. req'[p].at \in {"bind", "blocked"} => req'[p].name \in Names
    <3>1. CASE FindLegacy(p)
      BY <1>0, <2>1, <3>1, Constants DEF FindLegacy, Handling
    <3>2. CASE InsertCandidate(p)
      <4>1. Candidates[Person(p)][req[p].try] \in Names
        BY <1>0, <2>1, <3>2, Constants DEF InsertCandidate, Handling
      <4> QED
        BY <1>0, <3>2, <4>1 DEF InsertCandidate, AfterConflict, Found, Handling
    <3>3. CASE BindLegacy(p)
      BY <1>0, <3>3 DEF BindLegacy, Found, Placed, Handling
    <3>4. CASE SelectSubject(p) \/ SelectAgain(p)
      BY <1>0, <3>4 DEF SelectSubject, SelectAgain, Found, Goto, Bound, Handling
    <3>5. CASE ExchangeCode(p) \/ NoNameLeft(p) \/ IssueToken(p)
      BY <1>0, <3>5 DEF ExchangeCode, NoNameLeft, IssueToken, Goto, Done, Idle, Handling
    <3> QED
      BY <3>1, <3>2, <3>3, <3>4, <3>5 DEF Works
  <2>3. req'[p].at = "legacy" => Person(p) \in Googlers
    <3>1. CASE SelectSubject(p)
      BY <1>0, <3>1 DEF SelectSubject, Goto, Found, Handling
    <3>2. CASE InsertCandidate(p)
      BY <1>0, <3>2 DEF InsertCandidate, AfterConflict, Found, Handling
    <3>3. CASE BindLegacy(p)
      BY <1>0, <3>3 DEF BindLegacy, Found, Handling
    <3>6. CASE FindLegacy(p)
      BY <1>0, <3>6 DEF FindLegacy, Handling
    <3>4. CASE ExchangeCode(p) \/ SelectAgain(p)
      BY <1>0, <3>4 DEF ExchangeCode, SelectAgain, Goto, Found, Done, Idle, Handling
    <3>5. CASE NoNameLeft(p) \/ IssueToken(p)
      BY <1>0, <3>5 DEF NoNameLeft, IssueToken, Done, Idle
    <3> QED
      BY <3>1, <3>2, <3>3, <3>4, <3>5, <3>6 DEF Works
  <2>4. req'[p].at = "bind" => Person(p) \in Googlers
    BY SMTT(30), <1>0 DEF Works, ExchangeCode, SelectSubject, FindLegacy, BindLegacy, InsertCandidate,
       SelectAgain, NoNameLeft, IssueToken, AfterConflict, Goto, Found, Done, Idle, Handling, Placed
  <2>5. req'[p].at = "again" => Person(p) \in Subjects
    <3>1. CASE InsertCandidate(p)
      BY <1>0, <2>1, <3>1 DEF InsertCandidate, AfterConflict, Found, Handling
    <3>2. CASE SelectSubject(p) \/ SelectAgain(p)
      BY <1>0, <3>2 DEF SelectSubject, SelectAgain, Goto, Found, Handling
    <3>3. CASE BindLegacy(p)
      BY <1>0, <3>3 DEF BindLegacy, Found, Handling
    <3>6. CASE FindLegacy(p)
      BY <1>0, <3>6 DEF FindLegacy, Handling
    <3>4. CASE ExchangeCode(p)
      BY <1>0, <3>4 DEF ExchangeCode, Goto, Done, Idle, Handling
    <3>5. CASE NoNameLeft(p) \/ IssueToken(p)
      BY <1>0, <3>5 DEF NoNameLeft, IssueToken, Done, Idle
    <3> QED
      BY <3>1, <3>2, <3>3, <3>4, <3>5, <3>6 DEF Works
  <2> QED
    BY <1>0, <1>2, <2>1, <2>2, <2>3, <2>4, <2>5 DEF Placed
<1> QED
  BY <1>0, <1>1, <1>2, WorkOfOne

LEMMA PlacedStep ==
    ASSUME Typed, [Next]_vars
    PROVE  AllPlaced'
<1> SUFFICES ASSUME NEW q \in Procs PROVE Placed(q)'
  BY DEF AllPlaced
<1>0. /\ Placed(q) /\ req[q] \in Handling /\ req \in [Procs -> Handling]
      /\ Attempts \subseteq Nat /\ begun \in Nat /\ begun' \in Nat /\ begun <= begun'
  BY WhoStep, Constants DEF Typed, AllPlaced, ReqType, WhoType
<1>1. ASSUME req'[q].at = req[q].at, req'[q].attempt = req[q].attempt, req'[q].name = req[q].name
      PROVE  Placed(q)'
  <2>1. Active(q) => Person(q)' = Person(q)
    BY <1>1, PersonKept
  <2>2. req[q].attempt \in Nat
    BY <1>0, Constants DEF Handling
  <2> QED
    BY <1>0, <1>1, <2>1, <2>2 DEF Placed, Active
<1>2. CASE UNCHANGED req
  BY <1>1, <1>2
<1>3. ASSUME NEW p \in Procs, Works(p) PROVE Placed(q)'
  BY <1>1, <1>3, PlacedWork, WorkOfOne DEF Typed
<1>4. ASSUME NEW p \in Procs, Begins(p) PROVE Placed(q)'
  <2>1. PICK n \in Attempts :
            /\ req' = [req EXCEPT ![p] = [Idle EXCEPT !.at = "code", !.attempt = n]]
            /\ \/ Callback(p, n)
               \/ n = begun + 1 /\ \E g \in Googlers : GoogleBegin(p, g)
    BY <1>4, BeginOfOne DEF Typed
  <2>2. n <= begun'
    BY <1>0, <2>1 DEF Callback, GoogleBegin, Typed, StatesType
  <2> QED
    BY <1>0, <1>1, <2>1, <2>2 DEF Placed, Active, Idle
<1>5. ASSUME NEW n \in Names, Delete(n) PROVE Placed(q)'
  BY <1>0, <1>1, <1>5 DEF Delete, Handling
<1>6. CASE Restart
  BY <1>6 DEF Restart, Placed, Active, Idle
<1> QED
  BY <1>2, <1>3, <1>4, <1>5, <1>6, StepCases DEF vars, Start, Expire, Exchange, Register, Block

LEMMA TypedAlways == Spec => []Typed
<1>1. Typed /\ [Next]_vars => Typed'
  BY UsersStep, ReqStep, WhoStep, CountStep, StatesStep, PlacedStep DEF Typed
<1> QED
  BY <1>1, InitTyped, PTL DEF Spec
-----------------------------------------------------------------------------
(* Used once                                                               *)

(* A sign-in is in one place at a time: behind its state, with one         *)
(* handler, behind its exchange code, or with the page.                    *)
Fresh(n) == passed[n] = 0 /\ given[n] = 0 /\ n \notin tickets
PlacesOfAttempts == \A n \in Attempts :
    /\ begun < n => n \notin states
    /\ n \in states \/ begun < n => Fresh(n)
    /\ passed[n] <= 1 /\ given[n] <= 1
    /\ n \in tickets => given[n] = 0
PlacesOfHandlers == \A p \in Procs : Active(p) =>
    LET n == req[p].attempt IN
    /\ passed[n] = 1 /\ given[n] = 0 /\ n \notin tickets
    /\ \A q \in Procs : Active(q) /\ q # p => req[q].attempt # n
UsedInv == PlacesOfAttempts /\ PlacesOfHandlers

LEMMA UsedWork ==
    ASSUME Typed, Typed', UsedInv, NEW p \in Procs, Works(p)
    PROVE  UsedInv'
<1>0. /\ ReqType /\ Active(p) /\ given \in [Attempts -> Nat] /\ req[p].attempt \in Attempts
      /\ UNCHANGED <<states, begun, passed>>
  BY WorkOfOne, WorkChanges DEF Typed, CountType, AllPlaced, Placed
<1> DEFINE a == req[p].attempt
<1>1. /\ passed[a] = 1 /\ given[a] = 0 /\ a \notin tickets /\ a \notin states /\ ~(begun < a)
  BY <1>0 DEF UsedInv, PlacesOfAttempts, PlacesOfHandlers, Fresh
<1>2. \/ UNCHANGED <<tickets, given>>
      \/ /\ req'[p] = Idle
         /\ \/ given' = [given EXCEPT ![a] = @ + 1] /\ tickets' = tickets
            \/ tickets' = tickets \cup {a} /\ given' = given
  <2>1. IssueToken(p) => req'[p] = Idle
    BY <1>0 DEF IssueToken, Done, ReqType
  <2>2. IssueToken(p) => \/ UNCHANGED <<tickets, given>>
                         \/ given' = [given EXCEPT ![a] = @ + 1] /\ tickets' = tickets
                         \/ tickets' = tickets \cup {a} /\ given' = given
    BY DEF IssueToken
  <2> QED
    BY <2>1, <2>2, WorkChanges
<1>3. PlacesOfAttempts'
  BY <1>0, <1>1, <1>2 DEF UsedInv, PlacesOfAttempts, Fresh
<1>4. PlacesOfHandlers'
  <2> SUFFICES ASSUME NEW q \in Procs, Active(q)'
               PROVE  /\ passed'[req'[q].attempt] = 1 /\ given'[req'[q].attempt] = 0
                      /\ req'[q].attempt \notin tickets'
                      /\ \A o \in Procs : Active(o)' /\ o # q => req'[o].attempt # req'[q].attempt
    BY DEF PlacesOfHandlers
  <2>1. \A o \in Procs : Active(o)' => Active(o) /\ req'[o].attempt = req[o].attempt
    BY <1>0, WorkOfOne DEF Active, Idle
  <2>2. \A o \in Procs : Active(o) /\ o # q => req[o].attempt # req[q].attempt
    BY <2>1 DEF UsedInv, PlacesOfHandlers
  <2>3. /\ passed[req[q].attempt] = 1 /\ given[req[q].attempt] = 0
        /\ req[q].attempt \notin tickets
    BY <2>1 DEF UsedInv, PlacesOfHandlers
  <2>4. CASE q = p
    <3>1. req'[p] # Idle
      BY <2>4 DEF Active, Idle
    <3>2. UNCHANGED <<tickets, given, passed>>
      BY <1>0, <1>2, <3>1
    <3> QED
      BY <2>1, <2>2, <2>3, <3>2
  <2>5. CASE q # p
    <3>1. req[q].attempt # a /\ req[q].attempt \in Attempts
      BY <1>0, <2>1, <2>5 DEF UsedInv, PlacesOfHandlers, Typed, AllPlaced, Placed
    <3>2. /\ given'[req[q].attempt] = given[req[q].attempt]
          /\ req[q].attempt \in tickets' => req[q].attempt \in tickets
      BY <1>0, <1>2, <3>1
    <3> QED
      BY <1>0, <2>1, <2>2, <2>3, <3>2
  <2> QED
    BY <2>4, <2>5
<1> QED
  BY <1>3, <1>4 DEF UsedInv

LEMMA UsedBegin ==
    ASSUME Typed, UsedInv, NEW p \in Procs, Begins(p)
    PROVE  UsedInv'
<1>0. /\ ReqType /\ passed \in [Attempts -> Nat] /\ given \in [Attempts -> Nat] /\ begun \in Nat
      /\ Attempts \subseteq Nat
  BY Constants DEF Typed, CountType, WhoType
<1>1. PICK n \in Attempts :
            /\ ~Active(p)
            /\ req' = [req EXCEPT ![p] = [Idle EXCEPT !.at = "code", !.attempt = n]]
            /\ UNCHANGED <<tickets, given>>
            /\ \/ Callback(p, n)
               \/ n = begun + 1 /\ \E g \in Googlers : GoogleBegin(p, g)
  BY BeginOfOne DEF Typed
<1>2. /\ Fresh(n) /\ n \notin states'
      /\ states' \subseteq states /\ begun <= begun'
      /\ passed' = [passed EXCEPT ![n] = 1]
      /\ \A m \in Attempts : begun' < m => m # n
  <2>1. CASE Callback(p, n)
    <3>1. n \in states /\ states' = states \ {n} /\ begun' = begun
          /\ passed' = [passed EXCEPT ![n] = @ + 1]
      BY <2>1 DEF Callback, takeOIDCState
    <3>2. passed[n] = 0 /\ Fresh(n) /\ n <= begun
      BY <3>1 DEF UsedInv, PlacesOfAttempts, Fresh, Typed, StatesType
    <3> QED
      BY <1>0, <3>1, <3>2
  <2>2. CASE n = begun + 1 /\ \E g \in Googlers : GoogleBegin(p, g)
    <3>1. states' = states /\ begun' = begun + 1 /\ passed' = [passed EXCEPT ![n] = 1]
      BY <2>2 DEF GoogleBegin
    <3>2. begun < n
      BY <1>0, <2>2
    <3>3. Fresh(n) /\ n \notin states
      BY <3>2 DEF UsedInv, PlacesOfAttempts
    <3> QED
      BY <1>0, <2>2, <3>1, <3>3
  <2> QED
    BY <1>1, <2>1, <2>2
<1>3. \A q \in Procs : Active(q) => req[q].attempt # n
  BY <1>2 DEF UsedInv, PlacesOfHandlers, Fresh
<1>4. PlacesOfAttempts'
  <2> SUFFICES ASSUME NEW m \in Attempts
               PROVE  /\ begun' < m => m \notin states'
                      /\ m \in states' \/ begun' < m => Fresh(m)'
                      /\ passed'[m] <= 1 /\ given'[m] <= 1
                      /\ m \in tickets' => given'[m] = 0
    BY DEF PlacesOfAttempts
  <2>1. /\ begun < m => m \notin states
        /\ m \in states \/ begun < m => Fresh(m)
        /\ passed[m] <= 1 /\ given[m] <= 1
        /\ m \in tickets => given[m] = 0
    BY DEF UsedInv, PlacesOfAttempts
  <2>2. begun' < m => begun < m
    BY <1>0, <1>2, WhoStep DEF Next, Begins, Typed, WhoType
  <2>3. m # n => (Fresh(m) => Fresh(m)') /\ passed'[m] <= 1
    BY <1>0, <1>1, <1>2, <2>1 DEF Fresh
  <2>4. m = n => passed'[m] <= 1 /\ m \notin states' /\ ~(begun' < m)
    BY <1>0, <1>2
  <2> QED
    BY <1>1, <1>2, <2>1, <2>2, <2>3, <2>4
<1>5. PlacesOfHandlers'
  <2>1. req'[p].attempt = n /\ \A q \in Procs : q # p => req'[q] = req[q]
    BY <1>0, <1>1 DEF ReqType, Idle
  <2>2. passed'[n] = 1 /\ given'[n] = 0 /\ n \notin tickets'
    BY <1>0, <1>1, <1>2 DEF Fresh
  <2>3. ASSUME NEW q \in Procs, q # p, Active(q)
        PROVE  /\ req[q].attempt # n /\ req[q].attempt \in Attempts
               /\ passed[req[q].attempt] = 1 /\ given[req[q].attempt] = 0
               /\ req[q].attempt \notin tickets
               /\ \A o \in Procs : Active(o) /\ o # q => req[o].attempt # req[q].attempt
    BY <1>3, <2>3 DEF UsedInv, PlacesOfHandlers, Typed, AllPlaced, Placed
  <2>4. \A q \in Procs : q # p => Active(q)' = Active(q)
    BY <2>1 DEF Active
  <2>5. ASSUME NEW q \in Procs, q # p, Active(q)
        PROVE passed'[req[q].attempt] = 1 /\ given'[req[q].attempt] = 0
    BY <1>0, <1>1, <1>2, <2>3, <2>5
  <2> QED
    BY <1>1, <2>1, <2>2, <2>3, <2>4, <2>5 DEF PlacesOfHandlers
<1> QED
  BY <1>4, <1>5 DEF UsedInv

LEMMA UsedStep ==
    ASSUME Typed, Typed', UsedInv, [Next]_vars
    PROVE  UsedInv'
<1>0. /\ ReqType /\ given \in [Attempts -> Nat] /\ begun \in Nat /\ Attempts \subseteq Nat
  BY Constants DEF Typed, CountType, WhoType
<1> USE DEF UsedInv, PlacesOfAttempts, PlacesOfHandlers, Fresh, Active
<1>1. CASE UNCHANGED <<states, tickets, req, begun, passed, given>>
  BY <1>1
<1>2. ASSUME NEW s \in Subjects, Start(s) PROVE UsedInv'
  BY <1>0, <1>2 DEF Start, history
<1>3. ASSUME NEW n \in Attempts, Expire(n) PROVE UsedInv'
  BY <1>3 DEF Expire, history
<1>4. ASSUME NEW n \in Attempts, Exchange(n) PROVE UsedInv'
  <2>1. /\ UNCHANGED <<states, req, begun, passed>> /\ tickets' = tickets \ {n}
        /\ given' = [given EXCEPT ![n] = @ + 1] /\ n \in tickets
    BY <1>4 DEF Exchange, takeTicket
  <2>2. given[n] = 0 /\ given'[n] = 1
    BY <1>0, <2>1
  <2>3. \A m \in Attempts : m # n => given'[m] = given[m]
    BY <1>0, <2>1
  <2>4. \A p \in Procs : Active(p) => req[p].attempt # n /\ req[p].attempt \in Attempts
    BY <2>1 DEF Typed, AllPlaced, Placed
  <2>5. PlacesOfAttempts'
    BY <2>1, <2>2, <2>3
  <2>6. PlacesOfHandlers'
    BY <2>1, <2>3, <2>4
  <2> QED
    BY <2>5, <2>6
<1>5. ASSUME NEW n \in Names, Delete(n) PROVE UsedInv'
  <2>1. \A p \in Procs : req'[p].at = req[p].at /\ req'[p].attempt = req[p].attempt
    BY <1>0, <1>5 DEF Delete, ReqType, Handling
  <2>2. UNCHANGED <<states, tickets, begun, passed, given>>
    BY <1>5 DEF Delete, history
  <2>3. \A p \in Procs : Active(p)' = Active(p)
    BY <2>1
  <2>4. PlacesOfHandlers'
    BY <2>1, <2>2, <2>3
  <2>5. PlacesOfAttempts'
    BY <2>2
  <2> QED
    BY <2>4, <2>5
<1>6. CASE Restart
  BY <1>6 DEF Restart, history, Idle
<1> QED
  BY <1>1, <1>2, <1>3, <1>4, <1>5, <1>6, UsedWork, UsedBegin, StepCases
     DEF vars, history, Register, Block

(* UsedOnce of SignOn: a sign-in passes the callback once and gives one    *)
(* token (takeOIDCState, takeTicket), whatever is sent again, expires or   *)
(* is lost in a restart.                                                   *)
THEOREM SignInsUsedOnce == Spec => []UsedOnce
<1>1. Init => UsedInv
  BY Constants DEF Init, UsedInv, PlacesOfAttempts, PlacesOfHandlers, Fresh, Active, Idle
<1>2. Typed /\ Typed' /\ UsedInv /\ [Next]_vars => UsedInv'
  BY UsedStep
<1>3. UsedInv => UsedOnce
  BY DEF UsedInv, PlacesOfAttempts, UsedOnce
<1> QED
  BY <1>1, <1>2, <1>3, TypedAlways, PTL DEF Spec
-----------------------------------------------------------------------------
(* Everybody enters their own account                                      *)

(* The rows of users, one by one.                                          *)
RowOwn(n) ==
    /\ ~users[n].there => users[n].by = Nobody /\ ~users[n].crossed
    /\ ~users[n].crossed => users[n].subjects \subseteq {users[n].by}
    /\ users[n].by \in Subjects => users[n].by \in users[n].subjects
    /\ users[n].by \in Googlers /\ ~users[n].crossed /\ users[n].subjects = {}
          => n = Candidates[users[n].by][1]
RowsOwn == \A n \in Names : RowOwn(n)

\* Nobody has two.
OneRow == \A s \in People : \A m, n \in OwnRows(s) : m = n

(* A handler makes a row for a Google user when there is no unbound one of *)
(* theirs, and holds the name of their row, unless it was deleted since.   *)
HandlerOwn(p) ==
    /\ req[p].at = "insert" /\ Person(p) \in Googlers =>
          \A n \in Names : users[n].by = Person(p) /\ ~users[n].crossed
                              => users[n].subjects # {}
    /\ req[p].at = "bind" /\ ~req[p].swapped => users[req[p].name].by = Person(p)
    /\ req[p].at = "blocked" /\ ~req[p].swapped =>
          users[req[p].name].by = Person(p) \/ users[req[p].name].crossed
HandlersOwn == \A p \in Procs : HandlerOwn(p)
IssuedOwn == \A t \in issued : t.own \/ t.swapped
OwnInv == RowsOwn /\ OneRow /\ HandlersOwn /\ IssuedOwn

(* What a row becomes when it is not deleted.                              *)
LEMMA RowChanges ==
    ASSUME Typed, RowsOwn, HandlersOwn, [Next]_vars, ~\E n \in Names : Delete(n), NEW m \in Names
    PROVE  \/ users'[m] = users[m]
           \/ ~users[m].there /\ \E s \in People \cup {Nobody} : users'[m] = Made(s)
           \/ users'[m] = [users[m] EXCEPT !.blocked = TRUE]
           \/ \E p \in Procs :
                 /\ BindLegacy(p) /\ m = req[p].name /\ users[m].there
                 /\ users'[m] = [users[m] EXCEPT !.subjects = (@ \ Googlers) \cup {Person(p)},
                                                 !.crossed = @ \/ req[p].swapped]
<1>0. users \in [Names -> UserRow]
  BY DEF Typed, UsersType
<1>1. CASE UNCHANGED users
  BY <1>1
<1>2. ASSUME NEW p \in Procs, InsertCandidate(p)
      PROVE  users'[m] = users[m] \/ (~users[m].there /\ \E s \in People : users'[m] = Made(s))
  <2>1. Person(p) \in People
    BY <1>2, PersonKept DEF InsertCandidate, Typed, AllPlaced, Placed, Active, WhoType, Person
  <2> QED
    BY <1>0, <1>2, <2>1 DEF InsertCandidate, Free
<1>3. ASSUME NEW p \in Procs, BindLegacy(p)
      PROVE  \/ users'[m] = users[m]
             \/ /\ m = req[p].name /\ users[m].there
                /\ users'[m] = [users[m] EXCEPT !.subjects = (@ \ Googlers) \cup {Person(p)},
                                                !.crossed = @ \/ req[p].swapped]
  BY <1>0, <1>3 DEF BindLegacy
<1>4. ASSUME NEW n \in Names, Register(n)
      PROVE  users'[m] = users[m] \/ (~users[m].there /\ users'[m] = Made(Nobody))
  BY <1>0, <1>4 DEF Register
<1>5. ASSUME NEW n \in Names, Block(n)
      PROVE  users'[m] = users[m] \/ users'[m] = [users[m] EXCEPT !.blocked = TRUE]
  BY <1>0, <1>5 DEF Block
<1>6. ASSUME NEW p \in Procs, Begins(p) PROVE UNCHANGED users
  BY <1>6 DEF Begins, Callback, GoogleBegin
<1>7. ASSUME NEW p \in Procs, Works(p)
      PROVE  UNCHANGED users \/ InsertCandidate(p) \/ BindLegacy(p)
  BY <1>7, WorkChanges
<1> QED
  BY <1>1, <1>2, <1>3, <1>4, <1>5, <1>6, <1>7, StepCases
     DEF vars, Start, Expire, Exchange, Restart

(* The same, in what the invariants look at.                               *)
LEMMA RowAfter ==
    ASSUME Typed, RowsOwn, HandlersOwn, [Next]_vars, ~\E n \in Names : Delete(n), NEW m \in Names
    PROVE  /\ users[m].there => /\ users'[m].there /\ users'[m].by = users[m].by
                                /\ users[m].crossed => users'[m].crossed
           /\ \/ users'[m].there = users[m].there /\ users'[m].by = users[m].by
              \/ ~users[m].there /\ \E s \in People \cup {Nobody} : users'[m] = Made(s)
           /\ users[m].there /\ users[m].subjects # {} => users'[m].subjects # {}
           /\ users[m].there => users'[m].subjects \ Googlers = users[m].subjects \ Googlers
           /\ RowOwn(m)'
<1>0. /\ users[m] \in UserRow /\ RowOwn(m)
      /\ Subjects \cap Googlers = {} /\ Nobody \notin People /\ People = Subjects \cup Googlers
  BY Constants DEF Typed, UsersType, RowsOwn
<1>1. CASE users'[m] = users[m]
  BY <1>0, <1>1 DEF RowOwn
<1>2. CASE ~users[m].there /\ \E s \in People \cup {Nobody} : users'[m] = Made(s)
  BY <1>0, <1>2, MadeParts DEF RowOwn
<1>3. CASE users'[m] = [users[m] EXCEPT !.blocked = TRUE]
  BY <1>0, <1>3 DEF RowOwn, UserRow
<1>4. ASSUME NEW p \in Procs, BindLegacy(p), m = req[p].name, users[m].there,
             users'[m] = [users[m] EXCEPT !.subjects = (@ \ Googlers) \cup {Person(p)},
                                          !.crossed = @ \/ req[p].swapped]
      PROVE  /\ users[m].there => /\ users'[m].there /\ users'[m].by = users[m].by
                                  /\ users[m].crossed => users'[m].crossed
             /\ users'[m].there = users[m].there /\ users'[m].by = users[m].by
             /\ users[m].there /\ users[m].subjects # {} => users'[m].subjects # {}
             /\ users[m].there => users'[m].subjects \ Googlers = users[m].subjects \ Googlers
             /\ RowOwn(m)'
  <2> DEFINE u == users[m]
             g == Person(p)
             v == users'[m]
             crossed == u.crossed \/ req[p].swapped
  <2>1. g \in Googlers /\ (~req[p].swapped => u.by = g) /\ req[p].at = "bind"
    BY <1>4 DEF BindLegacy, Typed, AllPlaced, Placed, HandlersOwn, HandlerOwn
  <2>2. /\ v.there = u.there /\ v.by = u.by /\ v.subjects = (u.subjects \ Googlers) \cup {g}
        /\ v.crossed = crossed
    <3>1. v = [u EXCEPT !.subjects = (u.subjects \ Googlers) \cup {g}, !.crossed = crossed]
      BY <1>4
    <3> HIDE DEF u, v, g, crossed
    <3>2. u \in UserRow
      BY <1>0 DEF u
    <3> QED
      BY <3>1, <3>2 DEF UserRow
  <2>3. ~v.crossed => u.by = g /\ ~u.crossed
    BY <2>1, <2>2
  <2>4. RowOwn(m)'
    <3>1. /\ ~u.crossed => u.subjects \subseteq {u.by}
          /\ u.by \in Subjects => u.by \in u.subjects
          /\ u.there /\ u.subjects \subseteq People
      BY <1>0, <1>4 DEF RowOwn, UserRow
    <3> HIDE DEF u, v, g, crossed
    <3>2. v.there
      BY <2>2, <3>1
    <3>3. ~v.crossed => v.subjects \subseteq {v.by}
      BY <2>2, <2>3, <3>1
    <3>4. v.by \in Subjects => v.by \in v.subjects
      BY <1>0, <2>2, <3>1
    <3>5. v.subjects # {}
      BY <2>2
    <3> QED
      BY <3>2, <3>3, <3>4, <3>5 DEF RowOwn, v
  <2> QED
    BY <2>1, <2>2, <2>4
<1> QED
  BY <1>1, <1>2, <1>3, <1>4, RowChanges

LEMMA RowsStep ==
    ASSUME Typed, RowsOwn, HandlersOwn, [Next]_vars
    PROVE  RowsOwn'
<1>1. ASSUME NEW n \in Names, Delete(n) PROVE RowsOwn'
  <2>1. users' = [users EXCEPT ![n] = NoRow] /\ users \in [Names -> UserRow]
    BY <1>1 DEF Delete, Typed, UsersType
  <2> QED
    BY <2>1, Constants DEF RowsOwn, RowOwn, NoRow
<1>2. CASE ~\E n \in Names : Delete(n)
  BY <1>2, RowAfter DEF RowsOwn
<1> QED
  BY <1>1, <1>2

(* No row counts for a person a row is made for.                           *)
LEMMA NoOwnRow ==
    ASSUME Typed, RowsOwn, HandlersOwn, NEW p \in Procs, InsertCandidate(p),
           Bound(Person(p)) = {}
    PROVE  OwnRows(Person(p)) = {}
<1> DEFINE s == Person(p)
<1>1. s \in Subjects \cup Googlers /\ s # Nobody /\ Subjects \cap Googlers = {}
  BY SMTT(30), Constants DEF InsertCandidate, Typed, AllPlaced, Placed, Active, WhoType, Person
<1> SUFFICES ASSUME NEW m \in OwnRows(s) PROVE FALSE
  OBVIOUS
<1>2. /\ m \in Names /\ users[m].by = s /\ (users[m].crossed => s \in Subjects) /\ users[m].there
  BY <1>1 DEF OwnRows, RowsOwn, RowOwn
<1>3. s \notin users[m].subjects
  BY <1>2 DEF Bound
<1>4. s \in Googlers /\ ~users[m].crossed /\ users[m].subjects = {}
  BY <1>1, <1>2, <1>3 DEF RowsOwn, RowOwn
<1> QED
  BY <1>2, <1>4 DEF HandlersOwn, HandlerOwn, InsertCandidate

LEMMA OneRowStep ==
    ASSUME Typed, RowsOwn, OneRow, HandlersOwn, [Next]_vars
    PROVE  OneRow'
<1>0. users \in [Names -> UserRow] /\ Nobody \notin People
  BY Constants DEF Typed, UsersType
<1>1. ASSUME NEW n \in Names, Delete(n) PROVE OneRow'
  <2>1. \A s \in People : OwnRows(s)' \subseteq OwnRows(s)
    BY <1>0, <1>1 DEF Delete, OwnRows, NoRow
  <2> QED
    BY <2>1 DEF OneRow
<1>2. ASSUME ~\E n \in Names : Delete(n), NEW s \in People, NEW m \in OwnRows(s)', m \notin OwnRows(s)
      PROVE  \E p \in Procs : InsertCandidate(p) /\ Person(p) = s /\ Bound(s) = {}
                              /\ OwnRows(s)' \subseteq {m}
  <2>1. m \in Names /\ users'[m].by = s /\ (users'[m].crossed => s \in Subjects)
    BY <1>2 DEF OwnRows
  <2>2. ~users[m].there /\ users'[m].there
    <3>1. users[m].there => users'[m].by = users[m].by /\ (users[m].crossed => users'[m].crossed)
      BY <1>2, <2>1, RowAfter
    <3>2. users[m].there => m \in OwnRows(s)
      BY <2>1, <3>1 DEF OwnRows
    <3>3. RowOwn(m)'
      BY <1>2, <2>1, RowAfter
    <3> QED
      BY <1>0, <1>2, <2>1, <3>2, <3>3 DEF RowOwn
  <2>3. PICK p \in Procs : InsertCandidate(p)
    <3>1. ASSUME NEW n \in Names, Register(n) PROVE FALSE
      BY <1>0, <2>1, <2>2, <3>1, MadeParts DEF Register
    <3>2. ASSUME NEW n \in Names, Block(n) PROVE FALSE
      BY <1>0, <2>1, <2>2, <3>2 DEF Block
    <3>3. ASSUME NEW p \in Procs, BindLegacy(p) PROVE FALSE
      BY <1>0, <2>1, <2>2, <3>3 DEF BindLegacy, UserRow
    <3> QED
      BY <1>2, <2>2, <3>1, <3>2, <3>3, StepCases, WorkChanges
         DEF vars, Start, Expire, Exchange, Restart, Begins, Callback, GoogleBegin
  <2>4. /\ Free(Person(p), Candidates[Person(p)][req[p].try])
        /\ users' = [users EXCEPT ![Candidates[Person(p)][req[p].try]] = Made(Person(p))]
    BY <2>2, <2>3 DEF InsertCandidate
  <2>5. m = Candidates[Person(p)][req[p].try] /\ users'[m] = Made(Person(p))
    BY <1>0, <2>1, <2>2, <2>4
  <2>6. Person(p) = s /\ Bound(s) = {}
    BY <2>1, <2>4, <2>5, MadeParts DEF Free
  <2>7. OwnRows(s) = {}
    BY <2>3, <2>6, NoOwnRow
  <2>8. OwnRows(s)' \subseteq {m}
    BY <1>0, <2>4, <2>5, <2>7 DEF OwnRows
  <2> QED
    BY <2>3, <2>6, <2>8
<1>3. CASE ~\E n \in Names : Delete(n)
  BY <1>2, <1>3 DEF OneRow
<1> QED
  BY <1>1, <1>3
(* Of a handler that stands still while another does something.            *)
LEMMA HandlerAfter ==
    ASSUME Typed, RowsOwn, HandlersOwn, [Next]_vars, ~\E n \in Names : Delete(n),
           NEW q \in Procs, req'[q] = req[q], Active(q)
    PROVE  HandlerOwn(q)'
<1>0. /\ Person(q)' = Person(q) /\ Person(q) \in People /\ Nobody \notin People
      /\ HandlerOwn(q) /\ (req[q].at \in {"bind", "blocked"} => req[q].name \in Names)
  BY PersonKept, Constants DEF HandlersOwn, Typed, AllPlaced, Placed
<1>1. ASSUME NEW n \in Names, ~users[n].there
      PROVE  users[n].by # Person(q) /\ ~users[n].crossed
  BY <1>0, <1>1 DEF RowsOwn, RowOwn
<1>2. ASSUME req[q].at = "insert", Person(q) \in Googlers, NEW n \in Names,
             users'[n].by = Person(q), ~users'[n].crossed
      PROVE  users'[n].subjects # {}
  <2>1. CASE users[n].there
    BY <1>0, <1>2, <2>1, RowAfter DEF HandlerOwn
  <2>2. CASE ~users[n].there
    <3>1. PICK s \in People \cup {Nobody} : users'[n] = Made(s)
      BY <1>1, <1>2, <2>2, RowAfter
    <3> QED
      BY <1>0, <1>2, <3>1, MadeParts
  <2> QED
    BY <2>1, <2>2
<1>3. ASSUME req[q].at \in {"bind", "blocked"}
      PROVE  /\ users[req[q].name].by = Person(q) => users'[req[q].name].by = Person(q)
             /\ users[req[q].name].crossed => users'[req[q].name].crossed
  BY <1>0, <1>1, <1>3, RowAfter
<1> QED
  BY <1>0, <1>2, <1>3 DEF HandlerOwn

LEMMA OwnWork ==
    ASSUME Typed, RowsOwn, HandlersOwn, [Next]_vars, ~\E n \in Names : Delete(n),
           NEW p \in Procs, Works(p)
    PROVE  HandlerOwn(p)'
<1>0. /\ req \in [Procs -> Handling] /\ req[p] \in Handling /\ users \in [Names -> UserRow]
      /\ Active(p) /\ HandlerOwn(p) /\ Person(p) \in People /\ Nobody \notin People
      /\ People = Subjects \cup Googlers /\ Subjects \cap Googlers = {}
  BY WorkOfOne, Constants
     DEF Typed, ReqType, UsersType, HandlersOwn, AllPlaced, Placed, WhoType, Person
<1>1. CASE req'[p] = Idle
  BY <1>1 DEF HandlerOwn, Idle
<1>2. CASE Active(p)' /\ req'[p].attempt = req[p].attempt /\ req'[p].swapped = req[p].swapped
  <2>0. Person(p)' = Person(p)
    BY <1>0, <1>2, PersonKept
  <2> SUFFICES ASSUME req'[p].at \in {"insert", "bind", "blocked"} PROVE HandlerOwn(p)'
    BY DEF HandlerOwn
  <2>1. CASE ExchangeCode(p)
    BY <1>0, <1>1, <2>1 DEF ExchangeCode, Goto, Done, Handling
  <2>2. CASE SelectSubject(p) \/ SelectAgain(p)
    <3>1. users' = users
      BY <2>2 DEF SelectSubject, SelectAgain
    <3>2. CASE \E n \in Bound(Person(p)) : Found(p, n)
      <4>1. PICK n \in Bound(Person(p)) : Found(p, n)
        BY <3>2
      <4>2. req'[p].at = "blocked" /\ req'[p].name = n
        BY <1>0, <4>1 DEF Found, Handling
      <4>3. users[n].by = Person(p) \/ users[n].crossed
        BY <4>1 DEF Bound, RowsOwn, RowOwn
      <4> QED
        BY <2>0, <3>1, <4>2, <4>3 DEF HandlerOwn
    <3>3. CASE ~\E n \in Bound(Person(p)) : Found(p, n)
      <4>1. req'[p].at = "insert" /\ Person(p) \notin Googlers
        BY <1>0, <2>2, <3>3
           DEF SelectSubject, SelectAgain, Goto, Typed, AllPlaced, Placed, Handling
      <4> QED
        BY <2>0, <4>1 DEF HandlerOwn
    <3> QED
      BY <3>2, <3>3
  <2>3. CASE FindLegacy(p)
    <3> DEFINE n == Candidates[Person(p)][1]
    <3>1. users' = users
      BY <2>3 DEF FindLegacy
    <3>2. CASE IsLegacy(Person(p), n)
      <4>1. req'[p].at = "bind" /\ req'[p].name = n /\ users[n].by = Person(p)
        BY <1>0, <2>3, <3>2 DEF FindLegacy, IsLegacy, Handling
      <4> QED
        BY <2>0, <3>1, <4>1 DEF HandlerOwn
    <3>3. CASE ~IsLegacy(Person(p), n)
      <4>1. req'[p].at = "insert"
        BY <1>0, <2>3, <3>3 DEF FindLegacy, Handling
      <4>2. ASSUME NEW m \in Names, users[m].by = Person(p), ~users[m].crossed,
                   users[m].subjects = {}, Person(p) \in Googlers
            PROVE  FALSE
        <5>1. m = n /\ users[m].there
          BY <1>0, <4>2 DEF RowsOwn, RowOwn
        <5> QED
          BY <3>3, <4>2, <5>1 DEF IsLegacy
      <4> QED
        BY <2>0, <3>1, <4>1, <4>2 DEF HandlerOwn
    <3> QED
      BY <3>2, <3>3
  <2>4. CASE BindLegacy(p)
    <3>1. /\ req[p].at = "bind" /\ req[p].name \in Names
          /\ req'[p].at = "blocked" /\ req'[p].name = req[p].name
      BY <1>0, <2>4 DEF BindLegacy, Found, Handling, Typed, AllPlaced, Placed
    <3>2. users[req[p].name].by = Person(p) => users[req[p].name].there
      BY <1>0, <3>1 DEF RowsOwn, RowOwn
    <3>3. users[req[p].name].by = Person(p) => users'[req[p].name].by = Person(p)
      BY <3>1, <3>2, RowAfter
    <3> QED
      BY <1>0, <1>2, <2>0, <3>1, <3>3 DEF HandlerOwn
  <2>5. CASE InsertCandidate(p)
    <3> DEFINE s == Person(p)
               n == Candidates[s][req[p].try]
    <3>1. CASE Free(s, n)
      <4>1. n \in Names
        BY <1>0, <2>5, Constants DEF InsertCandidate, Handling
      <4>2. users' = [users EXCEPT ![n] = Made(s)] /\ Found(p, n)
        BY <2>5, <3>1 DEF InsertCandidate
      <4>3. users'[n].by = s
        BY <1>0, <4>1, <4>2, MadeParts
      <4>4. req'[p].at = "blocked" /\ req'[p].name = n
        BY <1>0, <4>2 DEF Found, Handling
      <4> QED
        BY <2>0, <4>3, <4>4 DEF HandlerOwn
    <3>2. CASE ~Free(s, n)
      <4>1. req'[p].at = "insert" /\ users' = users /\ req[p].at = "insert"
        BY <1>0, <2>5, <3>2 DEF InsertCandidate, AfterConflict, Handling
      <4> QED
        BY <1>0, <2>0, <4>1 DEF HandlerOwn
    <3> QED
      BY <3>1, <3>2
  <2>6. CASE NoNameLeft(p) \/ IssueToken(p)
    BY <1>0, <1>1, <2>6 DEF NoNameLeft, IssueToken, Done
  <2> QED
    BY <1>2, <2>1, <2>2, <2>3, <2>4, <2>5, <2>6 DEF Works
<1> QED
  BY <1>1, <1>2, WorkOfOne DEF Typed
LEMMA HandlersOwnStep ==
    ASSUME Typed, RowsOwn, HandlersOwn, [Next]_vars
    PROVE  HandlersOwn'
<1> SUFFICES ASSUME NEW q \in Procs PROVE HandlerOwn(q)'
  BY DEF HandlersOwn
<1>0. /\ req \in [Procs -> Handling] /\ req[q] \in Handling /\ users \in [Names -> UserRow]
      /\ HandlerOwn(q)
  BY DEF Typed, ReqType, UsersType, HandlersOwn
<1>1. ASSUME NEW n \in Names, Delete(n) PROVE HandlerOwn(q)'
  <2>1. /\ req'[q] = [req[q] EXCEPT !.swapped = @ \/ req[q].name = n]
        /\ users' = [users EXCEPT ![n] = NoRow] /\ who' = who
    BY <1>1 DEF Delete
  <2>2. /\ req'[q].at = req[q].at /\ req'[q].name = req[q].name
        /\ req'[q].attempt = req[q].attempt
    BY <1>0, <2>1 DEF Handling
  <2>3. ~req'[q].swapped => ~req[q].swapped /\ req[q].name # n
    BY <1>0, <2>1 DEF Handling
  <2>4. Person(q)' = Person(q)
    BY <2>1, <2>2 DEF Person
  <2>5. Active(q) => Person(q) # Nobody
    <3>1. Active(q) => Person(q) \in People
      BY DEF Typed, AllPlaced, Placed, WhoType, Person
    <3> QED
      BY <3>1, Constants
  <2>6. \A m \in Names : /\ m # n => users'[m] = users[m]
                         /\ users'[n].by = Nobody
    BY <1>0, <2>1 DEF NoRow
  <2>7. req[q].at \in {"bind", "blocked"} => req[q].name \in Names
    BY DEF Typed, AllPlaced, Placed
  <2> QED
    BY <1>0, <2>2, <2>3, <2>4, <2>5, <2>6, <2>7 DEF HandlerOwn, Active
<1>2. CASE ~\E n \in Names : Delete(n)
  <2>1. CASE req'[q] = req[q]
    <3>1. ~Active(q) => HandlerOwn(q)'
      BY <2>1 DEF Active, HandlerOwn
    <3> QED
      BY <1>2, <2>1, <3>1, HandlerAfter
  <2>2. ASSUME NEW p \in Procs, Begins(p) PROVE HandlerOwn(q)'
    <3>1. CASE q = p
      <4>1. PICK n \in Attempts :
                  req' = [req EXCEPT ![p] = [Idle EXCEPT !.at = "code", !.attempt = n]]
        BY <2>2, BeginOfOne DEF Typed
      <4>2. req'[q].at = "code"
        BY <1>0, <3>1, <4>1 DEF Idle
      <4> QED
        BY <4>2 DEF HandlerOwn
    <3>2. CASE q # p
      BY <1>0, <2>1, <2>2, <3>2, BeginOfOne DEF Typed
    <3> QED
      BY <3>1, <3>2
  <2>3. ASSUME NEW p \in Procs, Works(p) PROVE HandlerOwn(q)'
    <3>1. CASE q = p
      BY <1>2, <2>3, <3>1, OwnWork
    <3>2. CASE q # p
      BY <2>1, <2>3, <3>2, WorkOfOne DEF Typed
    <3> QED
      BY <3>1, <3>2
  <2>4. CASE Restart
    BY <2>4 DEF Restart, HandlerOwn, Idle
  <2> QED
    BY <1>2, <2>1, <2>2, <2>3, <2>4, StepCases
       DEF vars, Start, Expire, Exchange, Register, Block
<1> QED
  BY <1>1, <1>2

LEMMA IssuedStep ==
    ASSUME Typed, HandlersOwn, IssuedOwn, [Next]_vars
    PROVE  IssuedOwn'
<1>1. ASSUME NEW p \in Procs, IssueToken(p) PROVE IssuedOwn'
  <2>1. HandlerOwn(p) /\ req[p].at = "blocked" /\ req[p].name \in Names
    BY <1>1 DEF HandlersOwn, IssueToken, Typed, AllPlaced, Placed
  <2>2. \/ issued' = issued
        \/ issued' = issued \cup {[attempt |-> req[p].attempt,
                                   own |-> users[req[p].name].by = Person(p),
                                   swapped |-> req[p].swapped \/ users[req[p].name].crossed]}
    BY <1>1 DEF IssueToken
  <2>3. \/ users[req[p].name].by = Person(p)
        \/ req[p].swapped \/ users[req[p].name].crossed
    BY <2>1 DEF HandlerOwn
  <2>4. ASSUME NEW t \in issued', t \notin issued PROVE t.own \/ t.swapped
    <3> DEFINE own == users[req[p].name].by = Person(p)
               swapped == req[p].swapped \/ users[req[p].name].crossed
    <3>1. t = [attempt |-> req[p].attempt, own |-> own, swapped |-> swapped]
      BY <2>2, <2>4
    <3>2. own \/ swapped
      BY <2>3
    <3> HIDE DEF own, swapped
    <3>3. t.own = own /\ t.swapped = swapped
      BY <3>1
    <3> QED
      BY <3>2, <3>3
  <2> QED
    BY <2>4 DEF IssuedOwn
<1>2. ASSUME NEW p \in Procs, Begins(p) PROVE issued' = issued
  BY <1>2 DEF Begins, Callback, GoogleBegin
<1>3. CASE issued' = issued
  BY <1>3 DEF IssuedOwn
<1> QED
  BY <1>1, <1>2, <1>3, StepCases, WorkChanges
     DEF vars, history, Start, Expire, Exchange, Register, Block, Delete, Restart

LEMMA InitOwn == Init => OwnInv
<1> SUFFICES ASSUME Init PROVE OwnInv
  OBVIOUS
<1>0. /\ Subjects \cap Googlers = {} /\ Nobody \notin People /\ People = Subjects \cup Googlers
  BY Constants
<1>1. ASSUME NEW n \in Names
      PROVE  /\ users[n].subjects = {} /\ ~users[n].crossed
             /\ ~users[n].there => users[n].by = Nobody
             /\ users[n].by \in Googlers \cup {Nobody}
             /\ users[n].by \in Googlers => n = Candidates[users[n].by][1]
  <2>1. \/ users[n] = NoRow \/ users[n] = Made(Nobody)
        \/ \E g \in Googlers : users[n] = OldGoogle(g)
    BY DEF Init
  <2>2. ASSUME NEW g \in Googlers, users[n] = OldGoogle(g)
        PROVE  users[n].there /\ users[n].by = g /\ users[n].subjects = {} /\ ~users[n].crossed
    BY <2>2 DEF OldGoogle, Made, NoRow
  <2> QED
    BY <2>1, <2>2, MadeParts DEF NoRow, Init
<1>2. RowsOwn
  BY <1>0, <1>1 DEF RowsOwn, RowOwn
<1>3. OneRow
  BY <1>0, <1>1 DEF OneRow, OwnRows
<1>4. HandlersOwn /\ IssuedOwn
  BY DEF Init, HandlersOwn, HandlerOwn, IssuedOwn, Idle
<1> QED
  BY <1>2, <1>3, <1>4 DEF OwnInv

(* EntersOwnAccount of SignOn: oidcProvisionUser and googleAuthHandler let *)
(* nobody into an account made for somebody else, nor make them a second   *)
(* one, whatever the order of two tabs, a registration and a deletion.     *)
THEOREM OwnAccounts == Spec => []EntersOwnAccount
<1>1. Typed /\ OwnInv /\ [Next]_vars => OwnInv'
  BY RowsStep, OneRowStep, HandlersOwnStep, IssuedStep DEF OwnInv
<1>2. ASSUME OwnInv PROVE EntersOwnAccount
  <2>1. ASSUME NEW s \in People PROVE Cardinality(OwnRows(s)) <= 1
    <3>1. CASE OwnRows(s) = {}
      BY <3>1, FS_EmptySet
    <3>2. ASSUME NEW n \in OwnRows(s) PROVE OwnRows(s) = {n}
      BY <1>2, <3>2 DEF OwnInv, OneRow
    <3>3. CASE OwnRows(s) # {}
      <4>1. PICK n \in OwnRows(s) : OwnRows(s) = {n}
        BY <3>2, <3>3
      <4> QED
        BY <4>1, FS_Singleton
    <3> QED
      BY <3>1, <3>3
  <2>2. \A n \in Names : users[n].subjects \subseteq {users[n].by} \/ users[n].crossed
    BY <1>2 DEF OwnInv, RowsOwn, RowOwn
  <2> QED
    BY <1>2, <2>1, <2>2 DEF OwnInv, IssuedOwn, EntersOwnAccount
<1> QED
  BY <1>1, <1>2, InitOwn, TypedAlways, PTL DEF Spec-----------------------------------------------------------------------------
(* Both tabs enter                                                         *)

(* Nobody else made, blocked or deleted an account: the names a handler of *)
(* a person at the provider has gone past are taken, unless their row is   *)
(* there; with none left they have no row, and nobody can make it now.     *)
Tried(p) == \A k \in 1..3 : k < req[p].try => users[Candidates[Person(p)][k]].there
TabInv(p) ==
    Person(p) \in Subjects =>
        /\ req[p].at \in {"code", "select"} => req[p].try = 1
        /\ req[p].at = "again" => Bound(Person(p)) # {} \/ Tried(p)
        /\ req[p].at = "insert" => /\ Tried(p)
                                   /\ req[p].try = 4 => Bound(Person(p)) = {}
TabsInv == /\ changes = 0 => \A p \in Procs : TabInv(p)
           /\ BothTabsEnter

LEMMA BoundStep ==
    ASSUME Typed, RowsOwn, HandlersOwn, [Next]_vars, changes' = 0, NEW s \in Subjects
    PROVE  /\ \A m \in Names : users[m].there => users'[m].there
           /\ Bound(s) \subseteq Bound(s)'
           /\ \A m \in Bound(s)' \ Bound(s) :
                 /\ ~users[m].there
                 /\ \E k \in 1..3 : m = Candidates[s][k]
<1>0. /\ changes \in Nat /\ users \in [Names -> UserRow] /\ s \in People /\ s \notin Googlers
      /\ s # Nobody /\ req \in [Procs -> Handling]
  BY Constants DEF Typed, CountType, UsersType, ReqType
<1>1. ~\E n \in Names : Register(n) \/ Block(n) \/ Delete(n)
  BY <1>0 DEF Register, Block, Delete, Others
<1>2. \A m \in Names : users[m].there => users'[m].there
                         /\ users'[m].subjects \ Googlers = users[m].subjects \ Googlers
  BY <1>1, RowAfter
<1>3. Bound(s) \subseteq Bound(s)'
  BY <1>0, <1>2 DEF Bound
<1>4. ASSUME NEW m \in Bound(s)', m \notin Bound(s)
      PROVE  ~users[m].there /\ \E k \in 1..3 : m = Candidates[s][k]
  <2>1. m \in Names /\ ~users[m].there /\ users'[m].there /\ s \in users'[m].subjects
    BY <1>0, <1>2, <1>4 DEF Bound
  <2>2. PICK p \in Procs : InsertCandidate(p)
    <3>1. ASSUME NEW p \in Procs, BindLegacy(p) PROVE FALSE
      BY <1>0, <2>1, <3>1 DEF BindLegacy, UserRow
    <3> QED
      BY <1>1, <2>1, <3>1, StepCases, WorkChanges
         DEF vars, Start, Expire, Exchange, Restart, Begins, Callback, GoogleBegin
  <2>3. /\ req[p].try \in 1..3
        /\ m = Candidates[Person(p)][req[p].try] /\ users'[m] = Made(Person(p))
    BY <1>0, <2>1, <2>2 DEF InsertCandidate, Handling
  <2>4. Person(p) = s
    BY <2>1, <2>3, MadeParts
  <2> QED
    BY <2>1, <2>3, <2>4
<1> QED
  BY <1>2, <1>3, <1>4

(* Of a handler that stays where it is.                                    *)
LEMMA TabAfter ==
    ASSUME Typed, RowsOwn, HandlersOwn, [Next]_vars, changes' = 0,
           NEW q \in Procs, req'[q] = req[q], TabInv(q)
    PROVE  TabInv(q)'
<1>1. CASE ~Active(q)
  BY <1>1 DEF TabInv, Active
<1>2. CASE Active(q)
  <2>1. Person(q)' = Person(q) /\ Person(q) \in People
    BY <1>2, PersonKept
  <2> SUFFICES ASSUME NEW s \in Subjects, s = Person(q) PROVE TabInv(q)'
    BY <2>1 DEF TabInv
  <2>2. \A k \in 1..3 : Candidates[s][k] \in Names
    BY <2>1, Constants
  <2>3. Tried(q) => Tried(q)'
    BY <2>1, <2>2, BoundStep DEF Tried
  <2>4. /\ Bound(s) # {} => Bound(s)' # {}
        /\ Tried(q) /\ req[q].try = 4 /\ Bound(s) = {} => Bound(s)' = {}
    BY <2>2, BoundStep DEF Tried
  <2>5. (Bound(Person(q)))' = Bound(s)'
    BY <2>1
  <2> QED
    BY <2>1, <2>3, <2>4, <2>5 DEF TabInv
<1> QED
  BY <1>1, <1>2
LEMMA TabWork ==
    ASSUME Typed, [Next]_vars, NEW p \in Procs, Works(p), TabInv(p)
    PROVE  TabInv(p)'
<1>0. /\ req \in [Procs -> Handling] /\ req[p] \in Handling /\ Active(p) /\ Placed(p)
  BY WorkOfOne DEF Typed, ReqType, AllPlaced
<1>1. CASE req'[p] = Idle
  BY <1>1 DEF TabInv, Idle
<1>2. CASE Active(p)' /\ req'[p].attempt = req[p].attempt
  <2>1. Person(p)' = Person(p)
    BY <1>0, <1>2, PersonKept
  <2> SUFFICES ASSUME NEW s \in Subjects, s = Person(p) PROVE TabInv(p)'
    BY <2>1 DEF TabInv
  <2>2. s \notin Googlers /\ (Bound(Person(p)))' = Bound(s)'
    BY <2>1, Constants
  <2>3. CASE ExchangeCode(p)
    <3>1. (req'[p].at = "select" /\ req'[p].try = 1) \/ req'[p] = Idle
      BY <1>0, <2>3 DEF ExchangeCode, Goto, Done, Handling, TabInv
    <3> QED
      BY <1>1, <3>1 DEF TabInv
  <2>4. CASE SelectSubject(p)
    <3>1. req'[p].at = "blocked" \/ (req'[p].at = "insert" /\ req'[p].try = 1)
      BY <1>0, <2>2, <2>4 DEF SelectSubject, Found, Goto, Handling, TabInv
    <3> QED
      BY <3>1 DEF TabInv, Tried
  <2>5. CASE InsertCandidate(p)
    <3> DEFINE n == Candidates[s][req[p].try]
    <3>1. CASE Free(s, n)
      BY <1>0, <2>5, <3>1 DEF InsertCandidate, Found, Handling, TabInv
    <3>2. CASE ~Free(s, n)
      <4>1. /\ req'[p].at = "again" /\ req'[p].try = req[p].try + 1 /\ users' = users
            /\ req[p].at = "insert" /\ req[p].try \in 1..3
        BY <1>0, <2>5, <3>2 DEF InsertCandidate, AfterConflict, Handling
      <4>2. Bound(s)' = Bound(s)
        BY <4>1 DEF Bound
      <4>3. Tried(p) /\ (users[n].there \/ Bound(s) # {})
        BY <3>2, <4>1 DEF TabInv, Free
      <4>4. users[n].there => Tried(p)'
        BY <2>1, <4>1, <4>3 DEF Tried
      <4> QED
        BY <2>2, <4>1, <4>2, <4>3, <4>4 DEF TabInv
    <3> QED
      BY <3>1, <3>2
  <2>6. CASE SelectAgain(p)
    <3>1. users' = users /\ req[p].at = "again"
      BY <2>6 DEF SelectAgain
    <3>2. \/ req'[p].at = "blocked"
          \/ req'[p].at = "insert" /\ req'[p].try = req[p].try /\ Bound(s) = {}
      BY <1>0, <2>6 DEF SelectAgain, Found, Goto, Handling
    <3>3. Bound(s)' = Bound(s)
      BY <3>1 DEF Bound
    <3>4. req'[p].try = req[p].try /\ Tried(p) => Tried(p)'
      BY <2>1, <3>1 DEF Tried
    <3> QED
      BY <2>2, <3>1, <3>2, <3>3, <3>4 DEF TabInv
  <2>7. CASE FindLegacy(p) \/ BindLegacy(p)
    BY <1>0, <2>2, <2>7 DEF FindLegacy, BindLegacy, Placed
  <2>8. CASE NoNameLeft(p) \/ IssueToken(p)
    BY <1>0, <1>1, <2>8 DEF NoNameLeft, IssueToken, Done
  <2> QED
    BY <2>3, <2>4, <2>5, <2>6, <2>7, <2>8 DEF Works
<1> QED
  BY <1>1, <1>2, WorkOfOne DEF Typed

LEMMA TabsStep ==
    ASSUME Typed, Typed', RowsOwn, HandlersOwn, TabsInv, [Next]_vars
    PROVE  TabsInv'
<1>0. /\ req \in [Procs -> Handling] /\ changes \in Nat /\ changes' \in Nat
  BY Constants DEF Typed, ReqType, CountType
<1>1. ASSUME changes' = 0, NEW q \in Procs PROVE TabInv(q)'
  <2>1. changes = 0 /\ ~\E n \in Names : Register(n) \/ Block(n) \/ Delete(n)
    <3>1. ~\E n \in Names : Register(n) \/ Block(n) \/ Delete(n)
      BY <1>0, <1>1 DEF Register, Block, Delete, Others
    <3>2. changes' = changes
      BY <3>1, StepCases, WorkChanges
         DEF vars, Start, Expire, Exchange, Restart, Begins, Callback, GoogleBegin
    <3> QED
      BY <1>1, <3>1, <3>2
  <2>2. TabInv(q)
    BY <2>1 DEF TabsInv
  <2>3. CASE req'[q] = req[q]
    BY <1>1, <2>2, <2>3, TabAfter
  <2>4. ASSUME NEW p \in Procs, Begins(p) PROVE TabInv(q)'
    <3>1. CASE q = p
      <4>1. PICK n \in Attempts :
                  req' = [req EXCEPT ![p] = [Idle EXCEPT !.at = "code", !.attempt = n]]
        BY <2>4, BeginOfOne DEF Typed
      <4>2. req'[q].at = "code" /\ req'[q].try = 1
        BY <1>0, <3>1, <4>1 DEF Idle
      <4> QED
        BY <4>2 DEF TabInv
    <3>2. CASE q # p
      BY <1>0, <2>3, <2>4, <3>2, BeginOfOne DEF Typed
    <3> QED
      BY <3>1, <3>2
  <2>5. ASSUME NEW p \in Procs, Works(p) PROVE TabInv(q)'
    <3>1. CASE q = p
      BY <2>2, <2>5, <3>1, TabWork
    <3>2. CASE q # p
      BY <2>3, <2>5, <3>2, WorkOfOne DEF Typed
    <3> QED
      BY <3>1, <3>2
  <2>6. CASE Restart
    BY <2>6 DEF Restart, TabInv, Idle
  <2> QED
    BY <2>1, <2>3, <2>4, <2>5, <2>6, StepCases DEF vars, Start, Expire, Exchange
<1>2. BothTabsEnter'
  <2>1. CASE refused' = refused
    BY <2>1 DEF TabsInv, BothTabsEnter
  <2>2. ASSUME NEW p \in Procs, NoNameLeft(p) PROVE BothTabsEnter'
    <3>1. /\ req[p].at = "insert" /\ req[p].try = 4
          /\ refused' = refused \cup {[who |-> Person(p), known |-> Bound(Person(p)) # {},
                                       changes |-> changes]}
      BY <2>2 DEF NoNameLeft
    <3>2. Person(p) \in Subjects /\ changes = 0 => Bound(Person(p)) = {}
      BY <3>1 DEF TabsInv, TabInv
    <3> DEFINE known == Bound(Person(p)) # {}
               r == [who |-> Person(p), known |-> known, changes |-> changes]
    <3>3. r.who \in Subjects /\ r.known => r.changes > 0
      <4>1. Person(p) \in Subjects /\ known => changes > 0
        BY <1>0, <3>2
      <4> HIDE DEF known
      <4>2. r.who = Person(p) /\ r.known = known /\ r.changes = changes
        OBVIOUS
      <4> HIDE DEF r
      <4> QED
        BY <4>1, <4>2
    <3>4. \A o \in refused' : o \in refused \/ o = r
      BY <3>1
    <3> HIDE DEF r
    <3> QED
      BY <3>3, <3>4 DEF TabsInv, BothTabsEnter
  <2> QED
    BY <2>1, <2>2, StepCases, WorkChanges
       DEF vars, history, Start, Expire, Exchange, Restart, Begins, Callback, GoogleBegin,
           Register, Block, Delete
<1> QED
  BY <1>1, <1>2 DEF TabsInv

(* BothTabsEnter of SignOn: the second look of oidcProvisionUser after a   *)
(* conflict suffices, for any number of tabs: whoever has an account at    *)
(* the provider is turned away only if others made or deleted accounts.    *)
THEOREM SecondLook == Spec => []BothTabsEnter
<1>1. Init => TabsInv
  BY DEF Init, TabsInv, TabInv, BothTabsEnter, Idle
<1>2. Typed /\ Typed' /\ OwnInv /\ TabsInv /\ [Next]_vars => TabsInv'
  BY TabsStep DEF OwnInv
<1>3. Typed /\ OwnInv /\ [Next]_vars => OwnInv'
  BY RowsStep, OneRowStep, HandlersOwnStep, IssuedStep DEF OwnInv
<1>4. TabsInv => BothTabsEnter
  BY DEF TabsInv
<1> QED
  BY <1>1, <1>2, <1>3, <1>4, InitOwn, TypedAlways, PTL DEF Spec
=============================================================================
