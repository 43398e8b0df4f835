------------------------- MODULE SecondFactorProofs -------------------------
(***************************************************************************)
(* What holds of Sessions and SecondFactor for any number of handlers,     *)
(* requests, seconds, restarts and failing statements, and whatever        *)
(* operations come together.                                               *)
(***************************************************************************)
EXTENDS SecondFactor, TLAPS

Active(p) == req[p].at # "idle"

(* What a step of a handler says of its operation.                         *)
Placed(r) ==
    /\ r.at \in {"update", "cutoff", "erase", "cut"} => r.op \in Revocations
    /\ r.at \in {"unfactor", "unrecover"} => r.op \in {"disable", "reset_2fa"}
    /\ r.at = "consume" => r.op \in {"verify", "disable"}
    /\ r.at = "register" => r.op = "ws"
    /\ r.at = "erase" => r.op = "delete"
    /\ r.op = "ws" => r.tok \in Token /\ r.at \in {"checked", "register"}
AllPlaced == \A p \in Procs : Placed(req[p])
-----------------------------------------------------------------------------
(* Type correctness *)

Factor == [secret : Nat, on : BOOLEAN, last : Int]

\* TypeOK in parts: the provers deal with each better than with all.
RowType == clock \in 1..MaxTime /\ row \in Row /\ pws \in Nat /\ cutoff \in 0..MaxTime
FactorType == totp \in Factor /\ secrets \in Nat /\ confirmed \subseteq Nat /\ swapped \in BOOLEAN
TokenType == tokens \subseteq Token /\ socks \subseteq [tok : Token, straddled : BOOLEAN]
TicketType == /\ tickets \subseteq [n : Number, tries : Nat]
              /\ \A k \in tickets : k.tries <= Attempts
ReqType == req \in [Procs -> Request]
CountType == /\ count \in Number /\ restarts \in 0..MaxRestarts /\ faults \in 0..MaxFaults
             /\ load \in Loads
HistoryType == /\ out \subseteq Token /\ kept \subseteq Token /\ revived \subseteq Token
               /\ cutBy \in [mem : SUBSET Number, row : SUBSET Number]
CodeType == /\ recovery \subseteq Number
            /\ accepted \subseteq Codes /\ reused \subseteq Codes /\ reopened \subseteq Codes

LEMMA TypeParts ==
    TypeOK <=> /\ RowType /\ FactorType /\ TokenType /\ TicketType /\ ReqType
               /\ CountType /\ HistoryType /\ CodeType
BY DEF TypeOK, SessionsTypeOK, RowType, FactorType, TokenType, TicketType, ReqType,
       CountType, HistoryType, CodeType, Factor

LEMMA Constants ==
    /\ MaxTime \in Nat \ {0} /\ MaxRequests \in Nat /\ MaxRestarts \in Nat /\ MaxFaults \in Nat
    /\ Attempts \in Nat /\ StepSeconds \in Nat \ {0}
BY SessionsAssumption, SecondFactorAssumption

(* The steps of a handler, and the others.                                 *)
SessionHandler(p) ==
    \/ Login(p) \/ LoginDirectory(p) \/ ExternalSignIn(p) \/ Register(p)
    \/ CheckBlocked(p) \/ Issue(p)
    \/ ChangeBegin(p) \/ AdminBegin(p) \/ AdminCreate(p) \/ AdminUnblock(p)
    \/ RevokeUpdate(p) \/ RevokeUpdateLost(p) \/ StoreCutoff(p) \/ Erase(p)
    \/ RevokeFinish(p)
    \/ WsBegin(p) \/ WsRegister(p)

FactorHandler(p) ==
    \/ SetupBegin(p) \/ SetupStore(p)
    \/ EnableBegin(p) \/ EnableUpdate(p) \/ PurgeRecovery(p) \/ InsertRecovery(p)
    \/ VerifyBegin(p) \/ DisableBegin(p) \/ Consume(p) \/ UseRecovery(p)
    \/ ResetColumns(p) \/ ResetRecovery(p)

Handler(p) == SessionHandler(p) \/ FactorHandler(p)

LEMMA StepCases ==
    ASSUME [Next]_vars
    PROVE  \/ UNCHANGED vars
           \/ Tick /\ SessionStep
           \/ Restart /\ UNCHANGED factorVars
           \/ Expire
           \/ \E p \in Procs : SessionHandler(p) /\ SessionStep
           \/ \E p \in Procs : FactorHandler(p)
BY DEF Next, SessionStep, SessionsNext, SessionHandler, FactorHandler

LEMMA RequestType ==
    ASSUME NEW r \in Request
    PROVE  /\ r.op \in Ops \cup {"none"} /\ r.at \in Step /\ r.n \in Number
           /\ r.tok \in Token \cup {NoToken} /\ r.stamp \in 0..MaxTime
           /\ r.mine \subseteq Token /\ r.straddled \in BOOLEAN
           /\ r.sec \in Nat /\ r.step \in Int /\ r.ticket \in Number
BY DEF Request

LEMMA RowParts ==
    ASSUME NEW r \in Row
    PROVE  /\ r.there \in BOOLEAN /\ r.pw \in Nat /\ r.must \in BOOLEAN
           /\ r.blocked \in BOOLEAN /\ r.forced \in 0..MaxTime
BY DEF Row

LEMMA IdleType == Idle \in Request
BY Constants DEF Idle, Request, Step, Number, NoToken

(* Which steps change what.                                                *)

LEMMA SessionChanges ==
    ASSUME NEW p \in Procs, SessionHandler(p)
    PROVE  /\ UNCHANGED <<clock, restarts, load>>
           /\ \/ UNCHANGED <<row, pws>>
              \/ LoginDirectory(p) \/ Register(p) \/ AdminCreate(p) \/ AdminUnblock(p)
              \/ RevokeUpdate(p) \/ Erase(p)
           /\ UNCHANGED totp \/ Erase(p)
           /\ \/ UNCHANGED <<cutoff, out, kept, revived, cutBy>>
              \/ RevokeUpdate(p) \/ StoreCutoff(p) \/ Erase(p) \/ RevokeFinish(p)
           /\ UNCHANGED tokens \/ Issue(p) \/ RevokeFinish(p)
           /\ UNCHANGED tickets \/ Issue(p)
           /\ UNCHANGED socks \/ RevokeFinish(p) \/ WsRegister(p)
BY DEF SessionHandler, bounds, history, Fault, NoFault, Begin, Serve,
       Login, LoginDirectory, ExternalSignIn, Register, CheckBlocked, Issue,
       ChangeBegin, AdminBegin, AdminCreate, AdminUnblock, RevokeUpdate, RevokeUpdateLost,
       StoreCutoff, Erase, RevokeFinish, WsBegin, WsRegister

LEMMA FactorChanges ==
    ASSUME NEW p \in Procs, FactorHandler(p)
    PROVE  /\ UNCHANGED <<clock, restarts, load, row, pws, tokens, socks>>
           /\ UNCHANGED <<cutoff, out, kept, revived, cutBy>>
           /\ \/ UNCHANGED totp
              \/ SetupStore(p) \/ EnableUpdate(p) \/ Consume(p) \/ ResetColumns(p)
           /\ UNCHANGED tickets \/ VerifyBegin(p) \/ Consume(p) \/ UseRecovery(p)
           /\ \/ UNCHANGED <<accepted, reused, reopened>>
              \/ EnableUpdate(p) \/ Consume(p) \/ ResetColumns(p)
           /\ UNCHANGED <<secrets, confirmed, swapped>>
              \/ SetupStore(p) \/ EnableBegin(p) \/ EnableUpdate(p)
BY DEF FactorHandler, bounds, history, factorVars, Fault, NoFault, BeginWith,
       SetupBegin, SetupStore, EnableBegin, EnableUpdate, PurgeRecovery,
       InsertRecovery, VerifyBegin, DisableBegin, Consume, UseRecovery, ResetColumns,
       ResetRecovery

(* A step of one handler does to another what Overtake says at most.       *)
LEMMA Others ==
    ASSUME ReqType, NEW p \in Procs, Handler(p), NEW q \in Procs, q # p
    PROVE  \/ req'[q] = req[q]
           \/ /\ RevokeUpdate(p) \/ StoreCutoff(p) \/ Erase(p)
              /\ req[q].op = "ws" /\ req[q].at \in {"checked", "register"}
              /\ req'[q] = [req[q] EXCEPT !.straddled = TRUE]
<1> USE DEF ReqType, Begin, Serve, BeginWith, BeginRevocation, Goto, Done, bounds, Overtake
<1>1. CASE SessionHandler(p)
  BY <1>1 DEF SessionHandler,
       Login, LoginDirectory, ExternalSignIn, Register, CheckBlocked, Issue,
       ChangeBegin, AdminBegin, AdminCreate, AdminUnblock, RevokeUpdate, RevokeUpdateLost,
       StoreCutoff, Erase, RevokeFinish, WsBegin, WsRegister
<1>2. CASE FactorHandler(p)
  BY <1>2 DEF FactorHandler, Passed,
       SetupBegin, SetupStore, EnableBegin, EnableUpdate, PurgeRecovery,
       InsertRecovery, VerifyBegin, DisableBegin, Consume, UseRecovery, ResetColumns,
       ResetRecovery
<1> QED
  BY <1>1, <1>2 DEF Handler
-----------------------------------------------------------------------------
(* Types are kept                                                          *)

LEMMA NoRowType == NoRow \in Row /\ NoFactor \in Factor
BY Constants DEF NoRow, Row, NoFactor, Factor

LEMMA NewRowType ==
    ASSUME NEW n \in Nat, NEW b \in BOOLEAN
    PROVE  /\ [NoRow EXCEPT !.there = TRUE] \in Row
           /\ [NoRow EXCEPT !.there = TRUE, !.pw = n] \in Row
           /\ [NoRow EXCEPT !.there = TRUE, !.pw = n, !.must = TRUE] \in Row
BY NoRowType DEF Row

LEMMA RevokedType ==
    ASSUME row \in Row, pws \in Nat, NEW op, NEW at \in 0..MaxTime
    PROVE  Revoked(op, at) \in Row
<1> DEFINE blocked == row.blocked \/ op = "block"
           pw == IF op \in {"change", "reset"} THEN pws + 1 ELSE row.pw
           must == IF op = "reset" THEN TRUE ELSE IF op = "change" THEN FALSE ELSE row.must
<1>1. row.blocked \in BOOLEAN /\ row.pw \in Nat /\ row.must \in BOOLEAN
  BY RowParts
<1>2. blocked \in BOOLEAN
  OBVIOUS
<1>3. pw \in Nat
  BY <1>1
<1>4. must \in BOOLEAN
  BY <1>1
<1>5. Revoked(op, at) = [row EXCEPT !.forced = at, !.blocked = blocked, !.pw = pw, !.must = must]
  BY DEF Revoked
<1> HIDE DEF blocked, pw, must
<1> QED
  BY <1>2, <1>3, <1>4, <1>5 DEF Row

LEMMA RevokedParts ==
    ASSUME row \in Row, NEW op, NEW at
    PROVE  /\ Revoked(op, at).forced = at
           /\ Revoked(op, at).there = row.there
           /\ op # "block" => Revoked(op, at).blocked = row.blocked
<1> DEFINE blocked == row.blocked \/ op = "block"
           pw == IF op \in {"change", "reset"} THEN pws + 1 ELSE row.pw
           must == IF op = "reset" THEN TRUE ELSE IF op = "change" THEN FALSE ELSE row.must
           r == [row EXCEPT !.forced = at, !.blocked = blocked, !.pw = pw, !.must = must]
<1>1. op # "block" => blocked = row.blocked
  BY RowParts
<1>2. Revoked(op, at) = r
  BY DEF Revoked
<1>3. r.forced = at /\ r.there = row.there /\ r.blocked = blocked
  <2> HIDE DEF blocked, pw, must
  <2> QED
    BY DEF Row
<1> HIDE DEF r, blocked
<1> QED
  BY <1>1, <1>2, <1>3

LEMMA SetUpType ==
    ASSUME NEW f \in Factor, NEW n \in Nat, NEW b \in BOOLEAN
    PROVE  /\ [f EXCEPT !.secret = n] \in Factor
           /\ [f EXCEPT !.secret = n, !.on = b] \in Factor
BY DEF Factor

LEMMA InitType == Init => TypeOK
<1> SUFFICES ASSUME Init PROVE TypeOK
  OBVIOUS
<1> USE Constants DEF Init, SessionsInit
<1>1. RowType
  <2>1. [NoRow EXCEPT !.there = TRUE, !.pw = 1] \in Row
    BY NewRowType
  <2> QED
    BY <2>1 DEF RowType
<1>2. FactorType
  <2>1. [secret |-> 1, on |-> TRUE, last |-> 0] \in Factor
    BY DEF Factor
  <2>2. NoFactor \in Factor
    BY NoRowType
  <2>3. [NoFactor EXCEPT !.secret = 1] \in Factor
    BY <2>2, SetUpType
  <2>4. totp \in Factor
    BY <2>1, <2>2, <2>3
  <2>5. secrets \in Nat
    OBVIOUS
  <2>6. confirmed \subseteq Nat
    OBVIOUS
  <2>7. swapped \in BOOLEAN
    OBVIOUS
  <2> QED
    BY <2>4, <2>5, <2>6, <2>7 DEF FactorType
<1>3. TokenType /\ TicketType
  BY DEF TokenType, TicketType, Token, Number
<1>4. ReqType
  BY IdleType DEF ReqType
<1>5. CountType /\ HistoryType /\ CodeType
  BY DEF CountType, HistoryType, CodeType, Number
<1> QED
  BY <1>1, <1>2, <1>3, <1>4, <1>5, TypeParts

LEMMA RowStep ==
    ASSUME RowType, ReqType, [Next]_vars
    PROVE  RowType'
<1> USE Constants DEF RowType
<1>1. CASE UNCHANGED vars \/ Expire \/ Tick
  BY <1>1 DEF vars, sessionVars, Expire, Tick, bounds
<1>2. CASE Restart
  BY <1>2, RowParts DEF Restart, loadLogoutCutoffs
<1>3. ASSUME NEW p \in Procs, FactorHandler(p) PROVE RowType'
  BY <1>3, FactorChanges
<1>4. ASSUME NEW p \in Procs, SessionHandler(p) PROVE RowType'
  <2>1. clock' \in 1..MaxTime
    BY <1>4, SessionChanges
  <2>2. cutoff' \in 0..MaxTime
    <3>1. CASE StoreCutoff(p)
      <4>1. req[p].stamp \in 0..MaxTime
        BY RequestType DEF ReqType
      <4> QED
        BY <3>1, <4>1 DEF StoreCutoff
    <3>2. CASE RevokeUpdate(p) \/ Erase(p) \/ RevokeFinish(p)
      BY <3>2 DEF RevokeUpdate, Erase, RevokeFinish
    <3> QED
      BY <1>4, <3>1, <3>2, SessionChanges
  <2>3. row' \in Row /\ pws' \in Nat
    <3>1. CASE LoginDirectory(p)
      BY <3>1, NewRowType DEF LoginDirectory
    <3>2. CASE Register(p) \/ AdminCreate(p)
      <4>1. pws + 1 \in Nat
        OBVIOUS
      <4> QED
        BY <3>2, <4>1, NewRowType DEF Register, AdminCreate
    <3>3. CASE AdminUnblock(p)
      BY <3>3 DEF AdminUnblock, Row
    <3>4. CASE RevokeUpdate(p)
      <4>1. req[p].stamp \in 0..MaxTime
        BY RequestType DEF ReqType
      <4> QED
        BY <3>4, <4>1, RevokedType DEF RevokeUpdate
    <3>5. CASE Erase(p)
      BY <3>5, NoRowType DEF Erase
    <3> QED
      BY <1>4, <3>1, <3>2, <3>3, <3>4, <3>5, SessionChanges
  <2> QED
    BY <2>1, <2>2, <2>3
<1> QED
  BY <1>1, <1>2, <1>3, <1>4, StepCases

LEMMA StepsOfCodes ==
    ASSUME RowType
    PROVE  GoodSteps \subseteq Int
BY Constants DEF RowType, GoodSteps, totpStep

LEMMA FactorStep ==
    ASSUME FactorType, RowType, ReqType, [Next]_vars
    PROVE  FactorType'
<1> USE Constants DEF FactorType
<1>1. CASE UNCHANGED vars \/ Expire \/ (Tick /\ SessionStep) \/ (Restart /\ UNCHANGED factorVars)
  BY <1>1 DEF vars, sessionVars, factorVars, Expire, Tick, Restart, SessionStep
<1>2. ASSUME NEW p \in Procs, SessionHandler(p), SessionStep PROVE FactorType'
  BY <1>2, SessionChanges, NoRowType DEF SessionStep, Erase
<1>3. ASSUME NEW p \in Procs, FactorHandler(p) PROVE FactorType'
  <2>1. CASE SetupStore(p)
    <3>1. secrets + 1 \in Nat
      OBVIOUS
    <3>2. WithSecret(secrets + 1) \in Factor
      BY <3>1 DEF WithSecret, Factor
    <3> QED
      BY <2>1, <3>1, <3>2 DEF SetupStore
  <2>2. CASE EnableBegin(p)
    BY <2>2 DEF EnableBegin, Factor
  <2>3. CASE EnableUpdate(p)
    <3>1. req[p].step \in Int
      BY RequestType DEF ReqType
    <3> QED
      BY <2>3, <3>1 DEF EnableUpdate, Factor
  <2>4. CASE Consume(p)
    <3>1. req[p].step \in Int
      BY RequestType DEF ReqType
    <3> QED
      BY <2>4, <3>1 DEF Consume, Factor
  <2>5. CASE ResetColumns(p)
    BY <2>5, NoRowType DEF ResetColumns
  <2> QED
    BY <1>3, <2>1, <2>2, <2>3, <2>4, <2>5, FactorChanges
<1> QED
  BY <1>1, <1>2, <1>3, StepCases

LEMMA TokenStep ==
    ASSUME TokenType, RowType, ReqType, AllPlaced, [Next]_vars
    PROVE  TokenType'
<1> USE Constants DEF TokenType
<1>1. CASE UNCHANGED vars \/ Expire \/ Tick \/ Restart
  BY <1>1 DEF vars, sessionVars, Expire, Tick, Restart
<1>2. ASSUME NEW p \in Procs, FactorHandler(p) PROVE TokenType'
  BY <1>2, FactorChanges
<1>3. ASSUME NEW p \in Procs, SessionHandler(p) PROVE TokenType'
  <2>0. /\ req[p].n \in Number /\ req[p].stamp \in 0..MaxTime
        /\ req[p].straddled \in BOOLEAN /\ clock \in 1..MaxTime
    BY RequestType DEF ReqType, RowType
  <2>1. CASE Issue(p)
    BY <2>0, <2>1, <1>3, SessionChanges DEF Issue, Token
  <2>2. CASE RevokeFinish(p)
    BY <2>0, <2>2 DEF RevokeFinish, Renewed, disconnectUser, Token
  <2>3. CASE WsRegister(p)
    <3>1. req[p].tok \in Token
      BY <2>3 DEF WsRegister, AllPlaced, Placed
    <3> QED
      BY <2>0, <2>3, <3>1 DEF WsRegister
  <2> QED
    BY <1>3, <2>1, <2>2, <2>3, SessionChanges
<1> QED
  BY <1>1, <1>2, <1>3, StepCases

LEMMA TicketStep ==
    ASSUME TicketType, ReqType, [Next]_vars
    PROVE  TicketType'
<1> USE Constants DEF TicketType
<1>1. CASE UNCHANGED vars \/ Expire \/ Tick \/ Restart
  BY <1>1 DEF vars, sessionVars, Expire, Tick, Restart
<1>2. ASSUME NEW p \in Procs, SessionHandler(p) PROVE TicketType'
  <2>1. CASE Issue(p)
    <3>1. req[p].n \in Number
      BY RequestType DEF ReqType
    <3> QED
      BY <2>1, <3>1 DEF Issue
  <2> QED
    BY <1>2, <2>1, SessionChanges
<1>3. ASSUME NEW p \in Procs, FactorHandler(p) PROVE TicketType'
  <2>1. ASSUME NEW k \in tickets, Claim(k) PROVE TicketType'
    <3>1. k \in [n : Number, tries : Nat]
      OBVIOUS
    <3>2. /\ k.tries < Attempts => [k EXCEPT !.tries = @ + 1].tries <= Attempts
          /\ [k EXCEPT !.tries = @ + 1] \in [n : Number, tries : Nat]
      BY <3>1
    <3> QED
      BY <2>1, <3>2 DEF Claim
  <2>2. CASE VerifyBegin(p)
    BY <2>1, <2>2 DEF VerifyBegin
  <2>3. CASE Consume(p) \/ UseRecovery(p)
    BY <2>3 DEF Consume, UseRecovery, Passed
  <2> QED
    BY <1>3, <2>2, <2>3, FactorChanges
<1> QED
  BY <1>1, <1>2, <1>3, StepCases

(* What the handlers make of their own record.                             *)

Good(r) == r \in Request /\ Placed(r)
AllGood == ReqType /\ AllPlaced

LEMMA IdleGood == Good(Idle)
BY IdleType DEF Good, Placed, Idle, Revocations

LEMMA GoodOwn ==
    ASSUME AllGood, NEW p \in Procs, NEW r, Good(r), req' = [req EXCEPT ![p] = r]
    PROVE  AllGood'
BY DEF AllGood, ReqType, AllPlaced, Good

LEMMA GoodGoto ==
    ASSUME AllGood, NEW p \in Procs, NEW at \in Step, Goto(p, at),
           Placed([req[p] EXCEPT !.at = at])
    PROVE  AllGood'
<1>1. [req[p] EXCEPT !.at = at] \in Request
  BY DEF AllGood, ReqType, Request
<1> QED
  BY <1>1, GoodOwn DEF Good, Goto

LEMMA GoodDone ==
    ASSUME AllGood, NEW p \in Procs, Done(p)
    PROVE  AllGood'
BY IdleGood, GoodOwn DEF Done

LEMMA OvertakeGood ==
    ASSUME NEW r, Good(r), NEW steps
    PROVE  Good(Overtake(r, steps))
BY DEF Good, Request, Placed, Overtake

(* The records of requests that have just come.                            *)
StartsWell(op, at) ==
    /\ at \in {"update", "cutoff"} => op \in Revocations
    /\ at = "unfactor" => op \in {"disable", "reset_2fa"}
    /\ at = "consume" => op \in {"verify", "disable"}
    /\ op = "ws" => at = "checked"
    /\ at \notin {"erase", "cut", "unrecover", "register"}

LEMMA StartPlain ==
    ASSUME CountType, count < MaxRequests, NEW op \in Ops, NEW at \in Step,
           StartsWell(op, at), op # "ws"
    PROVE  Good([Idle EXCEPT !.op = op, !.at = at, !.n = count + 1])
<1>1. count + 1 \in Number
  BY Constants DEF CountType, Number
<1> DEFINE r == [Idle EXCEPT !.op = op, !.at = at, !.n = count + 1]
<1>2. r \in Request /\ r.op = op /\ r.at = at /\ (op = "ws" => r.tok \in Token)
  BY <1>1, IdleType DEF Request
<1>3. Good(r)
  <2> HIDE DEF r
  <2> QED
    BY <1>2 DEF Good, Placed, StartsWell
<1> QED
  BY <1>3

LEMMA StartShown ==
    ASSUME CountType, count < MaxRequests, NEW op \in Ops, NEW at \in Step, NEW t \in Token,
           StartsWell(op, at)
    PROVE  Good([Idle EXCEPT !.op = op, !.at = at, !.n = count + 1, !.tok = t])
<1>1. count + 1 \in Number
  BY Constants DEF CountType, Number
<1> DEFINE r == [Idle EXCEPT !.op = op, !.at = at, !.n = count + 1, !.tok = t]
<1>2. r \in Request /\ r.op = op /\ r.at = at /\ (op = "ws" => r.tok \in Token)
  BY <1>1, IdleType DEF Request
<1>3. Good(r)
  <2> HIDE DEF r
  <2> QED
    BY <1>2 DEF Good, Placed, StartsWell
<1> QED
  BY <1>3

LEMMA StartRevocation ==
    ASSUME CountType, count < MaxRequests, NEW op \in Ops, NEW at \in Step,
           NEW t \in Token \cup {NoToken}, NEW stamp \in 0..MaxTime,
           NEW mine \in SUBSET Token,
           StartsWell(op, at), op # "ws"
    PROVE  Good([Idle EXCEPT !.op = op, !.at = at, !.n = count + 1, !.tok = t,
                        !.stamp = stamp, !.mine = mine])
<1>1. count + 1 \in Number
  BY Constants DEF CountType, Number
<1> DEFINE r == [Idle EXCEPT !.op = op, !.at = at, !.n = count + 1, !.tok = t,
                        !.stamp = stamp, !.mine = mine]
<1>2. r \in Request /\ r.op = op /\ r.at = at /\ (op = "ws" => r.tok \in Token)
  BY <1>1, IdleType DEF Request
<1>3. Good(r)
  <2> HIDE DEF r
  <2> QED
    BY <1>2 DEF Good, Placed, StartsWell
<1> QED
  BY <1>3

LEMMA StartEnable ==
    ASSUME CountType, count < MaxRequests, NEW op \in Ops, NEW at \in Step,
           NEW t \in Token, NEW sec \in Nat, NEW step \in Int,
           StartsWell(op, at)
    PROVE  Good([Idle EXCEPT !.op = op, !.at = at, !.n = count + 1, !.tok = t,
                        !.sec = sec, !.step = step])
<1>1. count + 1 \in Number
  BY Constants DEF CountType, Number
<1> DEFINE r == [Idle EXCEPT !.op = op, !.at = at, !.n = count + 1, !.tok = t,
                        !.sec = sec, !.step = step]
<1>2. r \in Request /\ r.op = op /\ r.at = at /\ (op = "ws" => r.tok \in Token)
  BY <1>1, IdleType DEF Request
<1>3. Good(r)
  <2> HIDE DEF r
  <2> QED
    BY <1>2 DEF Good, Placed, StartsWell
<1> QED
  BY <1>3

LEMMA StartCode ==
    ASSUME CountType, FactorType, count < MaxRequests, NEW op \in {"verify", "disable"},
           NEW t \in Token \cup {NoToken}, NEW step \in Int, NEW ticket \in Number
    PROVE  Good(WithCode(op, step, t, ticket))
<1>1. count + 1 \in Number /\ totp.secret \in Nat
  BY Constants DEF CountType, Number, FactorType, Factor
<1> DEFINE r == WithCode(op, step, t, ticket)
<1>2. r \in Request /\ r.op = op /\ r.at = "consume"
  <2>1. op \in Ops /\ "consume" \in Step
    BY DEF Ops, Step
  <2> QED
    BY <1>1, <2>1, IdleType DEF Request, WithCode
<1>3. Good(r)
  <2> HIDE DEF r
  <2> QED
    BY <1>2 DEF Good, Placed
<1> QED
  BY <1>3

LEMMA StartTicket ==
    ASSUME CountType, count < MaxRequests, NEW op \in Ops, NEW at \in Step, NEW ticket \in Number,
           StartsWell(op, at), op # "ws"
    PROVE  Good([Idle EXCEPT !.op = op, !.at = at, !.n = count + 1, !.ticket = ticket])
<1>1. count + 1 \in Number
  BY Constants DEF CountType, Number
<1> DEFINE r == [Idle EXCEPT !.op = op, !.at = at, !.n = count + 1, !.ticket = ticket]
<1>2. r \in Request /\ r.op = op /\ r.at = at /\ (op = "ws" => r.tok \in Token)
  BY <1>1, IdleType DEF Request
<1>3. Good(r)
  <2> HIDE DEF r
  <2> QED
    BY <1>2 DEF Good, Placed, StartsWell
<1> QED
  BY <1>3

LEMMA ReqStepSession ==
    ASSUME RowType, FactorType, TokenType, CountType, AllGood,
           NEW p \in Procs, SessionHandler(p)
    PROVE  AllGood'
<1> USE DEF Ops, Step
<1>0. /\ req[p] \in Request /\ Placed(req[p])
      /\ clock \in 0..MaxTime /\ NoToken \in Token \cup {NoToken} /\ 0 \in Number
  BY Constants DEF AllGood, ReqType, AllPlaced, RowType, Number
<1>1. ASSUME NEW op \in Ops, NEW at \in {"checked", "issue"}, op # "ws", Begin(p, op, at)
      PROVE  AllGood'
  <2>1. Good([Idle EXCEPT !.op = op, !.at = at, !.n = count + 1])
    BY <1>1, StartPlain DEF Begin, StartsWell
  <2> QED
    BY <1>1, <2>1, GoodOwn DEF Begin
<1>2. CASE Login(p) \/ LoginDirectory(p) \/ ExternalSignIn(p) \/ Register(p)
  BY <1>1, <1>2 DEF Login, LoginDirectory, ExternalSignIn, Register
<1>3. CASE AdminCreate(p) \/ AdminUnblock(p)
  BY <1>3 DEF AdminCreate, AdminUnblock, Serve, AllGood, ReqType, AllPlaced
<1>4. CASE Issue(p) \/ RevokeFinish(p) \/ WsRegister(p)
  BY <1>4, GoodDone DEF Issue, RevokeFinish, WsRegister
<1>5. CASE CheckBlocked(p)
  <2> DEFINE next == IF req[p].op = "ws" THEN "register" ELSE "issue"
  <2>1. ASSUME NEW b \in BOOLEAN PROVE Good([req[p] EXCEPT !.at = next, !.straddled = b])
    <3> DEFINE r == [req[p] EXCEPT !.at = next, !.straddled = b]
    <3>1. r \in Request /\ r.op = req[p].op /\ r.tok = req[p].tok /\ r.at = next
      <4>1. next \in Step
        OBVIOUS
      <4> HIDE DEF next
      <4> QED
        BY ZenonT(30), <1>0, <4>1 DEF Request
    <3>2. Good(r)
      <4> HIDE DEF r
      <4> QED
        BY <1>0, <3>1 DEF Good, Placed
    <3> QED
      BY <3>2
  <2>2. CASE req' = [req EXCEPT ![p].at = next, ![p].straddled = (req[p].op = "ws")]
    <3>1. (req[p].op = "ws") \in BOOLEAN
      OBVIOUS
    <3> QED
      BY ZenonT(30), <2>1, <2>2, <3>1, GoodOwn
  <2>3. CASE Goto(p, next)
    <3>1. Good([req[p] EXCEPT !.at = next])
      BY <1>0 DEF Good, Request, Placed
    <3> QED
      BY <2>3, <3>1, GoodOwn DEF Goto
  <2> QED
    BY <1>5, <2>2, <2>3, GoodDone DEF CheckBlocked
<1>6. ASSUME NEW op \in Revocations, NEW at \in {"update", "cutoff", "unfactor"},
             at = "unfactor" => op = "reset_2fa",
             NEW t \in Token \cup {NoToken}, BeginRevocation(p, op, at, t)
      PROVE  AllGood'
  <2> DEFINE mine == {o \in tokens : o.iat <= clock}
  <2>1. mine \in SUBSET Token
    BY DEF TokenType
  <2>2. Good([Idle EXCEPT !.op = op, !.at = at, !.n = count + 1, !.tok = t,
                          !.stamp = clock, !.mine = mine])
    <3> HIDE DEF mine
    <3>1. op \in Ops /\ op # "ws" /\ at \in Step
      BY DEF Revocations
    <3> QED
      BY ZenonT(30), <1>0, <1>6, <2>1, <3>1, StartRevocation DEF BeginRevocation, StartsWell
  <2> QED
    BY <1>6, <2>2, GoodOwn DEF BeginRevocation
<1>7. CASE ChangeBegin(p)
  BY <1>6, <1>7 DEF ChangeBegin, TokenType, Revocations
<1>8. CASE AdminBegin(p)
  BY <1>6, <1>8 DEF AdminBegin, Revocations
<1>9. CASE WsBegin(p)
  <2>1. PICK t \in tokens : BeginWith(p, "ws", "checked", t)
    BY <1>9 DEF WsBegin
  <2>2. Good([Idle EXCEPT !.op = "ws", !.at = "checked", !.n = count + 1, !.tok = t])
    BY <2>1, StartShown DEF BeginWith, TokenType, StartsWell
  <2> QED
    BY <2>1, <2>2, GoodOwn DEF BeginWith
<1>10. ASSUME NEW q \in Procs, NEW steps
       PROVE  Good(req[q]) /\ Good(Overtake(req[q], steps))
  BY OvertakeGood DEF AllGood, ReqType, AllPlaced, Good
<1>11. CASE RevokeUpdate(p)
  <2>1. Good([req[p] EXCEPT !.at = "cutoff"])
    BY <1>0, <1>11 DEF Good, Request, Placed, RevokeUpdate
  <2> QED
    BY <1>11, <2>1, <1>10 DEF RevokeUpdate, AllGood, ReqType, AllPlaced, Good
<1>12. CASE RevokeUpdateLost(p)
  <2>1. req[p].at = "update" => Placed([req[p] EXCEPT !.at = "cutoff"])
    BY <1>0 DEF Request, Placed
  <2> QED
    BY <1>12, <2>1, GoodDone, GoodGoto DEF RevokeUpdateLost
<1>13. CASE StoreCutoff(p)
  <2>1. Good([req[p] EXCEPT !.at = IF req[p].op = "delete" THEN "erase" ELSE "cut"])
    BY <1>0, <1>13 DEF Good, Request, Placed, StoreCutoff
  <2> QED
    BY <1>13, <2>1, <1>10 DEF StoreCutoff, AllGood, ReqType, AllPlaced, Good
<1>14. CASE Erase(p)
  <2>1. Good([req[p] EXCEPT !.at = "cut"])
    BY <1>0, <1>14 DEF Good, Request, Placed, Erase
  <2> QED
    BY <1>14, <2>1, <1>10, GoodOwn DEF Erase, Goto, AllGood, ReqType, AllPlaced, Good
<1> QED
  BY <1>2, <1>3, <1>4, <1>5, <1>7, <1>8, <1>9, <1>11, <1>12, <1>13, <1>14 DEF SessionHandler

LEMMA ReqStepFactor ==
    ASSUME RowType, FactorType, TokenType, TicketType, CountType, AllGood,
           NEW p \in Procs, FactorHandler(p)
    PROVE  AllGood'
<1> USE DEF Ops, Step
<1>0. /\ req[p] \in Request /\ Placed(req[p])
      /\ clock \in 0..MaxTime /\ NoToken \in Token \cup {NoToken} /\ 0 \in Number
      /\ totp.secret \in Nat
  BY Constants DEF AllGood, ReqType, AllPlaced, RowType, Number, FactorType, Factor
<1>1. CASE SetupBegin(p)
  <2>1. PICK t \in tokens : BeginWith(p, "setup", "store", t)
    BY <1>1 DEF SetupBegin
  <2>2. Good([Idle EXCEPT !.op = "setup", !.at = "store", !.n = count + 1, !.tok = t])
    BY <2>1, StartShown DEF BeginWith, TokenType, StartsWell
  <2> QED
    BY <2>1, <2>2, GoodOwn DEF BeginWith
<1>2. CASE SetupStore(p)
  BY <1>2, GoodDone DEF SetupStore
<1>3. CASE EnableBegin(p)
  <2>1. PICK t \in tokens, step \in GoodSteps :
           req' = [req EXCEPT ![p] = [Idle EXCEPT !.op = "enable", !.at = "enable",
                        !.n = count + 1, !.tok = t, !.sec = totp.secret, !.step = step]]
    BY <1>3 DEF EnableBegin
  <2>2. step \in Int /\ t \in Token /\ count < MaxRequests
    BY <1>3, StepsOfCodes DEF TokenType, EnableBegin
  <2>3. Good([Idle EXCEPT !.op = "enable", !.at = "enable",
                    !.n = count + 1, !.tok = t, !.sec = totp.secret, !.step = step])
    BY <1>0, <2>2, StartEnable DEF StartsWell
  <2> QED
    BY <2>1, <2>3, GoodOwn
<1>4. CASE EnableUpdate(p)
  <2>1. Placed([req[p] EXCEPT !.at = "purge"])
    BY <1>0, <1>4 DEF Placed, Request, EnableUpdate
  <2> QED
    BY <1>4, <2>1, GoodGoto DEF EnableUpdate
<1>5. CASE PurgeRecovery(p) \/ InsertRecovery(p)
  <2>1. Placed([req[p] EXCEPT !.at = "insert"])
    BY <1>0, <1>5 DEF Placed, Request, PurgeRecovery, InsertRecovery
  <2> QED
    BY <1>5, <2>1, GoodGoto, GoodDone DEF PurgeRecovery, InsertRecovery
<1>6. CASE VerifyBegin(p)
  <2>1. PICK k \in tickets, step \in GoodSteps :
           req' = IF k.tries < Attempts /\ GoodCode(step)
                    THEN [req EXCEPT ![p] = WithCode("verify", step, NoToken, k.n)]
                    ELSE req
    BY <1>6 DEF VerifyBegin
  <2>2. step \in Int /\ k.n \in Number /\ count < MaxRequests
    BY <1>6, StepsOfCodes DEF TicketType, VerifyBegin
  <2>3. Good(WithCode("verify", step, NoToken, k.n))
    BY <1>0, <2>2, StartCode
  <2> QED
    BY <2>1, <2>3, GoodOwn DEF AllGood, ReqType, AllPlaced
<1>7. CASE DisableBegin(p)
  <2>1. PICK t \in tokens, step \in GoodSteps :
           req' = [req EXCEPT ![p] = WithCode("disable", step, t, 0)]
    BY <1>7 DEF DisableBegin
  <2>2. step \in Int /\ t \in Token /\ count < MaxRequests
    BY <1>7, StepsOfCodes DEF TokenType, DisableBegin
  <2>3. Good(WithCode("disable", step, t, 0))
    BY <1>0, <2>2, StartCode
  <2> QED
    BY <2>1, <2>3, GoodOwn
<1>8. CASE Consume(p)
  <2>1. Good([req[p] EXCEPT !.at = IF req[p].op = "verify" THEN "checked" ELSE "unfactor"])
    <3>1. req[p].op \in {"verify", "disable"}
      BY <1>0, <1>8 DEF Placed, Consume
    <3> QED
      BY <1>0, <3>1 DEF Good, Placed, Request
  <2> QED
    BY <1>8, <2>1, GoodOwn, GoodDone DEF Consume, Passed
<1>9. CASE UseRecovery(p)
  <2>1. count < MaxRequests
    BY <1>9 DEF UseRecovery
  <2>2. ASSUME NEW k \in tickets
        PROVE  Good([Idle EXCEPT !.op = "verify", !.at = "checked", !.n = count + 1,
                                 !.ticket = k.n])
    BY <2>1, StartTicket DEF StartsWell, TicketType
  <2>3. ASSUME NEW t \in tokens
        PROVE  Good([Idle EXCEPT !.op = "disable", !.at = "unfactor", !.n = count + 1,
                                 !.tok = t])
    BY <2>1, StartShown DEF StartsWell, TokenType
  <2> QED
    BY <1>9, <2>2, <2>3, GoodOwn DEF UseRecovery
<1>10. CASE ResetColumns(p)
  <2>1. req[p].at = "unfactor" => Placed([req[p] EXCEPT !.at = "unrecover"])
    BY <1>0 DEF Placed, Request
  <2> QED
    BY <1>10, <2>1, GoodGoto, GoodDone DEF ResetColumns
<1>11. CASE ResetRecovery(p)
  <2>1. ASSUME req[p].at = "unrecover", req[p].op # "disable",
               req' = [req EXCEPT ![p].at = "update", ![p].stamp = clock]
        PROVE  AllGood'
    <3>1. Good([req[p] EXCEPT !.at = "update", !.stamp = clock])
      BY <1>0, <2>1 DEF Good, Placed, Request, Revocations
    <3>2. req' = [req EXCEPT ![p] = [req[p] EXCEPT !.at = "update", !.stamp = clock]]
      BY <2>1
    <3> QED
      BY <3>1, <3>2, GoodOwn
  <2> QED
    BY <1>11, <2>1, GoodDone DEF ResetRecovery
<1> QED
  BY <1>1, <1>2, <1>3, <1>4, <1>5, <1>6, <1>7, <1>8, <1>9, <1>10, <1>11 DEF FactorHandler

LEMMA ReqStep ==
    ASSUME RowType, FactorType, TokenType, TicketType, CountType, AllGood, [Next]_vars
    PROVE  AllGood'
<1>1. CASE UNCHANGED vars \/ Expire \/ Tick
  BY <1>1 DEF vars, sessionVars, Expire, Tick, AllGood, ReqType, AllPlaced
<1>2. CASE Restart
  BY <1>2, IdleGood DEF Restart, AllGood, ReqType, AllPlaced, Good
<1> QED
  BY <1>1, <1>2, ReqStepSession, ReqStepFactor, StepCases

LEMMA CountChanges ==
    ASSUME NEW p \in Procs, Handler(p)
    PROVE  /\ UNCHANGED count \/ (count < MaxRequests /\ count' = count + 1)
           /\ UNCHANGED faults \/ (faults < MaxFaults /\ faults' = faults + 1)
<1> USE DEF Fault, NoFault, bounds, Begin, Serve, BeginWith, BeginRevocation
<1>1. CASE SessionHandler(p)
  BY <1>1 DEF SessionHandler,
       Login, LoginDirectory, ExternalSignIn, Register, CheckBlocked, Issue,
       ChangeBegin, AdminBegin, AdminCreate, AdminUnblock, RevokeUpdate, RevokeUpdateLost,
       StoreCutoff, Erase, RevokeFinish, WsBegin, WsRegister
<1>2. CASE FactorHandler(p)
  BY <1>2 DEF FactorHandler,
       SetupBegin, SetupStore, EnableBegin, EnableUpdate, PurgeRecovery,
       InsertRecovery, VerifyBegin, DisableBegin, Consume, UseRecovery, ResetColumns,
       ResetRecovery
<1> QED
  BY <1>1, <1>2 DEF Handler

LEMMA CountStep ==
    ASSUME CountType, [Next]_vars
    PROVE  CountType'
<1> USE Constants DEF CountType, Number
<1>1. CASE UNCHANGED vars \/ Expire \/ Tick \/ Restart
  BY <1>1 DEF vars, sessionVars, bounds, Expire, Tick, Restart
<1>2. ASSUME NEW p \in Procs, Handler(p) PROVE CountType'
  <2>1. UNCHANGED <<restarts, load>>
    BY <1>2, SessionChanges, FactorChanges DEF Handler
  <2> QED
    BY <1>2, <2>1, CountChanges
<1> QED
  BY <1>1, <1>2, StepCases DEF Handler

LEMMA HistoryStep ==
    ASSUME HistoryType, TokenType, ReqType, [Next]_vars
    PROVE  HistoryType'
<1>1. CASE UNCHANGED vars \/ Expire \/ (Tick /\ SessionStep)
  BY <1>1 DEF HistoryType, vars, sessionVars, Expire, Tick, history
<1>2. CASE Restart
  BY <1>2 DEF HistoryType, Restart
<1>3. ASSUME NEW p \in Procs, FactorHandler(p) PROVE HistoryType'
  BY <1>3, FactorChanges DEF HistoryType
<1>4. ASSUME NEW p \in Procs, SessionHandler(p) PROVE HistoryType'
  <2>1. req[p].mine \subseteq Token /\ req[p].n \in Number
    BY RequestType DEF ReqType
  <2>2. \A low, high : Between(low, high) \subseteq Token
    BY DEF Between, TokenType
  <2>3. CASE RevokeUpdate(p) \/ StoreCutoff(p) \/ Erase(p) \/ RevokeFinish(p)
    BY <2>1, <2>2, <2>3 DEF HistoryType, RevokeUpdate, StoreCutoff, Erase, RevokeFinish
  <2> QED
    BY <1>4, <2>3, SessionChanges DEF HistoryType
<1> QED
  BY <1>1, <1>2, <1>3, <1>4, StepCases

LEMMA CodeStep ==
    ASSUME CodeType, ReqType, [Next]_vars
    PROVE  CodeType'
<1> USE DEF CodeType, Reopen
<1>1. CASE UNCHANGED vars \/ Expire \/ SessionStep \/ (Restart /\ UNCHANGED factorVars)
  BY <1>1 DEF vars, factorVars, Expire, SessionStep
<1>2. ASSUME NEW p \in Procs, FactorHandler(p) PROVE CodeType'
  <2>1. req[p].n \in Number /\ Code(req[p].sec, req[p].step) \in Codes
    BY RequestType DEF ReqType, Code, Codes
  <2>2. recovery' \subseteq Number
    BY <1>2, <2>1 DEF FactorHandler, factorVars,
       SetupBegin, SetupStore, EnableBegin, EnableUpdate, PurgeRecovery,
       InsertRecovery, VerifyBegin, DisableBegin, Consume, UseRecovery, ResetColumns,
       ResetRecovery
  <2>3. CASE EnableUpdate(p) \/ Consume(p) \/ ResetColumns(p)
    BY <2>1, <2>2, <2>3 DEF EnableUpdate, Consume, ResetColumns, Accept
  <2> QED
    BY <1>2, <2>2, <2>3, FactorChanges
<1> QED
  BY <1>1, <1>2, StepCases

(* TypeOK of Sessions and SecondFactor, for every instance.                *)
THEOREM TypeCorrect == Spec => [](TypeOK /\ AllPlaced)
<1>1. Init => TypeOK /\ AllPlaced
  BY InitType, IdleGood DEF Init, SessionsInit, AllPlaced, Good
<1>2. TypeOK /\ AllPlaced /\ [Next]_vars => (TypeOK /\ AllPlaced)'
  <2> SUFFICES ASSUME TypeOK, AllPlaced, [Next]_vars PROVE TypeOK' /\ AllPlaced'
    OBVIOUS
  <2>1. AllGood
    BY TypeParts DEF AllGood
  <2>2. /\ RowType' /\ FactorType' /\ TokenType' /\ TicketType' /\ AllGood'
        /\ CountType' /\ HistoryType' /\ CodeType'
    BY <2>1, TypeParts, RowStep, FactorStep, TokenStep, TicketStep, ReqStep, CountStep,
       HistoryStep, CodeStep
  <2>3. TypeOK'
    BY <2>2 DEF AllGood, TypeOK, SessionsTypeOK, RowType, FactorType, TokenType, TicketType,
                ReqType, CountType, HistoryType, CodeType, Factor
  <2> QED
    BY <2>2, <2>3 DEF AllGood
<1> QED
  BY <1>1, <1>2, PTL DEF Spec
-----------------------------------------------------------------------------
(* The numbers of requests                                                 *)

(* A request that is being served, or that was, has a number of its own:   *)
(* no other handler and no token that is already out carries it.           *)
TokensNumbered == \A t \in tokens : t.n <= count
ActiveNumbered ==
    \A p \in Procs : Active(p) =>
        /\ req[p].n \in 1..count
        /\ \A t \in tokens : t.n # req[p].n
        /\ \A q \in Procs : Active(q) /\ q # p => req[q].n # req[p].n
CutsNumbered == cutBy.mem \subseteq 0..count /\ cutBy.row \subseteq 0..count
Numbered == TokensNumbered /\ ActiveNumbered /\ CutsNumbered

(* The record of a handler after a step of its own.                        *)
Ends(p) == req'[p] = Idle /\ UNCHANGED count
Goes(p) == /\ Active(p) /\ UNCHANGED count /\ req'[p].at # "idle"
           /\ req'[p].n = req[p].n /\ req'[p].op = req[p].op /\ req'[p].tok = req[p].tok
           /\ req'[p].mine = req[p].mine
Serves(p) == ~Active(p) /\ count' = count + 1 /\ req'[p] = req[p]
Starts(p) == /\ ~Active(p) /\ count' = count + 1
             /\ req'[p].at # "idle" /\ req'[p].n = count + 1

LEMMA OwnStep ==
    ASSUME ReqType, NEW p \in Procs, Handler(p)
    PROVE  Ends(p) \/ Goes(p) \/ Serves(p) \/ Starts(p)
<1> USE DEF Begin, Serve, BeginWith, BeginRevocation, Active, Idle
<1>0. req \in [Procs -> Request] /\ req[p] \in Request
  BY DEF ReqType
<1>1. ASSUME UNCHANGED count, Done(p) PROVE Ends(p)
  BY <1>0, <1>1 DEF Ends, Done
<1>2. ASSUME Active(p), UNCHANGED count, NEW at, at # "idle", Goto(p, at) PROVE Goes(p)
  BY <1>0, <1>2 DEF Goes, Goto, Request
<1>3. ASSUME Active(p), UNCHANGED count, NEW at, at # "idle", NEW b,
             req'[p] = [req[p] EXCEPT !.at = at, !.straddled = b]
      PROVE  Goes(p)
  BY <1>0, <1>3 DEF Goes, Request
<1>4. ASSUME Active(p), UNCHANGED count, NEW at, at # "idle", NEW c,
             req'[p] = [req[p] EXCEPT !.at = at, !.stamp = c]
      PROVE  Goes(p)
  BY <1>0, <1>4 DEF Goes, Request
<1>5. ASSUME Active(p), UNCHANGED count, NEW at, at # "idle",
             req'[p] = [req[p] EXCEPT !.at = at]
      PROVE  Goes(p)
  BY <1>0, <1>5 DEF Goes, Request
<1>6. CASE Login(p) \/ LoginDirectory(p) \/ ExternalSignIn(p) \/ Register(p)
  <2>1. \E op \in Ops, at \in {"checked", "issue"} : Begin(p, op, at)
    BY <1>6 DEF Login, LoginDirectory, ExternalSignIn, Register, Ops
  <2> QED
    BY <1>0, <2>1 DEF Starts
<1>7. CASE AdminCreate(p) \/ AdminUnblock(p)
  BY <1>0, <1>7 DEF Serves, AdminCreate, AdminUnblock
<1>8. CASE ChangeBegin(p)
  BY <1>0, <1>8 DEF Starts, ChangeBegin
<1>9. CASE WsBegin(p) \/ SetupBegin(p)
  BY ZenonT(30), <1>0, <1>9 DEF Starts, WsBegin, SetupBegin
<1>10. CASE AdminBegin(p)
  BY <1>0, <1>10 DEF Starts, AdminBegin
<1>11. CASE Issue(p) \/ RevokeFinish(p) \/ WsRegister(p) \/ SetupStore(p)
  BY <1>1, <1>11 DEF Issue, RevokeFinish, WsRegister, SetupStore
<1>12. CASE CheckBlocked(p)
  <2>1. Active(p) /\ UNCHANGED count
    BY <1>12 DEF CheckBlocked
  <2> DEFINE next == IF req[p].op = "ws" THEN "register" ELSE "issue"
  <2>2. next # "idle"
    OBVIOUS
  <2>3. Goto(p, next) \/ Done(p)
        \/ req'[p] = [req[p] EXCEPT !.at = next, !.straddled = (req[p].op = "ws")]
    BY <1>0, <1>12 DEF CheckBlocked
  <2> HIDE DEF next
  <2> QED
    BY <1>1, <1>2, <1>3, <2>1, <2>2, <2>3
<1>13. CASE RevokeUpdate(p) \/ StoreCutoff(p) \/ Erase(p)
  <2>1. Active(p) /\ UNCHANGED count
    BY <1>13 DEF RevokeUpdate, StoreCutoff, Erase
  <2>2. \E at \in {"cutoff", "erase", "cut"} : req'[p] = [req[p] EXCEPT !.at = at]
    BY <1>0, <1>13 DEF RevokeUpdate, StoreCutoff, Erase, Goto
  <2> QED
    BY <1>5, <2>1, <2>2
<1>14. CASE RevokeUpdateLost(p)
  BY <1>1, <1>2, <1>14 DEF RevokeUpdateLost
<1>15. CASE EnableBegin(p)
  BY <1>0, <1>15 DEF Starts, EnableBegin
<1>16. CASE DisableBegin(p)
  BY <1>0, <1>16 DEF Starts, DisableBegin, WithCode
<1>17. CASE UseRecovery(p)
  <2>1. \/ \E k \in tickets : req' = [req EXCEPT ![p] = [Idle EXCEPT !.op = "verify",
                     !.at = "checked", !.n = count + 1, !.ticket = k.n]]
        \/ \E t \in tokens : req' = [req EXCEPT ![p] = [Idle EXCEPT !.op = "disable",
                     !.at = "unfactor", !.n = count + 1, !.tok = t]]
    BY <1>17 DEF UseRecovery
  <2>2. ~Active(p) /\ count' = count + 1
    BY <1>17 DEF UseRecovery
  <2> QED
    BY ZenonT(30), <1>0, <2>1, <2>2 DEF Starts
<1>18. CASE VerifyBegin(p)
  BY <1>0, <1>18 DEF Starts, Serves, VerifyBegin, WithCode
<1>19. CASE \/ EnableUpdate(p) \/ PurgeRecovery(p) \/ InsertRecovery(p) \/ ResetColumns(p)
  BY <1>1, <1>2, <1>19 DEF EnableUpdate, PurgeRecovery, InsertRecovery, ResetColumns
<1>20. CASE Consume(p)
  <2>1. Active(p) /\ UNCHANGED count
    BY <1>20 DEF Consume
  <2>2. Done(p) \/ \E at \in {"checked", "unfactor"} : req'[p] = [req[p] EXCEPT !.at = at]
    BY <1>0, <1>20 DEF Consume, Passed
  <2> QED
    BY <1>1, <1>5, <2>1, <2>2
<1>21. CASE ResetRecovery(p)
  <2>1. Active(p) /\ UNCHANGED count
    BY <1>21 DEF ResetRecovery
  <2>2. Done(p) \/ req'[p] = [req[p] EXCEPT !.at = "update", !.stamp = clock]
    BY <1>0, <1>21 DEF ResetRecovery
  <2> QED
    BY <1>1, <1>4, <2>1, <2>2
<1> QED
  BY <1>6, <1>10, <1>11, <1>12, <1>13, <1>14, <1>15, <1>18, <1>19, <1>20, <1>21,
     <1>7, <1>8, <1>9, <1>16, <1>17
     DEF Handler, SessionHandler, FactorHandler

LEMMA NewTokens ==
    ASSUME ReqType, NEW p \in Procs, Handler(p)
    PROVE  /\ tokens \subseteq tokens'
           /\ \A t \in tokens' \ tokens : Active(p) /\ t.n = req[p].n /\ Ends(p)
<1> USE DEF ReqType, Ends, Active, Done, Idle
<1>1. CASE Issue(p)
  BY <1>1 DEF Issue
<1>2. CASE RevokeFinish(p)
  BY <1>2 DEF RevokeFinish, Renewed
<1> QED
  BY <1>1, <1>2, SessionChanges, FactorChanges DEF Handler

LEMMA NewCuts ==
    ASSUME HistoryType, NEW p \in Procs, Handler(p)
    PROVE  /\ cutBy'.mem \subseteq cutBy.mem \cup {req[p].n}
           /\ cutBy'.row \subseteq cutBy.row \cup {req[p].n}
           /\ UNCHANGED cutBy \/ Active(p)
BY SessionChanges, FactorChanges
   DEF Handler, HistoryType, Active, RevokeUpdate, StoreCutoff, Erase, RevokeFinish

LEMMA NumberedStep ==
    ASSUME TypeOK, Numbered, [Next]_vars
    PROVE  Numbered'
<1> USE DEF Numbered, TokensNumbered, ActiveNumbered, CutsNumbered, Active
<1>0. ReqType /\ HistoryType /\ count \in Nat /\ TokenType
  BY TypeParts, Constants DEF CountType, Number
<1>1. CASE UNCHANGED vars \/ Expire \/ Tick
  BY <1>1 DEF vars, sessionVars, history, Expire, Tick
<1>2. CASE Restart
  BY <1>2, <1>0 DEF Restart, Idle, HistoryType
<1>3. ASSUME NEW p \in Procs, Handler(p) PROVE Numbered'
  <2>1. \A q \in Procs : q # p => req'[q].at = req[q].at /\ req'[q].n = req[q].n
    <3> SUFFICES ASSUME NEW q \in Procs, q # p
                 PROVE  req'[q].at = req[q].at /\ req'[q].n = req[q].n
      OBVIOUS
    <3>1. req[q] \in Request
      BY <1>0 DEF ReqType
    <3> QED
      BY ZenonT(30), <1>0, <1>3, <3>1, Others DEF Request
  <2>2. count' \in Nat /\ count <= count'
    BY <1>0, <1>3, OwnStep DEF Ends, Goes, Serves, Starts
  <2>3. \A t \in tokens' : t.n \in Nat
    <3>1. \A t \in tokens : t.n \in Nat
      BY <1>0, Constants DEF TokenType, Token, Number
    <3>2. req[p].n \in Nat
      BY <1>0, RequestType, Constants DEF ReqType, Number
    <3> QED
      BY <1>0, <1>3, <3>1, <3>2, NewTokens
  <2>4. TokensNumbered'
    BY <1>0, <1>3, <2>2, <2>3, NewTokens
  <2>5. ActiveNumbered'
    <3> SUFFICES ASSUME NEW q \in Procs, Active(q)'
                 PROVE  /\ req'[q].n \in 1..count'
                        /\ \A t \in tokens' : t.n # req'[q].n
                        /\ \A o \in Procs : Active(o)' /\ o # q => req'[o].n # req'[q].n
      OBVIOUS
    <3>1. CASE q # p
      <4>1. Active(q) /\ req'[q].n = req[q].n
        BY <2>1, <3>1
      <4> QED
        BY <1>0, <1>3, <2>1, <2>2, <2>3, <3>1, <4>1, NewTokens, OwnStep
           DEF Ends, Goes, Serves, Starts, Idle
    <3>2. CASE q = p
      <4>1. Goes(p) \/ Starts(p)
        BY <1>0, <1>3, <3>2, OwnStep DEF Ends, Serves, Idle
      <4>2. ~Ends(p)
        BY <3>2 DEF Ends, Idle
      <4>3. tokens' = tokens
        BY <1>0, <1>3, <4>2, NewTokens
      <4> QED
        BY <1>0, <2>1, <2>2, <2>3, <3>2, <4>1, <4>3 DEF Goes, Starts
    <3> QED
      BY <3>1, <3>2
  <2>6. CutsNumbered'
    BY <1>0, <1>3, <2>2, NewCuts
  <2> QED
    BY <2>4, <2>5, <2>6
<1> QED
  BY <1>1, <1>2, <1>3, StepCases DEF Handler

(* Which step of its handler takes a request where.                        *)
LEMMA Arrivals ==
    ASSUME ReqType, NEW p \in Procs, Handler(p)
    PROVE  /\ req'[p].at \in {"erase", "cut"} => StoreCutoff(p) \/ Erase(p)
           /\ req'[p].at = "cutoff" => RevokeUpdate(p) \/ RevokeUpdateLost(p) \/ AdminBegin(p)
           /\ req'[p].at = "register" => CheckBlocked(p)
           /\ req'[p].at = "enable" => EnableBegin(p)
<1> USE DEF Begin, Serve, BeginWith, BeginRevocation, Goto, Done, Idle
<1>0. req \in [Procs -> Request] /\ req[p] \in Request
  BY DEF ReqType
<1>1. CASE Login(p) \/ LoginDirectory(p) \/ ExternalSignIn(p) \/ Register(p)
  <2>1. \E op \in Ops, at \in {"checked", "issue"} : Begin(p, op, at)
    BY <1>1 DEF Login, LoginDirectory, ExternalSignIn, Register, Ops
  <2> QED
    BY <1>0, <2>1
<1>2. CASE AdminCreate(p) \/ AdminUnblock(p)
  BY <1>0, <1>2 DEF AdminCreate, AdminUnblock
<1>3. CASE ChangeBegin(p)
  BY <1>0, <1>3 DEF ChangeBegin
<1>4. CASE WsBegin(p) \/ SetupBegin(p)
  <2>1. PICK t, op, at : at \in {"checked", "store"} /\ BeginWith(p, op, at, t)
    BY <1>4 DEF WsBegin, SetupBegin
  <2>2. req'[p].at = at
    BY <1>0, <2>1
  <2> QED
    BY <2>1, <2>2
<1>5. CASE \/ Issue(p) \/ RevokeFinish(p) \/ WsRegister(p) \/ SetupStore(p)
           \/ PurgeRecovery(p) \/ InsertRecovery(p) \/ EnableUpdate(p) \/ ResetColumns(p)
  BY <1>0, <1>5 DEF Request, Issue, RevokeFinish, WsRegister, SetupStore, PurgeRecovery,
     InsertRecovery, EnableUpdate, ResetColumns
<1>6. CASE CheckBlocked(p)
  BY <1>0, <1>6 DEF Request, CheckBlocked
<1>7. CASE RevokeUpdate(p)
  BY <1>0, <1>7 DEF Request, RevokeUpdate
<1>8. CASE RevokeUpdateLost(p)
  BY <1>0, <1>8 DEF Request, RevokeUpdateLost
<1>9. CASE StoreCutoff(p) \/ Erase(p)
  BY <1>0, <1>9 DEF Request, StoreCutoff, Erase
<1>10. CASE EnableBegin(p)
  BY ZenonT(30), <1>0, <1>10 DEF EnableBegin
<1>11. CASE VerifyBegin(p)
  BY <1>0, <1>11 DEF VerifyBegin, WithCode
<1>12. CASE DisableBegin(p)
  BY <1>0, <1>12 DEF DisableBegin, WithCode
<1>13. CASE UseRecovery(p)
  <2>1. \/ \E k \in tickets : req' = [req EXCEPT ![p] = [Idle EXCEPT !.op = "verify",
                     !.at = "checked", !.n = count + 1, !.ticket = k.n]]
        \/ \E t \in tokens : req' = [req EXCEPT ![p] = [Idle EXCEPT !.op = "disable",
                     !.at = "unfactor", !.n = count + 1, !.tok = t]]
    BY <1>13 DEF UseRecovery
  <2> QED
    BY <1>0, <2>1
<1>14. CASE Consume(p)
  BY <1>0, <1>14 DEF Request, Consume, Passed
<1>15. CASE ResetRecovery(p)
  BY <1>0, <1>15 DEF Request, ResetRecovery
<1>16. CASE AdminBegin(p)
  <2>1. \E op, at : at \in {"update", "cutoff", "unfactor"}
                    /\ BeginRevocation(p, op, at, NoToken)
    BY ZenonT(30), <1>16 DEF AdminBegin
  <2> QED
    BY <1>0, <1>16, <2>1
<1> QED
  BY <1>1, <1>2, <1>3, <1>4, <1>5, <1>6, <1>7, <1>8, <1>9, <1>10, <1>11, <1>12, <1>13, <1>14,
     <1>15, <1>16 DEF Handler, SessionHandler, FactorHandler
-----------------------------------------------------------------------------
(* Signed out stays out                                                    *)

(* A stamp of the second at puts the token out: or it did, and a smaller   *)
(* one was written over it since.                                          *)
Gone(t, at) == t \in tokens /\ (t.iat <= at \/ t \in revived)

(* What a revocation is to put out was there when it was asked for.        *)
MineWell(p) ==
    /\ req[p].stamp <= clock
    /\ \A t \in req[p].mine : t \in tokens /\ t.iat <= req[p].stamp

(* The map's stamp puts out what has been answered, and what is about to   *)
(* be; the row's stamp what a restart is to find.                          *)
OutGone == \A t \in out : Gone(t, cutoff)
KeptGone == /\ \A t \in kept : Gone(t, row.forced)
            /\ ~row.there => kept = {}
MineGone == \A p \in Procs :
    /\ MineWell(p)
    /\ req[p].at \in {"erase", "cut"} => \A t \in req[p].mine : Gone(t, cutoff)
OutInv == OutGone /\ KeptGone /\ MineGone

LEMMA MineOwn ==
    ASSUME ReqType, NEW p \in Procs, Handler(p)
    PROVE  \/ req'[p].mine = {} /\ req'[p].stamp = 0
           \/ req'[p].mine = req[p].mine /\ req'[p].stamp \in {req[p].stamp, clock}
           \/ req'[p].mine = {o \in tokens : o.iat <= clock} /\ req'[p].stamp = clock
<1> USE DEF Goto, Done, Idle
<1>0. req \in [Procs -> Request] /\ req[p] \in Request
  BY DEF ReqType
<1>1. CASE Login(p) \/ LoginDirectory(p) \/ ExternalSignIn(p) \/ Register(p)
  <2>1. PICK op, at : Begin(p, op, at)
    BY <1>1 DEF Login, LoginDirectory, ExternalSignIn, Register
  <2> QED
    BY <1>0, <2>1 DEF Begin
<1>2. CASE AdminCreate(p) \/ AdminUnblock(p)
  BY <1>0, <1>2 DEF AdminCreate, AdminUnblock, Serve
<1>3. CASE ChangeBegin(p) \/ AdminBegin(p)
  <2>1. PICK op, at, t : BeginRevocation(p, op, at, t)
    BY <1>3 DEF ChangeBegin, AdminBegin
  <2> QED
    BY <1>0, <2>1 DEF BeginRevocation
<1>4. CASE WsBegin(p) \/ SetupBegin(p)
  <2>1. PICK op, at, t : BeginWith(p, op, at, t)
    BY <1>4 DEF WsBegin, SetupBegin
  <2> QED
    BY <1>0, <2>1 DEF BeginWith
<1>5. CASE \/ Issue(p) \/ RevokeFinish(p) \/ WsRegister(p) \/ SetupStore(p)
           \/ PurgeRecovery(p) \/ InsertRecovery(p) \/ EnableUpdate(p) \/ ResetColumns(p)
  BY <1>0, <1>5 DEF Request, Issue, RevokeFinish, WsRegister, SetupStore, PurgeRecovery,
     InsertRecovery, EnableUpdate, ResetColumns
<1>6. CASE CheckBlocked(p)
  BY <1>0, <1>6 DEF Request, CheckBlocked
<1>7. CASE RevokeUpdate(p) \/ RevokeUpdateLost(p)
  BY <1>0, <1>7 DEF Request, RevokeUpdate, RevokeUpdateLost
<1>8. CASE StoreCutoff(p) \/ Erase(p)
  BY <1>0, <1>8 DEF Request, StoreCutoff, Erase
<1>9. CASE EnableBegin(p)
  BY <1>0, <1>9 DEF EnableBegin
<1>10. CASE VerifyBegin(p)
  BY <1>0, <1>10 DEF VerifyBegin, WithCode
<1>14. CASE DisableBegin(p)
  BY <1>0, <1>14 DEF DisableBegin, WithCode
<1>11. CASE UseRecovery(p)
  <2>1. \/ \E k \in tickets : req' = [req EXCEPT ![p] = [Idle EXCEPT !.op = "verify",
                     !.at = "checked", !.n = count + 1, !.ticket = k.n]]
        \/ \E t \in tokens : req' = [req EXCEPT ![p] = [Idle EXCEPT !.op = "disable",
                     !.at = "unfactor", !.n = count + 1, !.tok = t]]
    BY <1>11 DEF UseRecovery
  <2> QED
    BY ZenonT(30), <1>0, <2>1
<1>12. CASE Consume(p)
  BY <1>0, <1>12 DEF Request, Consume, Passed
<1>13. CASE ResetRecovery(p)
  BY <1>0, <1>13 DEF Request, ResetRecovery
<1> QED
  BY <1>1, <1>2, <1>3, <1>4, <1>5, <1>6, <1>7, <1>8, <1>9, <1>10, <1>11, <1>12, <1>13, <1>14
     DEF Handler, SessionHandler, FactorHandler

LEMMA OthersKeep ==
    ASSUME ReqType, NEW p \in Procs, Handler(p), NEW q \in Procs, q # p
    PROVE  /\ req'[q].op = req[q].op /\ req'[q].at = req[q].at /\ req'[q].n = req[q].n
           /\ req'[q].tok = req[q].tok /\ req'[q].stamp = req[q].stamp
           /\ req'[q].mine = req[q].mine /\ req'[q].sec = req[q].sec
<1>1. req[q] \in Request
  BY DEF ReqType
<1>2. req'[q] = req[q] \/ req'[q] = [req[q] EXCEPT !.straddled = TRUE]
  BY Others
<1> QED
  BY <1>1, <1>2 DEF Request

(* A stamp written over another one: what the other put out is out still,  *)
(* or among the revived.                                                   *)
LEMMA GoneOver ==
    ASSUME NEW t, NEW old \in Nat, NEW new \in Nat, t.iat \in Nat, Gone(t, old),
           revived' = revived \cup Between(new, old), tokens \subseteq tokens'
    PROVE  t \in tokens' /\ (t.iat <= new \/ t \in revived')
BY DEF Gone, Between

LEMMA OutStep ==
    ASSUME TypeOK, OutInv, [Next]_vars
    PROVE  OutInv'
<1> USE DEF OutInv, OutGone, KeptGone, MineGone
<1>0. /\ ReqType /\ RowType /\ TokenType /\ clock \in Nat /\ row.forced \in Nat /\ cutoff \in Nat
      /\ row.there \in BOOLEAN
  BY TypeParts, RowParts, Constants DEF RowType
<1>1. \A t \in tokens : t.iat \in Nat
  BY <1>0, Constants DEF TokenType, Token
<1>2. CASE UNCHANGED vars \/ Expire
  BY <1>2 DEF vars, sessionVars, history, Expire, Gone, MineWell
<1>3. CASE Tick /\ SessionStep
  <2>1. \A p \in Procs : req[p].stamp \in Nat
    BY <1>0, RequestType, Constants DEF ReqType
  <2> QED
    BY <1>0, <1>3, <2>1 DEF Tick, history, Gone, MineWell
<1>4. CASE Restart
  BY <1>0, <1>4 DEF Restart, loadLogoutCutoffs, Idle, Gone, MineWell
<1>5. ASSUME NEW p \in Procs, Handler(p) PROVE OutInv'
  <2>0. clock' = clock /\ tokens \subseteq tokens'
    BY <1>0, <1>5, SessionChanges, FactorChanges, NewTokens DEF Handler
  <2>1. \A q \in Procs : MineWell(q)'
    <3> SUFFICES ASSUME NEW q \in Procs PROVE MineWell(q)'
      OBVIOUS
    <3>1. MineWell(q) /\ req[q].stamp \in Nat
      BY <1>0, RequestType, Constants DEF ReqType
    <3>2. CASE q # p
      BY <1>0, <1>5, <2>0, <3>1, <3>2, OthersKeep DEF MineWell
    <3>3. CASE q = p
      <4>1. CASE req'[p].mine = {} /\ req'[p].stamp = 0
        BY <1>0, <2>0, <3>3, <4>1 DEF MineWell
      <4>2. CASE req'[p].mine = req[p].mine /\ req'[p].stamp \in {req[p].stamp, clock}
        BY <1>0, <1>1, <2>0, <3>1, <3>3, <4>2 DEF MineWell
      <4>3. CASE req'[p].mine = {o \in tokens : o.iat <= clock} /\ req'[p].stamp = clock
        BY <1>0, <2>0, <3>3, <4>3 DEF MineWell
      <4> QED
        BY <1>0, <1>5, <4>1, <4>2, <4>3, MineOwn
    <3> QED
      BY <3>2, <3>3
  <2>2. OutGone'
    <3>1. CASE StoreCutoff(p)
      <4>1. cutoff' \in Nat /\ revived' = revived \cup Between(cutoff', cutoff) /\ out' = out
        BY <1>0, <3>1, RequestType, Constants DEF StoreCutoff, ReqType
      <4> QED
        BY <1>0, <1>1, <2>0, <4>1, GoneOver DEF Gone
    <3>2. CASE RevokeFinish(p)
      BY <1>0, <2>0, <3>2 DEF RevokeFinish, Gone
    <3>3. CASE RevokeUpdate(p) \/ Erase(p)
      BY <2>0, <3>3 DEF RevokeUpdate, Erase, Gone
    <3> QED
      BY <1>5, <2>0, <3>1, <3>2, <3>3, SessionChanges, FactorChanges DEF Handler, Gone
  <2>3. KeptGone'
    <3>1. CASE RevokeUpdate(p)
      <4>1. /\ row'.forced = req[p].stamp /\ req[p].stamp \in Nat /\ row'.there = row.there
            /\ row.there
        <5>1. row' = Revoked(req[p].op, req[p].stamp) /\ row.there
          BY <3>1 DEF RevokeUpdate
        <5>2. req[p].stamp \in Nat
          BY <1>0, RequestType, Constants DEF ReqType
        <5> QED
          BY <1>0, <5>1, <5>2, RevokedParts DEF RowType
      <4>2. revived' = revived \cup Between(row'.forced, row.forced) /\ kept' = kept \cup req[p].mine
        BY <3>1, <4>1 DEF RevokeUpdate
      <4>3. \A t \in kept : Gone(t, row.forced)'
        <5> SUFFICES ASSUME NEW t \in kept PROVE Gone(t, row.forced)'
          OBVIOUS
        <5>1. Gone(t, row.forced) /\ t.iat \in Nat
          BY <1>1 DEF Gone
        <5> QED
          BY <1>0, <2>0, <4>1, <4>2, <5>1 DEF Gone, Between
      <4>4. \A t \in req[p].mine : Gone(t, row.forced)'
        BY <2>0, <4>1 DEF Gone, MineWell, MineGone
      <4>5. \A t \in kept' : Gone(t, row.forced)'
        BY <4>2, <4>3, <4>4
      <4> QED
        BY <4>1, <4>5
    <3>2. CASE Erase(p)
      BY <1>0, <2>0, <3>2 DEF Erase, Gone
    <3>3. CASE LoginDirectory(p) \/ Register(p) \/ AdminCreate(p) \/ AdminUnblock(p)
      <4>1. UNCHANGED <<kept, revived>> /\ (kept # {} => row'.forced = row.forced /\ row'.there)
        BY <1>0, <3>3 DEF LoginDirectory, Register, AdminCreate, AdminUnblock, history, Row, RowType
      <4> QED
        BY <2>0, <4>1 DEF Gone
    <3>4. CASE StoreCutoff(p) \/ RevokeFinish(p)
      BY <2>0, <3>4 DEF StoreCutoff, RevokeFinish, Gone
    <3> QED
      BY <1>5, <2>0, <3>1, <3>2, <3>3, <3>4, SessionChanges, FactorChanges DEF Handler, Gone
  <2>4. ASSUME NEW q \in Procs, req'[q].at \in {"erase", "cut"}, NEW t \in req'[q].mine
        PROVE  Gone(t, cutoff)'
    <3>1. MineWell(q) /\ req[q].stamp \in Nat
      BY <1>0, RequestType, Constants DEF ReqType
    <3>2. CASE StoreCutoff(p)
      <4>1. cutoff' \in Nat /\ revived' = revived \cup Between(cutoff', cutoff)
        BY <1>0, <3>2, RequestType, Constants DEF StoreCutoff, ReqType
      <4>2. CASE q = p
        <5>1. t \in req[p].mine /\ req[p].stamp <= cutoff'
          BY <1>0, <2>4, <3>1, <3>2, <4>2 DEF StoreCutoff, ReqType, Request, MineWell
        <5> QED
          BY <1>0, <1>1, <2>0, <3>1, <4>1, <4>2, <5>1 DEF Gone, MineWell
      <4>3. CASE q # p
        BY <1>0, <1>1, <1>5, <2>0, <2>4, <3>1, <4>1, <4>3, OthersKeep, GoneOver DEF Gone, MineWell
      <4> QED
        BY <4>2, <4>3
    <3>3. CASE ~StoreCutoff(p)
      <4>1. cutoff' = cutoff /\ revived \subseteq revived'
        BY <1>5, <3>3, SessionChanges, FactorChanges
           DEF Handler, RevokeUpdate, Erase, RevokeFinish
      <4>2. t \in req[q].mine /\ req[q].at \in {"erase", "cut"}
        <5>1. CASE q = p
          <6>1. Erase(p)
            BY <1>0, <1>5, <2>4, <3>3, <5>1, Arrivals
          <6> QED
            BY <1>0, <2>4, <5>1, <6>1 DEF Erase, Goto, ReqType, Request
        <5>2. CASE q # p
          BY <1>0, <1>5, <2>4, <5>2, OthersKeep
        <5> QED
          BY <5>1, <5>2
      <4> QED
        BY <2>0, <4>1, <4>2 DEF Gone
    <3> QED
      BY <3>2, <3>3
  <2> QED
    BY <2>1, <2>2, <2>3, <2>4
<1> QED
  BY <1>2, <1>3, <1>4, <1>5, StepCases DEF Handler

\* Every invariant below rests on the types and on the places of handlers.
Typed == TypeOK /\ AllPlaced

(* SignedOutStaysOut of Sessions: a token that was out when a sign-out, a  *)
(* block, a change or reset of the password or a deletion was asked for is *)
(* refused from the answer on, across restarts, whichever handlers overlap.*)
THEOREM SignedOut == Spec => []SignedOutStaysOut
<1>1. Init => OutInv
  BY Constants DEF Init, SessionsInit, OutInv, OutGone, KeptGone, MineGone, MineWell, Idle
<1>2. Typed /\ OutInv /\ [Next]_vars => OutInv'
  BY OutStep DEF Typed
<1>3. Typed /\ OutInv => SignedOutStaysOut
  <2> SUFFICES ASSUME Typed, OutInv, NEW t \in out \ revived PROVE ~Accepted(t)
    BY DEF SignedOutStaysOut
  <2>1. t \in tokens /\ t.iat <= cutoff
    BY DEF OutInv, OutGone, Gone
  <2>2. t.iat \in Nat /\ cutoff \in Nat
    BY <2>1, TypeParts, Constants DEF Typed, TokenType, RowType, Token
  <2> QED
    BY <2>1, <2>2 DEF Accepted
<1> QED
  BY <1>1, <1>2, <1>3, TypeCorrect, PTL DEF Spec, Typed
-----------------------------------------------------------------------------
(* Sockets                                                                 *)

(* A revocation that has done its part to the map, or to the row, and has  *)
(* yet to close the sockets.                                               *)
Cutting == \E p \in Procs : req[p].op \in Revocations /\ req[p].at \in {"erase", "cut"}
Deleting == \E p \in Procs : req[p].op = "delete" /\ req[p].at = "cut"
Blocking == \E p \in Procs : req[p].op = "block" /\ req[p].at \in {"cutoff", "cut"}

SocketsOpen == \A s \in socks :
    s.straddled \/ /\ Accepted(s.tok) \/ Cutting
                   /\ row.there \/ Deleting
                   /\ ~row.blocked \/ Blocking

\* What a handshake has checked is true still, or it is noted in straddled.
Shaken(r) ==
    /\ r.at \in {"checked", "register"} => Accepted(r.tok)
    /\ r.at = "register" => row.there /\ ~row.blocked
HandshakesShaken == \A p \in Procs : req[p].op = "ws" /\ ~req[p].straddled => Shaken(req[p])
SockInv == SocketsOpen /\ HandshakesShaken

(* Which handlers change what a socket rests on.                           *)
LEMMA RowKept ==
    ASSUME TypeOK, NEW p \in Procs, Handler(p)
    PROVE  /\ UNCHANGED cutoff \/ StoreCutoff(p)
           /\ row.there => row'.there \/ Erase(p)
           /\ ~row.blocked => ~row'.blocked \/ (RevokeUpdate(p) /\ req[p].op = "block")
<1>0. row \in Row
  BY TypeParts DEF RowType
<1>1. CASE RevokeUpdate(p)
  <2>1. row' = Revoked(req[p].op, req[p].stamp) /\ cutoff' = cutoff
    BY <1>1 DEF RevokeUpdate
  <2> QED
    BY <1>0, <1>1, <2>1, RevokedParts
<1>2. CASE LoginDirectory(p) \/ Register(p) \/ AdminCreate(p) \/ AdminUnblock(p)
  BY <1>0, <1>2 DEF Row, LoginDirectory, Register, AdminCreate, AdminUnblock, NoRow
<1>3. CASE Erase(p)
  BY <1>3 DEF Erase, NoRow
<1>4. CASE StoreCutoff(p) \/ RevokeFinish(p)
  BY <1>4 DEF StoreCutoff, RevokeFinish
<1> QED
  BY <1>1, <1>2, <1>3, <1>4, SessionChanges, FactorChanges DEF Handler

LEMMA CuttingStep ==
    ASSUME ReqType, NEW p \in Procs, Handler(p), ~RevokeFinish(p)
    PROVE  /\ Cutting => Cutting'
           /\ Deleting => Deleting'
           /\ Blocking => Blocking'
<1>1. \A q \in Procs : q # p => req'[q].op = req[q].op /\ req'[q].at = req[q].at
  BY OthersKeep
<1>2. CASE ~StoreCutoff(p) /\ ~Erase(p)
  <2>1. req[p].at \notin {"erase", "cut", "cutoff"}
    BY <1>2 DEF Handler, SessionHandler, FactorHandler, Begin, Serve, BeginWith,
       BeginRevocation, Login, LoginDirectory, ExternalSignIn, Register, CheckBlocked, Issue,
       ChangeBegin, AdminBegin, AdminCreate, AdminUnblock, RevokeUpdate, RevokeUpdateLost,
       WsBegin, WsRegister, SetupBegin, SetupStore, EnableBegin, EnableUpdate, PurgeRecovery,
       InsertRecovery, VerifyBegin, DisableBegin, Consume, UseRecovery, ResetColumns,
       ResetRecovery
  <2> QED
    BY <1>1, <2>1 DEF Cutting, Deleting, Blocking
<1>3. CASE StoreCutoff(p)
  <2>1. /\ req[p].at = "cutoff" /\ req'[p].op = req[p].op
        /\ req'[p].at = IF req[p].op = "delete" THEN "erase" ELSE "cut"
    BY <1>3 DEF StoreCutoff, ReqType, Request
  <2> QED
    BY <1>1, <2>1 DEF Cutting, Deleting, Blocking
<1>4. CASE Erase(p)
  <2>1. req[p].at = "erase" /\ req'[p].op = req[p].op /\ req'[p].at = "cut"
    BY <1>4 DEF Erase, Goto, ReqType, Request
  <2> QED
    BY <1>1, <2>1 DEF Cutting, Deleting, Blocking
<1> QED
  BY <1>2, <1>3, <1>4

LEMMA SocketsStep ==
    ASSUME TypeOK, AllPlaced, SockInv, NEW p \in Procs, Handler(p)
    PROVE  SocketsOpen'
<1>0. ReqType /\ req[p] \in Request /\ Placed(req[p])
  BY TypeParts DEF ReqType, AllPlaced
<1>1. CASE RevokeFinish(p)
  BY <1>1 DEF RevokeFinish, disconnectUser, SocketsOpen
<1>2. CASE WsRegister(p)
  <2>1. UNCHANGED <<row, cutoff>> /\ socks' = socks \cup {[tok |-> req[p].tok, straddled |-> req[p].straddled]}
    BY <1>2 DEF WsRegister
  <2>2. /\ Cutting => Cutting'
        /\ Deleting => Deleting'
        /\ Blocking => Blocking'
    BY <1>0, <1>2, CuttingStep DEF WsRegister, RevokeFinish
  <2>3. req[p].straddled \/ (Accepted(req[p].tok) /\ row.there /\ ~row.blocked)
    BY <1>0, <1>2 DEF WsRegister, SockInv, HandshakesShaken, Shaken, Placed
  <2> QED
    BY <2>1, <2>2, <2>3 DEF SockInv, SocketsOpen, Accepted
<1>3. CASE ~RevokeFinish(p) /\ ~WsRegister(p)
  <2>1. UNCHANGED socks
    BY <1>3, SessionChanges, FactorChanges DEF Handler
  <2>2. /\ Cutting => Cutting'
        /\ Deleting => Deleting'
        /\ Blocking => Blocking'
    BY <1>0, <1>3, CuttingStep
  <2>3. UNCHANGED cutoff \/ Cutting'
    <3>1. CASE StoreCutoff(p)
      <4>1. req'[p].op = req[p].op /\ req'[p].at \in {"erase", "cut"} /\ req[p].op \in Revocations
        BY <1>0, <3>1 DEF StoreCutoff, ReqType, Request, Placed
      <4> QED
        BY <4>1 DEF Cutting
    <3> QED
      BY <3>1, RowKept
  <2>4. row.there => row'.there \/ Deleting'
    <3>1. CASE Erase(p) /\ ~row'.there /\ row.there
      <4>1. req[p].op = "delete" /\ req'[p].op = req[p].op /\ req'[p].at = "cut"
        BY <1>0, <3>1 DEF Erase, Goto, ReqType, Request, Placed
      <4> QED
        BY <4>1 DEF Deleting
    <3> QED
      BY <3>1, RowKept
  <2>5. ~row.blocked => ~row'.blocked \/ Blocking'
    <3>1. CASE RevokeUpdate(p) /\ req[p].op = "block"
      <4>1. req'[p].op = "block" /\ req'[p].at = "cutoff"
        BY <1>0, <3>1 DEF RevokeUpdate, ReqType, Request
      <4> QED
        BY <4>1 DEF Blocking
    <3> QED
      BY <3>1, RowKept
  <2> QED
    BY <2>1, <2>2, <2>3, <2>4, <2>5 DEF SockInv, SocketsOpen, Accepted
<1> QED
  BY <1>1, <1>2, <1>3

\* A step of another handler leaves a handshake true, or notes it.
LEMMA ShakenOther ==
    ASSUME TypeOK, NEW p \in Procs, Handler(p), NEW q \in Procs, q # p,
           req[q].op = "ws", ~req'[q].straddled, Shaken(req[q])
    PROVE  Shaken(req[q])' /\ ~req[q].straddled
<1>0. ReqType /\ req[q] \in Request
  BY TypeParts DEF ReqType
<1>1. /\ req'[q].op = req[q].op /\ req'[q].at = req[q].at /\ req'[q].tok = req[q].tok
  BY <1>0, OthersKeep
<1>2. ~req[q].straddled
  <2>1. req'[q] = req[q] \/ req'[q] = [req[q] EXCEPT !.straddled = TRUE]
    BY <1>0, Others
  <2> QED
    BY <1>0, <2>1 DEF Request
<1>3. req[q].at \in {"checked", "register"} => req[q].tok.iat > cutoff'
  <2>1. CASE StoreCutoff(p)
    <3>1. req'[q] = IF req[q].tok.iat <= cutoff'
                    THEN Overtake(req[q], {"checked", "register"}) ELSE req[q]
      BY <2>1 DEF StoreCutoff
    <3>2. req[q].tok.iat \in Nat /\ cutoff' \in Nat
      <4>1. req[q].tok.iat \in Nat
        BY <1>0, Constants DEF Request, Token, NoToken
      <4>2. cutoff' \in Nat
        BY <1>0, <2>1, TypeParts, RequestType, Constants DEF StoreCutoff, ReqType, RowType
      <4> QED
        BY <4>1, <4>2
    <3>3. req[q].at \in {"checked", "register"} => ~(req[q].tok.iat <= cutoff')
      BY <1>0, <3>1 DEF Overtake, Request
    <3> QED
      BY <3>2, <3>3
  <2>2. CASE UNCHANGED cutoff
    BY <2>2 DEF Shaken, Accepted
  <2> QED
    BY <2>1, <2>2, RowKept
<1>4. req[q].at = "register" => row'.there /\ ~row'.blocked
  <2> SUFFICES ASSUME req[q].at = "register" PROVE row'.there /\ ~row'.blocked
    OBVIOUS
  <2>1. row.there /\ ~row.blocked
    BY DEF Shaken
  <2>2. ASSUME Erase(p) PROVE row' = row
    <3>1. row' # row => req'[q] = Overtake(req[q], {"register"})
      BY <2>2 DEF Erase
    <3> QED
      BY <1>0, <3>1 DEF Overtake, Request
  <2>3. ~(RevokeUpdate(p) /\ req[p].op = "block")
    <3>1. RevokeUpdate(p) /\ req[p].op = "block" => req'[q] = Overtake(req[q], {"register"})
      BY DEF RevokeUpdate
    <3> QED
      BY <1>0, <3>1 DEF Overtake, Request
  <2> QED
    BY <2>1, <2>2, <2>3, RowKept
<1> QED
  BY <1>1, <1>2, <1>3, <1>4 DEF Shaken, Accepted

LEMMA WsArrivals ==
    ASSUME ReqType, AllPlaced, NEW p \in Procs, Handler(p), req'[p].op = "ws"
    PROVE  WsBegin(p) \/ CheckBlocked(p) \/ req'[p].at = "idle"
<1> USE DEF Goto, Done, Idle
<1>0. req \in [Procs -> Request] /\ req[p] \in Request /\ Placed(req[p])
  BY DEF ReqType, AllPlaced
<1>1. CASE Login(p) \/ LoginDirectory(p) \/ ExternalSignIn(p) \/ Register(p)
  <2>1. PICK op, at : op # "ws" /\ Begin(p, op, at)
    BY <1>1 DEF Login, LoginDirectory, ExternalSignIn, Register
  <2>2. req'[p].op = op
    BY <1>0, <2>1 DEF Begin
  <2> QED
    BY <2>1, <2>2
<1>2. CASE AdminCreate(p) \/ AdminUnblock(p)
  BY <1>0, <1>2 DEF AdminCreate, AdminUnblock, Serve
<1>3. CASE ChangeBegin(p) \/ AdminBegin(p)
  <2>1. PICK op, at, t : op # "ws" /\ BeginRevocation(p, op, at, t)
    BY <1>3 DEF ChangeBegin, AdminBegin, Revocations
  <2>2. req'[p].op = op
    BY <1>0, <2>1 DEF BeginRevocation
  <2> QED
    BY <2>1, <2>2
<1>4. CASE SetupBegin(p)
  <2>1. PICK t : BeginWith(p, "setup", "store", t)
    BY <1>4 DEF SetupBegin
  <2> QED
    BY <1>0, <2>1 DEF BeginWith
<1>5. CASE \/ Issue(p) \/ RevokeFinish(p) \/ WsRegister(p) \/ SetupStore(p)
           \/ PurgeRecovery(p) \/ InsertRecovery(p) \/ EnableUpdate(p) \/ ResetColumns(p)
  BY <1>0, <1>5 DEF Request, Placed, Issue, RevokeFinish, WsRegister, SetupStore, PurgeRecovery,
     InsertRecovery, EnableUpdate, ResetColumns
<1>6. CASE RevokeUpdate(p) \/ RevokeUpdateLost(p)
  BY <1>0, <1>6 DEF Request, Placed, RevokeUpdate, RevokeUpdateLost
<1>7. CASE StoreCutoff(p) \/ Erase(p)
  BY <1>0, <1>7 DEF Request, Placed, StoreCutoff, Erase
<1>8. CASE EnableBegin(p)
  BY <1>0, <1>8 DEF EnableBegin
<1>9. CASE VerifyBegin(p)
  BY <1>0, <1>9 DEF VerifyBegin, WithCode
<1>10. CASE DisableBegin(p)
  BY <1>0, <1>10 DEF DisableBegin, WithCode
<1>11. CASE UseRecovery(p)
  <2>1. \/ \E k \in tickets : req' = [req EXCEPT ![p] = [Idle EXCEPT !.op = "verify",
                     !.at = "checked", !.n = count + 1, !.ticket = k.n]]
        \/ \E t \in tokens : req' = [req EXCEPT ![p] = [Idle EXCEPT !.op = "disable",
                     !.at = "unfactor", !.n = count + 1, !.tok = t]]
    BY <1>11 DEF UseRecovery
  <2> QED
    BY ZenonT(30), <1>0, <2>1
<1>12. CASE Consume(p)
  BY <1>0, <1>12 DEF Request, Placed, Consume, Passed
<1>13. CASE ResetRecovery(p)
  BY <1>0, <1>13 DEF Request, Placed, ResetRecovery
<1> QED
  BY <1>1, <1>2, <1>3, <1>4, <1>5, <1>6, <1>7, <1>8, <1>9, <1>10, <1>11, <1>12, <1>13
     DEF Handler, SessionHandler, FactorHandler

LEMMA ShakenOwn ==
    ASSUME TypeOK, AllPlaced, NEW p \in Procs, Handler(p), req'[p].op = "ws", ~req'[p].straddled,
           req[p].op = "ws" /\ ~req[p].straddled => Shaken(req[p])
    PROVE  Shaken(req[p])'
<1>0. ReqType /\ req \in [Procs -> Request] /\ req[p] \in Request /\ Placed(req[p])
  BY TypeParts DEF ReqType, AllPlaced
<1>1. CASE WsBegin(p)
  <2>1. PICK t \in tokens : Accepted(t) /\ BeginWith(p, "ws", "checked", t)
    BY <1>1 DEF WsBegin, BeginWith
  <2>2. req'[p].at = "checked" /\ req'[p].tok = t
    BY <1>0, <2>1 DEF BeginWith, Idle
  <2> QED
    BY <1>1, <2>1, <2>2 DEF WsBegin, Shaken, Accepted
<1>2. CASE CheckBlocked(p)
  <2> DEFINE next == IF req[p].op = "ws" THEN "register" ELSE "issue"
  <2>1. UNCHANGED <<row, cutoff>> /\ req[p].at = "checked"
    BY <1>2 DEF CheckBlocked
  <2>2. CASE Goto(p, next) /\ row.there /\ ~row.blocked
    <3>1. req'[p].op = req[p].op /\ req'[p].straddled = req[p].straddled /\ req'[p].tok = req[p].tok
      BY <1>0, <2>2 DEF Goto, Request
    <3> QED
      BY <2>1, <2>2, <3>1 DEF Shaken, Accepted
  <2>3. CASE Done(p)
    BY <1>0, <2>3 DEF Done, Idle
  <2>4. CASE req' = [req EXCEPT ![p].at = next, ![p].straddled = (req[p].op = "ws")]
    BY <1>0, <2>4 DEF Request
  <2> QED
    BY <1>2, <2>2, <2>3, <2>4 DEF CheckBlocked
<1>3. CASE ~WsBegin(p) /\ ~CheckBlocked(p)
  BY <1>0, <1>3, WsArrivals DEF Shaken
<1> QED
  BY <1>1, <1>2, <1>3

LEMMA SockStep ==
    ASSUME TypeOK, AllPlaced, SockInv, [Next]_vars
    PROVE  SockInv'
<1>1. CASE UNCHANGED vars \/ Expire \/ Tick
  BY <1>1 DEF vars, sessionVars, Expire, Tick, SockInv, SocketsOpen, HandshakesShaken, Shaken,
              Accepted, Cutting, Deleting, Blocking
<1>2. CASE Restart
  BY <1>2 DEF Restart, SockInv, SocketsOpen, HandshakesShaken, Idle
<1>3. ASSUME NEW p \in Procs, Handler(p) PROVE SockInv'
  <2>0. ReqType
    BY TypeParts
  <2>1. SocketsOpen'
    BY <1>3, SocketsStep
  <2>2. ASSUME NEW q \in Procs, req'[q].op = "ws", ~req'[q].straddled PROVE Shaken(req[q])'
    <3>1. CASE q = p
      <4>1. req[p].op = "ws" /\ ~req[p].straddled => Shaken(req[p])
        BY DEF SockInv, HandshakesShaken
      <4>2. Shaken(req[p])'
        BY <1>3, <2>2, <3>1, <4>1, ShakenOwn
      <4> QED
        BY <3>1, <4>2
    <3>2. CASE q # p
      <4>1. req[q].op = "ws" /\ ~req[q].straddled
        <5>1. req[q] \in Request
          BY <2>0 DEF ReqType
        <5>2. req'[q] = req[q] \/ req'[q] = [req[q] EXCEPT !.straddled = TRUE]
          BY <1>3, <2>0, <3>2, Others
        <5> QED
          BY <2>2, <5>1, <5>2 DEF Request
      <4> QED
        BY <1>3, <2>2, <3>2, <4>1, ShakenOther DEF SockInv, HandshakesShaken
    <3> QED
      BY <3>1, <3>2
  <2> QED
    BY <2>1, <2>2 DEF SockInv, HandshakesShaken
<1> QED
  BY <1>1, <1>2, <1>3, StepCases DEF Handler

(* NoSocketOfRevoked of Sessions: with no revocation under way, an open    *)
(* socket's account is there and not blocked and its token is accepted,    *)
(* however the handshakes, the sign-outs, the blocks and the deletions     *)
(* overlap; but for a handshake a revocation fell into (wsHandler).        *)
THEOREM SocketsOfTheSignedIn == Spec => []NoSocketOfRevoked
<1>1. Init => SockInv
  BY DEF Init, SessionsInit, SockInv, SocketsOpen, HandshakesShaken, Idle
<1>2. Typed /\ SockInv /\ [Next]_vars => SockInv'
  BY SockStep DEF Typed
<1>3. SockInv => NoSocketOfRevoked
  BY DEF SockInv, SocketsOpen, NoSocketOfRevoked, Cutting, Deleting, Blocking, Revocations
<1> QED
  BY <1>1, <1>2, <1>3, TypeCorrect, PTL DEF Spec, Typed
-----------------------------------------------------------------------------
(* The token a revocation hands out itself                                 *)

(* Whoever carries the number of the request that made a stamp is dated    *)
(* after it, or is that request, which will date its token after it.       *)
TokensOwn == \A t \in tokens : /\ t.n \in cutBy.mem => cutoff < t.iat
                               /\ t.n \in cutBy.row => row.forced < t.iat
OwnMem(r) == r.n \in cutBy.mem =>
    r.at \in {"erase", "cut"} /\ (r.op = "change" => cutoff <= r.stamp)
OwnRow(r) == r.n \in cutBy.row =>
    r.at \in {"cutoff", "erase", "cut"} /\ (r.op = "change" => row.forced <= r.stamp)
HandlersOwn == \A p \in Procs : Active(p) => OwnMem(req[p]) /\ OwnRow(req[p])
OwnInv == TokensOwn /\ HandlersOwn

(* What a step of a handler leaves of its stamp.                           *)
LEMMA StampKept ==
    ASSUME ReqType, NEW p \in Procs, Handler(p), Goes(p), req[p].at \in {"cutoff", "erase", "cut"}
    PROVE  /\ req'[p].stamp = req[p].stamp /\ req'[p].op = req[p].op
           /\ req'[p].at \in {"erase", "cut"} /\ (StoreCutoff(p) \/ Erase(p))
<1>1. StoreCutoff(p) \/ Erase(p) \/ RevokeFinish(p)
  BY DEF Handler, SessionHandler, FactorHandler, Begin, Serve, BeginWith,
       BeginRevocation, Login, LoginDirectory, ExternalSignIn, Register, CheckBlocked, Issue,
       ChangeBegin, AdminBegin, AdminCreate, AdminUnblock, RevokeUpdate, RevokeUpdateLost,
       WsBegin, WsRegister, SetupBegin, SetupStore, EnableBegin, EnableUpdate, PurgeRecovery,
       InsertRecovery, VerifyBegin, DisableBegin, Consume, UseRecovery, ResetColumns,
       ResetRecovery
<1>2. CASE RevokeFinish(p)
  BY <1>2 DEF RevokeFinish, Done, Goes, Idle, ReqType
<1>3. CASE StoreCutoff(p) \/ Erase(p)
  BY <1>3 DEF StoreCutoff, Erase, Goto, ReqType, Request
<1> QED
  BY <1>1, <1>2, <1>3

(* The stamp of the row changes with the row's owner, or with its account. *)
LEMMA ForcedKept ==
    ASSUME TypeOK, NEW p \in Procs, Handler(p)
    PROVE  \/ RevokeUpdate(p) \/ UNCHANGED <<row, cutBy>> \/ StoreCutoff(p) \/ cutBy'.row = {}
           \/ row'.forced \in {0, row.forced} /\ UNCHANGED cutBy
<1>0. row \in Row
  BY TypeParts DEF RowType
<1>1. CASE LoginDirectory(p) \/ Register(p) \/ AdminCreate(p) \/ AdminUnblock(p)
  BY <1>0, <1>1 DEF Row, LoginDirectory, Register, AdminCreate, AdminUnblock, NoRow, history
<1>2. CASE Erase(p)
  BY <1>2, TypeParts DEF Erase, HistoryType
<1>3. CASE RevokeFinish(p)
  BY <1>3 DEF RevokeFinish
<1> QED
  BY <1>1, <1>2, <1>3, SessionChanges, FactorChanges DEF Handler

LEMMA TokensOwnStep ==
    ASSUME TypeOK, Numbered, OwnInv, NEW p \in Procs, Handler(p)
    PROVE  TokensOwn'
<1>0. /\ ReqType /\ HistoryType /\ TokenType
      /\ cutoff \in Nat /\ row.forced \in Nat /\ req[p].stamp \in Nat
  BY TypeParts, RowParts, RequestType, Constants DEF RowType, ReqType
<1>1. \A t \in tokens : t.iat \in Nat /\ 0 < t.iat
  BY <1>0, Constants DEF TokenType, Token
<1>2. CASE RevokeUpdate(p)
  <2>1. Active(p) /\ tokens' = tokens /\ cutoff' = cutoff
    BY <1>2 DEF RevokeUpdate, Active
  <2>2. cutBy'.mem = cutBy.mem /\ cutBy'.row = {req[p].n}
    BY <1>0, <1>2 DEF RevokeUpdate, HistoryType
  <2> QED
    BY <2>1, <2>2 DEF Numbered, ActiveNumbered, OwnInv, TokensOwn
<1>3. CASE StoreCutoff(p)
  <2>1. Active(p) /\ tokens' = tokens /\ row' = row
    BY <1>3 DEF StoreCutoff, Active
  <2>2. cutBy'.mem = {req[p].n} /\ cutBy'.row = cutBy.row
    BY <1>0, <1>3 DEF StoreCutoff, HistoryType
  <2> QED
    BY <2>1, <2>2 DEF Numbered, ActiveNumbered, OwnInv, TokensOwn
<1>4. CASE Erase(p)
  BY <1>0, <1>4 DEF Erase, HistoryType, OwnInv, TokensOwn
<1>5. CASE RevokeFinish(p)
  <2>1. Active(p) /\ UNCHANGED <<cutoff, row, cutBy>>
    BY <1>5 DEF RevokeFinish, Active
  <2>2. ASSUME NEW t \in Renewed(req[p])
        PROVE  req[p].op = "change" /\ t.n = req[p].n /\ t.iat = req[p].stamp + 1
    BY <2>2 DEF Renewed
  <2>3. OwnMem(req[p]) /\ OwnRow(req[p])
    BY <2>1 DEF OwnInv, HandlersOwn
  <2>4. \A t \in Renewed(req[p]) : /\ t.n \in cutBy.mem => cutoff < t.iat
                                   /\ t.n \in cutBy.row => row.forced < t.iat
    BY <1>0, <2>2, <2>3 DEF OwnMem, OwnRow
  <2>5. tokens' = tokens \cup Renewed(req[p])
    BY <1>5 DEF RevokeFinish
  <2> QED
    BY <2>1, <2>4, <2>5 DEF OwnInv, TokensOwn
<1>6. CASE Issue(p)
  <2>1. Active(p) /\ req[p].at = "issue" /\ UNCHANGED <<cutoff, row, cutBy>>
    BY <1>6 DEF Issue, Active, history
  <2>2. req[p].n \notin cutBy.mem /\ req[p].n \notin cutBy.row
    BY <2>1 DEF OwnInv, HandlersOwn, OwnMem, OwnRow
  <2>3. \A t \in tokens' : t \in tokens \/ t.n = req[p].n
    BY <1>6 DEF Issue
  <2> QED
    BY <2>1, <2>2, <2>3 DEF OwnInv, TokensOwn
<1>7. CASE /\ ~RevokeUpdate(p) /\ ~StoreCutoff(p) /\ ~Erase(p)
           /\ ~RevokeFinish(p) /\ ~Issue(p)
  <2>1. UNCHANGED <<tokens, cutoff, cutBy>>
    BY <1>7, SessionChanges, FactorChanges DEF Handler
  <2>2. row'.forced \in {0, row.forced} \/ cutBy'.row = {}
    BY <1>7, ForcedKept
  <2> QED
    BY <1>1, <2>1, <2>2 DEF OwnInv, TokensOwn
<1> QED
  BY <1>2, <1>3, <1>4, <1>5, <1>6, <1>7

LEMMA HandlersOwnStep ==
    ASSUME TypeOK, Numbered, OwnInv, NEW p \in Procs, Handler(p)
    PROVE  HandlersOwn'
<1>0. /\ ReqType /\ HistoryType
      /\ \A q \in Procs : req[q].stamp \in Nat /\ req[q].n \in Nat
      /\ row.forced \in Nat /\ count \in Nat
  BY TypeParts, RowParts, RequestType, Constants DEF RowType, ReqType, CountType, Number
<1>1. \A q \in Procs : q # p => /\ Active(q)' = Active(q) /\ req'[q].n = req[q].n
                                /\ req'[q].at = req[q].at /\ req'[q].op = req[q].op
                                /\ req'[q].stamp = req[q].stamp
  BY <1>0, OthersKeep DEF Active
<1>2. \A q \in Procs : Active(q) => OwnMem(req[q]) /\ OwnRow(req[q])
  BY DEF OwnInv, HandlersOwn
<1>3. Active(p) => \A q \in Procs : Active(q) /\ q # p => req[q].n # req[p].n
  BY DEF Numbered, ActiveNumbered
<1>4. CASE RevokeUpdate(p)
  <2>1. /\ req[p].at = "update" /\ Active(p) /\ cutoff' = cutoff
        /\ req'[p] = [req[p] EXCEPT !.at = "cutoff"]
    BY <1>4 DEF RevokeUpdate, Active
  <2>2. cutBy'.mem = cutBy.mem /\ cutBy'.row = {req[p].n}
    BY <1>0, <1>4 DEF RevokeUpdate, HistoryType
  <2>3. row'.forced = req[p].stamp
    BY <1>4, RevokedParts, TypeParts DEF RevokeUpdate, RowType
  <2>4. req'[p].at = "cutoff" /\ req'[p].n = req[p].n /\ req'[p].stamp = req[p].stamp
    BY <1>0, <2>1 DEF ReqType, Request
  <2>5. OwnMem(req[p])' /\ OwnRow(req[p])'
    BY <1>0, <1>2, <2>1, <2>2, <2>3, <2>4 DEF OwnMem, OwnRow
  <2>6. \A q \in Procs : q # p /\ Active(q) => OwnMem(req[q])' /\ OwnRow(req[q])'
    BY <1>1, <1>2, <1>3, <2>1, <2>2 DEF OwnMem, OwnRow
  <2> QED
    BY <1>1, <2>5, <2>6 DEF HandlersOwn
<1>5. CASE StoreCutoff(p)
  <2>1. /\ req[p].at = "cutoff" /\ Active(p) /\ row' = row
        /\ req[p].op = "change" => cutoff' = req[p].stamp
        /\ req'[p] = [req[p] EXCEPT !.at = IF req[p].op = "delete" THEN "erase" ELSE "cut"]
    BY <1>5 DEF StoreCutoff, Active
  <2>2. cutBy'.mem = {req[p].n} /\ cutBy'.row = cutBy.row
    BY <1>0, <1>5 DEF StoreCutoff, HistoryType
  <2>3. /\ req'[p].at \in {"erase", "cut"} /\ req'[p].n = req[p].n
        /\ req'[p].stamp = req[p].stamp /\ req'[p].op = req[p].op
    BY <1>0, <2>1 DEF ReqType, Request
  <2>4. OwnMem(req[p])' /\ OwnRow(req[p])'
    BY <1>0, <1>2, <2>1, <2>2, <2>3 DEF OwnMem, OwnRow
  <2>5. \A q \in Procs : q # p /\ Active(q) => OwnMem(req[q])' /\ OwnRow(req[q])'
    BY <1>1, <1>2, <1>3, <2>1, <2>2 DEF OwnMem, OwnRow
  <2> QED
    BY <1>1, <2>4, <2>5 DEF HandlersOwn
<1>6. CASE ~RevokeUpdate(p) /\ ~StoreCutoff(p)
  <2>1. /\ cutoff' = cutoff /\ cutBy'.mem = cutBy.mem /\ cutBy'.row \subseteq cutBy.row
        /\ row'.forced \in {0, row.forced} \/ cutBy'.row = {}
    <3>1. CASE Erase(p)
      BY <1>0, <3>1 DEF Erase, HistoryType, NoRow
    <3>2. CASE ~Erase(p)
      <4>1. UNCHANGED <<cutoff, cutBy>>
        BY <1>6, <3>2, SessionChanges, FactorChanges DEF Handler, RevokeFinish
      <4> QED
        BY <1>6, <4>1, ForcedKept
    <3> QED
      BY <3>1, <3>2
  <2>2. \A q \in Procs : q # p /\ Active(q) => OwnMem(req[q])' /\ OwnRow(req[q])'
    BY <1>0, <1>1, <1>2, <2>1 DEF OwnMem, OwnRow
  <2>3. Active(p)' => OwnMem(req[p])' /\ OwnRow(req[p])'
    <3> SUFFICES ASSUME Active(p)' PROVE OwnMem(req[p])' /\ OwnRow(req[p])'
      OBVIOUS
    <3>1. CASE Goes(p)
      <4>1. CASE req[p].at \in {"cutoff", "erase", "cut"}
        <5>1. /\ req'[p].stamp = req[p].stamp /\ req'[p].op = req[p].op
              /\ req'[p].at \in {"erase", "cut"} /\ req'[p].n = req[p].n
          BY <1>0, <3>1, <4>1, StampKept DEF Goes
        <5>2. OwnMem(req[p]) /\ OwnRow(req[p])
          BY <1>2, <3>1 DEF Goes
        <5>3. Erase(p)
          BY <1>0, <1>6, <3>1, <4>1, StampKept
        <5>4. req[p].at = "erase"
          BY <5>3 DEF Erase
        <5> QED
          BY <1>0, <2>1, <5>1, <5>2, <5>4 DEF OwnMem, OwnRow
      <4>2. CASE req[p].at \notin {"cutoff", "erase", "cut"}
        <5>1. req[p].n \notin cutBy.mem /\ req[p].n \notin cutBy.row
          BY <1>2, <3>1, <4>2 DEF Goes, OwnMem, OwnRow
        <5> QED
          BY <2>1, <3>1, <5>1 DEF Goes, OwnMem, OwnRow
      <4> QED
        BY <4>1, <4>2
    <3>2. CASE Starts(p)
      <4>1. req'[p].n \notin cutBy.mem /\ req'[p].n \notin cutBy.row
        BY <1>0, <3>2 DEF Starts, Numbered, CutsNumbered
      <4> QED
        BY <2>1, <4>1 DEF OwnMem, OwnRow
    <3> QED
      BY <1>0, <3>1, <3>2, OwnStep DEF Ends, Serves, Active, Idle
  <2> QED
    BY <1>1, <2>2, <2>3 DEF HandlersOwn
<1> QED
  BY <1>4, <1>5, <1>6

LEMMA OwnTokenStep ==
    ASSUME TypeOK, Numbered, OwnInv, [Next]_vars
    PROVE  OwnInv'
<1>1. CASE UNCHANGED vars \/ Expire \/ Tick
  BY <1>1 DEF vars, sessionVars, history, Expire, Tick, OwnInv, TokensOwn, HandlersOwn, OwnMem,
              OwnRow, Active
<1>2. CASE Restart
  BY <1>2, TypeParts DEF Restart, loadLogoutCutoffs, Idle, OwnInv, TokensOwn, HandlersOwn, Active,
                         HistoryType
<1>3. ASSUME NEW p \in Procs, Handler(p) PROVE OwnInv'
  BY <1>3, TokensOwnStep, HandlersOwnStep DEF OwnInv
<1> QED
  BY <1>1, <1>2, <1>3, StepCases DEF Handler

(* OwnTokenWorks of Sessions: the token change-password returns is not     *)
(* under the stamp of that same change, in the map or, after a restart, in *)
(* the row (generateTokenAt), whatever other handlers do in between.       *)
THEOREM OwnToken == Spec => []OwnTokenWorks
<1>1. Init => Numbered /\ OwnInv
  BY Constants DEF Init, SessionsInit, Numbered, TokensNumbered, ActiveNumbered, CutsNumbered,
                   OwnInv, TokensOwn, HandlersOwn, Active, Idle
<1>2. Typed /\ Numbered /\ OwnInv /\ [Next]_vars => (Numbered /\ OwnInv)'
  BY NumberedStep, OwnTokenStep DEF Typed
<1>3. Typed /\ OwnInv => OwnTokenWorks
  <2> SUFFICES ASSUME Typed, OwnInv, NEW t \in tokens, t.n \in cutBy.mem PROVE Accepted(t)
    BY DEF OwnTokenWorks
  <2>1. cutoff < t.iat
    BY DEF OwnInv, TokensOwn
  <2>2. t.iat \in Nat /\ cutoff \in Nat
    BY TypeParts, Constants DEF Typed, TokenType, RowType, Token
  <2> QED
    BY <2>1, <2>2 DEF Accepted
<1> QED
  BY <1>1, <1>2, <1>3, TypeCorrect, PTL DEF Spec, Typed
-----------------------------------------------------------------------------
(* Codes                                                                   *)

(* A code that was accepted is no newer than totp_last_step, or was made   *)
(* good again.                                                             *)
CodeInv == /\ \A c \in accepted : c \in reopened \/ c.step <= totp.last
           /\ reused \subseteq reopened

LEMMA CodeOnceStep ==
    ASSUME TypeOK, CodeInv, [Next]_vars
    PROVE  CodeInv'
<1>0. /\ ReqType /\ totp.last \in Int
      /\ \A c \in accepted : c.step \in Int
  BY TypeParts DEF FactorType, Factor, CodeType, Codes
<1>1. CASE UNCHANGED vars \/ Expire \/ (Restart /\ UNCHANGED factorVars)
  BY <1>1 DEF vars, sessionVars, factorVars, Expire, Restart, CodeInv
<1>2. CASE SessionStep
  <2>1. totp'.last \in Int
    BY FactorStep, TypeParts DEF FactorType, Factor
  <2> QED
    BY <1>0, <1>2, <2>1 DEF SessionStep, Reopen, CodeInv
<1>3. ASSUME NEW p \in Procs, FactorHandler(p) PROVE CodeInv'
  <2>0. req[p].step \in Int
    BY <1>0, RequestType DEF ReqType
  <2>1. CASE EnableUpdate(p)
    <3>1. CASE row.there
      <4>1. /\ totp'.last = req[p].step /\ Reopen(req[p].step) /\ reused' = reused
            /\ accepted' = accepted \cup {Code(req[p].sec, req[p].step)}
        BY <2>1, <3>1, TypeParts DEF EnableUpdate, FactorType, Factor
      <4>2. Code(req[p].sec, req[p].step).step = req[p].step
        BY DEF Code
      <4> QED
        BY <1>0, <2>0, <4>1, <4>2 DEF CodeInv, Reopen
    <3>2. CASE ~row.there
      BY <2>1, <3>2 DEF EnableUpdate, CodeInv
    <3> QED
      BY <3>1, <3>2
  <2>2. CASE Consume(p)
    <3>1. CASE row.there /\ Fresh(req[p].step)
      <4> DEFINE c == Code(req[p].sec, req[p].step)
      <4>1. /\ totp'.last = req[p].step /\ reopened' = reopened /\ totp.last < req[p].step
            /\ accepted' = accepted \cup {c}
            /\ reused' = IF c \in accepted THEN reused \cup {c} ELSE reused
        BY <2>2, <3>1, TypeParts DEF Consume, Accept, Fresh, FactorType, Factor
      <4>2. c.step = req[p].step
        BY DEF Code
      <4> HIDE DEF c
      <4> QED
        BY <1>0, <2>0, <4>1, <4>2 DEF CodeInv
    <3>2. CASE ~(row.there /\ Fresh(req[p].step))
      BY <2>2, <3>2 DEF Consume, CodeInv
    <3> QED
      BY <3>1, <3>2
  <2>3. CASE ResetColumns(p)
    BY <1>0, <2>3 DEF ResetColumns, Reopen, CodeInv, NoFactor
  <2>4. CASE SetupStore(p)
    BY <2>4, TypeParts DEF SetupStore, WithSecret, CodeInv, FactorType, Factor
  <2>5. reused' = reused \/ Consume(p)
    BY <1>3 DEF FactorHandler, factorVars,
       SetupBegin, SetupStore, EnableBegin, EnableUpdate, PurgeRecovery,
       InsertRecovery, VerifyBegin, DisableBegin, UseRecovery, ResetColumns, ResetRecovery
  <2> QED
    BY <1>3, <2>1, <2>2, <2>3, <2>4, <2>5, FactorChanges DEF CodeInv
<1> QED
  BY <1>1, <1>2, <1>3, StepCases

(* CodeOnce of SecondFactor: a code that was accepted finishes no sign-in  *)
(* and switches nothing off any more, however the handlers overlap, except *)
(* one that was made good again (twoFAConsume).                            *)
THEOREM CodesOnce == Spec => []CodeOnce
<1>1. Init => CodeInv
  BY DEF Init, CodeInv
<1>2. Typed /\ CodeInv /\ [Next]_vars => CodeInv'
  BY CodeOnceStep DEF Typed
<1>3. CodeInv => CodeOnce
  BY DEF CodeInv, CodeOnce
<1> QED
  BY <1>1, <1>2, <1>3, TypeCorrect, PTL DEF Spec, Typed

(* A factor that is on has a confirmed secret; so has an enable that waits *)
(* for its UPDATE.                                                         *)
ConfirmedInv ==
    /\ totp.on /\ ~swapped => totp.secret \in confirmed
    /\ \A p \in Procs : req[p].at = "enable" => req[p].sec \in confirmed

LEMMA ConfirmedStep ==
    ASSUME TypeOK, ConfirmedInv, [Next]_vars
    PROVE  ConfirmedInv'
<1>0. ReqType /\ totp \in Factor /\ swapped \in BOOLEAN
  BY TypeParts DEF FactorType
<1>1. CASE UNCHANGED vars \/ Expire \/ (Tick /\ SessionStep)
  BY <1>1 DEF vars, sessionVars, factorVars, Expire, Tick, SessionStep, ConfirmedInv
<1>2. CASE Restart /\ UNCHANGED factorVars
  BY <1>2 DEF Restart, factorVars, Idle, ConfirmedInv
<1>3. ASSUME NEW p \in Procs, Handler(p), UNCHANGED <<confirmed, swapped>> \/ FactorHandler(p)
      PROVE  ConfirmedInv'
  <2>1. confirmed \subseteq confirmed'
    BY <1>3, FactorChanges DEF SetupStore, EnableBegin, EnableUpdate
  <2>2. ASSUME NEW q \in Procs, req'[q].at = "enable" PROVE req'[q].sec \in confirmed'
    <3>1. CASE q = p
      <4>1. EnableBegin(p)
        BY <1>0, <1>3, <2>2, <3>1, Arrivals
      <4>2. req'[p].sec = totp.secret /\ totp.secret \in confirmed'
        BY <1>0, <4>1 DEF EnableBegin, ReqType
      <4> QED
        BY <3>1, <4>2
    <3>2. CASE q # p
      BY <1>0, <1>3, <2>1, <2>2, <3>2, OthersKeep DEF ConfirmedInv
    <3> QED
      BY <3>1, <3>2
  <2>3. totp'.on /\ ~swapped' => totp'.secret \in confirmed'
    <3>1. CASE ResetColumns(p)
      BY <3>1 DEF ResetColumns, NoFactor, ConfirmedInv
    <3>7. CASE Erase(p) /\ UNCHANGED <<confirmed, swapped>>
      BY <3>7 DEF Erase, NoFactor, ConfirmedInv
    <3>2. CASE SetupStore(p)
      BY <1>0, <2>1, <3>2 DEF SetupStore, WithSecret, Factor, ConfirmedInv
    <3>3. CASE EnableUpdate(p)
      <4>1. CASE row.there
        <5>1. /\ totp'.secret = totp.secret /\ confirmed' = confirmed
              /\ swapped' = (swapped \/ totp.secret # req[p].sec)
              /\ req[p].at = "enable"
          BY <1>0, <3>3, <4>1 DEF EnableUpdate, Factor
        <5> QED
          BY <5>1 DEF ConfirmedInv
      <4>2. CASE ~row.there
        BY <3>3, <4>2 DEF EnableUpdate, ConfirmedInv
      <4> QED
        BY <4>1, <4>2
    <3>4. CASE Consume(p)
      BY <1>0, <3>4 DEF Consume, Factor, ConfirmedInv
    <3>5. CASE EnableBegin(p)
      BY <2>1, <3>5 DEF EnableBegin, ConfirmedInv
    <3>6. CASE /\ ~(Erase(p) /\ UNCHANGED <<confirmed, swapped>>) /\ ~ResetColumns(p) /\ ~SetupStore(p)
               /\ ~EnableUpdate(p) /\ ~Consume(p) /\ ~EnableBegin(p)
      <4>1. UNCHANGED <<totp, confirmed, swapped>>
        BY <1>3, <3>6, SessionChanges, FactorChanges DEF Handler
      <4> QED
        BY <4>1 DEF ConfirmedInv
    <3> QED
      BY <3>1, <3>2, <3>3, <3>4, <3>5, <3>6, <3>7
  <2> QED
    BY <2>2, <2>3 DEF ConfirmedInv
<1> QED
  BY <1>1, <1>2, <1>3, StepCases DEF Handler, SessionStep

(* EnabledIsConfirmed of SecondFactor: the secret of a factor that is on   *)
(* is one the owner has shown a code of, unless it was replaced between an *)
(* enable's check and its UPDATE (twoFAEnableHandler).                     *)
THEOREM EnabledConfirmed == Spec => []EnabledIsConfirmed
<1>1. Init => ConfirmedInv
  BY DEF Init, SessionsInit, ConfirmedInv, NoFactor, Idle
<1>2. Typed /\ ConfirmedInv /\ [Next]_vars => ConfirmedInv'
  BY ConfirmedStep DEF Typed
<1>3. ConfirmedInv => EnabledIsConfirmed
  BY DEF ConfirmedInv, EnabledIsConfirmed
<1> QED
  BY <1>1, <1>2, <1>3, TypeCorrect, PTL DEF Spec, Typed
=============================================================================
