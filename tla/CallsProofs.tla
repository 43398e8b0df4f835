---------------------------- MODULE CallsProofs ----------------------------
(***************************************************************************)
(* What holds of the call signalling for any number of users, devices,     *)
(* calls and lost connections.  The clients' records carry the proof: each *)
(* handler is shown to make one sound record of another, and the rest of   *)
(* the state follows.                                                      *)
(***************************************************************************)
EXTENDS Calls, TLAPS

(* What is true of every client between two awaits.                           *)
Sound(r) ==
    /\ r.dial # 0 => r.peer # NoUser /\ r.start = "no"
    /\ r.start = "offer" => r.pc.open
    /\ r.accept = "answer" => r.pc.open /\ r.pc.theirs # 0 /\ r.peer # NoUser
    /\ r.offer # NoFrame => r.offer.type = "call-offer" /\ r.peer # NoUser

(* Not answering and dialling at once.                                        *)
Apart(r) == r.accept # "no" => r.start = "no" /\ r.dial = 0

(* A caller has the connection of the call, and something that will end the   *)
(* waiting.                                                                   *)
Waits(r) ==
    r.dial # 0 =>
        /\ r.pc.open /\ r.pc.mine = r.dial
        /\ r.connected \/ r.ring \/ r.late # {} \/ r.pc.theirs # 0

ClientsInv ==
    /\ dev \in [Device -> Client]
    /\ \A d \in Device : Sound(dev[d])
    /\ \A d \in Device \ crossed : Apart(dev[d]) /\ Waits(dev[d])

(* A connection's frames are from the user it belongs to.                     *)
FromOwner(s, d) == \A i \in 1 .. Len(s) : s[i].from = Owner[d]

NetType ==
    /\ alive \in [Device -> BOOLEAN]
    /\ up \in [Device -> Seq(Frame)] /\ down \in [Device -> Seq(Frame)]
    /\ outbox \in [Device -> Seq(Frame)]

Signed == \A d \in Device : FromOwner(up[d], d) /\ FromOwner(outbox[d], d)

ServerType ==
    /\ reg \in [Device -> {"no", "fresh", "reading"}]
    /\ handling \in [Device -> Frame \cup {NoFrame}]
    /\ callMap \in [User -> User \cup {NoUser}]
    /\ queue \in [User -> Frame \cup {NoFrame}]
    /\ ended \subseteq CallId

CountType ==
    /\ sent \in 0..MaxCalls /\ outcomes \in [CallId -> Nat]
    /\ crossed \subseteq Device /\ drops \in 0..MaxDrops

Inv == ClientsInv /\ NetType /\ Signed /\ ServerType /\ CountType

LEMMA InvType == Inv => TypeOK
BY DEF Inv, ClientsInv, NetType, ServerType, CountType, TypeOK
-----------------------------------------------------------------------------
(* Records and frames *)

LEMMA IdleGood == Idle \in Client /\ Sound(Idle) /\ Apart(Idle) /\ Waits(Idle)
BY CallsAssumption DEF Idle, NoPC, Client, PC, Sound, Apart, Waits

LEMMA OfferNumber ==
    ASSUME NEW f \in Frame
    PROVE  /\ f.from \in User /\ f.to \in User /\ f.by \in Device /\ f.n \in 0..MaxCalls
           /\ f.type \in {"call-offer", "call-answer"} => f.n \in CallId
           /\ f.type \in {"call-offer", "call-answer", "call-end", "call-reject"}
BY CallsAssumption DEF Frame, CallId

LEMMA FrameType ==
    ASSUME NEW d \in Device, NEW to \in User, NEW type, NEW n,
           \/ type \in {"call-offer", "call-answer"} /\ n \in CallId
           \/ type \in {"call-end", "call-reject"} /\ n \in 0..MaxCalls
    PROVE  FrameOf(d, type, to, n) \in Frame /\ FrameOf(d, type, to, n).from = Owner[d]
<1>1. Owner[d] \in User
  BY CallsAssumption
<1> QED
  BY <1>1 DEF FrameOf, Frame

LEMMA PCParts ==
    ASSUME NEW p \in PC
    PROVE  /\ p.open \in BOOLEAN /\ p.mine \in 0..MaxCalls /\ p.theirs \in 0..MaxCalls
           /\ p.far \in Device \cup {NoDevice}
BY DEF PC

LEMMA NewPCType == NoPC \in PC /\ NewPC \in PC /\ NewPC.open
<1>1. NoPC \in PC
  BY CallsAssumption DEF NoPC, PC
<1> QED
  BY <1>1 DEF NewPC, PC

LEMMA ClientParts ==
    ASSUME NEW r \in Client
    PROVE  /\ r.peer \in User \cup {NoUser} /\ r.pc \in PC
           /\ r.offer \in Frame \cup {NoFrame} /\ r.dial \in 0..MaxCalls
           /\ r.connected \in BOOLEAN /\ r.logged \in BOOLEAN /\ r.ring \in BOOLEAN
           /\ r.late \subseteq {"endCall", "cleanupCall"}
           /\ r.start \in {"no", "media", "offer"}
           /\ r.accept \in {"no", "media", "answer"}
BY DEF Client

(* Cleaning up makes a client that is in no call.                             *)
LEMMA CleanupGood ==
    ASSUME NEW r \in Client
    PROVE  /\ cleanupCall(r) \in Client /\ Sound(cleanupCall(r)) /\ Waits(cleanupCall(r))
           /\ cleanupCall(r).dial = 0
<1>1. Idle \in Client /\ Idle.dial = 0 /\ Idle.offer = NoFrame
  BY IdleGood DEF Idle
<1>2. /\ r.late \subseteq {"endCall", "cleanupCall"}
      /\ r.start \in {"no", "media", "offer"} /\ r.accept \in {"no", "media", "answer"}
  BY ClientParts
<1>3. cleanupCall(r) \in Client
  <2> DEFINE start == IF r.start = "offer" THEN "no" ELSE r.start
             accept == IF r.accept = "answer" THEN "no" ELSE r.accept
  <2>1. start \in {"no", "media", "offer"} /\ accept \in {"no", "media", "answer"}
    BY <1>2
  <2>2. cleanupCall(r) = [Idle EXCEPT !.late = r.late, !.start = start, !.accept = accept]
    BY DEF cleanupCall
  <2> HIDE DEF start, accept
  <2> QED
    BY <1>1, <1>2, <2>1, <2>2 DEF Client
<1>4. /\ cleanupCall(r).dial = 0 /\ cleanupCall(r).offer = NoFrame
      /\ cleanupCall(r).start # "offer" /\ cleanupCall(r).accept # "answer"
  BY <1>2 DEF cleanupCall, Idle
<1> QED
  BY <1>3, <1>4 DEF Sound, Waits

(* Replacing one client's record keeps the invariant of the clients.          *)
LEMMA BecomeGood ==
    ASSUME ClientsInv, crossed \subseteq Device, NEW d \in Device, NEW r \in Client,
           Sound(r),
           d \notin crossed /\ Apart(r) => Waits(r),
           Becomes(d, r)
    PROVE  ClientsInv' /\ crossed' \subseteq Device
<1>1. dev' = [dev EXCEPT ![d] = r] /\ dev' \in [Device -> Client]
  BY DEF Becomes, ClientsInv
<1>2. \A e \in Device : Sound(dev'[e])
  BY <1>1 DEF ClientsInv
<1>3. crossed \subseteq crossed' /\ crossed' \subseteq Device
  BY DEF Becomes
<1>4. d \notin crossed' => Apart(r)
  BY DEF Becomes, Apart
<1>5. \A e \in Device \ crossed' : Apart(dev'[e]) /\ Waits(dev'[e])
  BY <1>1, <1>3, <1>4 DEF ClientsInv
<1> QED
  BY <1>1, <1>2, <1>3, <1>5 DEF ClientsInv, Sound, Apart, Waits

LEMMA wsSendType ==
    ASSUME NetType, Signed, NEW d \in Device, NEW f \in Frame, f.from = Owner[d],
           wsSend(d, f)
    PROVE  NetType' /\ Signed'
<1>1. \A s \in Seq(Frame) : Append(s, f) \in Seq(Frame)
  OBVIOUS
<1>2. \A s \in Seq(Frame) : FromOwner(s, d) => FromOwner(Append(s, f), d)
  BY DEF FromOwner
<1>3. CASE alive[d]
  BY <1>1, <1>2, <1>3 DEF NetType, Signed, wsSend
<1>4. CASE ~alive[d]
  BY <1>1, <1>2, <1>4 DEF NetType, Signed, wsSend
<1> QED
  BY <1>3, <1>4

LEMMA LogType ==
    ASSUME outcomes \in [CallId -> Nat], NEW r \in Client
    PROVE  LogOnce(r) \in [CallId -> Nat] /\ LogDone(r) \in [CallId -> Nat]
<1>1. LogOnce(r) \in [CallId -> Nat]
  <2>1. CASE MayLog(r)
    <3>1. r.dial \in CallId
      BY <2>1, ClientParts, CallsAssumption DEF MayLog, CallId
    <3>2. [outcomes EXCEPT ![r.dial] = @ + 1] \in [CallId -> Nat]
      BY <3>1
    <3> QED
      BY <2>1, <3>2 DEF LogOnce
  <2>2. CASE ~MayLog(r)
    BY <2>2 DEF LogOnce
  <2> QED
    BY <2>1, <2>2
<1> QED
  BY <1>1 DEF LogDone
-----------------------------------------------------------------------------
(* What the clients do *)

LEMMA NetUnchanged ==
    ASSUME NetType, Signed, UNCHANGED netVars
    PROVE  NetType' /\ Signed'
BY DEF NetType, Signed, netVars, FromOwner

(* The invariant of a state that a client's own step leads to.                *)
LEMMA ClientStepInv ==
    ASSUME Inv, ClientsInv', crossed' \subseteq Device,
           sent' \in 0..MaxCalls, outcomes' \in [CallId -> Nat],
           NetType', Signed', UNCHANGED serverVars, UNCHANGED drops
    PROVE  Inv'
BY DEF Inv, ServerType, CountType, serverVars

LEMMA ThisClient ==
    ASSUME Inv, NEW d \in Device
    PROVE  /\ dev[d] \in Client /\ Sound(dev[d])
           /\ d \notin crossed => Apart(dev[d]) /\ Waits(dev[d])
           /\ crossed \subseteq Device
           /\ outcomes \in [CallId -> Nat] /\ sent \in 0..MaxCalls
BY DEF Inv, ClientsInv, CountType

LEMMA StartCallStep ==
    ASSUME Inv, NEW d \in Device, startCall(d)
    PROVE  Inv'
<1> DEFINE r == [dev[d] EXCEPT !.connected = FALSE, !.logged = FALSE, !.start = "media"]
<1>1. dev[d].dial = 0
  BY ThisClient DEF startCall, Sound
<1>2. r \in Client /\ r.dial = 0 /\ r.start = "media"
  BY ZenonT(30), ThisClient, <1>1 DEF Client
<1>3. Sound(r) /\ Waits(r)
  BY ThisClient, <1>1, <1>2 DEF Sound, Waits, Client
<1>4. ClientsInv' /\ crossed' \subseteq Device
  <2> HIDE DEF r
  <2> QED
    BY ThisClient, BecomeGood, <1>2, <1>3 DEF startCall, Inv, r
<1> QED
  BY <1>4, ClientStepInv, NetUnchanged, ThisClient DEF startCall, Inv

LEMMA StartMediaStep ==
    ASSUME Inv, NEW d \in Device, StartMedia(d)
    PROVE  Inv'
<1> DEFINE accept == IF dev[d].accept = "answer" THEN "no" ELSE dev[d].accept
           r == [dev[d] EXCEPT !.pc = NewPC, !.start = "offer", !.accept = accept]
           q == [dev[d] EXCEPT !.start = "no"]
<1>1. dev[d].dial = 0
  BY ThisClient DEF StartMedia, Sound
<1>2. accept \in {"no", "media"}
  BY ThisClient, ClientParts
<1>3. r \in Client /\ Sound(r) /\ Waits(r)
  <2> HIDE DEF accept
  <2>1. r \in Client
    <3>1. dev[d] \in Client /\ NewPC \in PC /\ accept \in {"no", "media", "answer"}
      BY ThisClient, <1>2, NewPCType
    <3> QED
      BY <3>1 DEF Client
  <2>2. /\ r.dial = 0 /\ r.pc.open /\ r.accept # "answer"
        /\ r.offer = dev[d].offer /\ r.peer = dev[d].peer
    BY ThisClient, <1>1, <1>2, NewPCType DEF Client
  <2> HIDE DEF r
  <2> QED
    BY ThisClient, <2>1, <2>2 DEF Sound, Waits
<1>4. q \in Client /\ Sound(q) /\ Waits(q)
  BY ThisClient, <1>1 DEF Client, Sound, Waits
<1>5. Becomes(d, r) \/ Becomes(d, q)
  BY DEF StartMedia
<1>6. ClientsInv' /\ crossed' \subseteq Device
  <2> HIDE DEF r, q
  <2> QED
    BY ThisClient, BecomeGood, <1>3, <1>4, <1>5 DEF Inv
<1> QED
  BY <1>6, ClientStepInv, NetUnchanged, ThisClient DEF StartMedia, Inv

LEMMA SendOfferStep ==
    ASSUME Inv, NEW d \in Device, NEW u \in User, SendOffer(d, u)
    PROVE  Inv'
<1> DEFINE n == sent + 1
           r == [dev[d] EXCEPT !.pc.mine = n, !.peer = u, !.dial = n,
                               !.ring = TRUE, !.start = "no"]
<1>1. n \in CallId /\ n # 0 /\ n \in 0..MaxCalls
  BY ThisClient, CallsAssumption DEF SendOffer, CallId
<1>2. dev[d].start = "offer" /\ Becomes(d, r) /\ sent' = n
  BY DEF SendOffer
<1> HIDE DEF n
<1>3. dev[d].pc.open /\ u # NoUser /\ dev[d].pc \in PC
  BY ThisClient, ClientParts, <1>2, CallsAssumption DEF Sound
<1>4. [dev[d].pc EXCEPT !.mine = n] \in PC
  BY <1>1, <1>3 DEF PC
<1>5. r \in Client
  BY ZenonT(30), ThisClient, <1>1, <1>4 DEF Client
<1>6. /\ r.dial = n /\ r.peer = u /\ r.ring /\ r.start = "no"
      /\ r.pc.open /\ r.pc.mine = n /\ r.pc.theirs = dev[d].pc.theirs
      /\ r.accept = dev[d].accept /\ r.offer = dev[d].offer
  BY ThisClient, <1>1, <1>3 DEF Client, PC
<1>7. Sound(r) /\ Waits(r)
  <2> HIDE DEF r
  <2> QED
    BY ThisClient, <1>3, <1>6 DEF Sound, Waits
<1>8. ClientsInv' /\ crossed' \subseteq Device
  <2> HIDE DEF r
  <2> QED
    BY ThisClient, BecomeGood, <1>2, <1>5, <1>7 DEF Inv
<1>9. NetType' /\ Signed'
  BY FrameType, wsSendType, <1>1 DEF SendOffer, Inv, n
<1> QED
  BY <1>1, <1>2, <1>8, <1>9, ClientStepInv, ThisClient DEF SendOffer, Inv

LEMMA RingTimeoutStep ==
    ASSUME Inv, NEW d \in Device, RingTimeout(d)
    PROVE  Inv'
<1> DEFINE NoAnswer == dev[d].pc.open /\ dev[d].pc.theirs = 0
           logged == dev[d].logged \/ MayLog(dev[d])
           r == [dev[d] EXCEPT !.ring = FALSE, !.late = @ \cup {"endCall"},
                               !.logged = logged]
           q == [dev[d] EXCEPT !.ring = FALSE]
<1>1. Becomes(d, IF NoAnswer THEN r ELSE q)
  BY DEF RingTimeout
<1>2. logged \in BOOLEAN /\ dev[d].late \cup {"endCall"} \subseteq {"endCall", "cleanupCall"}
  BY ThisClient, ClientParts DEF MayLog
<1>3. r \in Client /\ Sound(r) /\ (Waits(dev[d]) => Waits(r))
  <2> HIDE DEF logged
  <2>1. r \in Client /\ r.late # {}
    BY ZenonT(30), ThisClient, <1>2 DEF Client
  <2>2. /\ r.dial = dev[d].dial /\ r.pc = dev[d].pc /\ r.peer = dev[d].peer
        /\ r.start = dev[d].start /\ r.accept = dev[d].accept /\ r.offer = dev[d].offer
    BY ThisClient DEF Client
  <2> HIDE DEF r
  <2> QED
    BY ThisClient, <2>1, <2>2 DEF Sound, Waits
<1>4. q \in Client /\ Sound(q) /\ (Waits(dev[d]) /\ ~NoAnswer => Waits(q))
  <2>1. q \in Client
    BY ZenonT(30), ThisClient DEF Client
  <2>2. /\ q.dial = dev[d].dial /\ q.pc = dev[d].pc /\ q.peer = dev[d].peer
        /\ q.start = dev[d].start /\ q.accept = dev[d].accept /\ q.offer = dev[d].offer
    BY ThisClient DEF Client
  <2> HIDE DEF q
  <2> QED
    BY ThisClient, <2>1, <2>2 DEF Sound, Waits
<1>5. ClientsInv' /\ crossed' \subseteq Device
  <2> HIDE DEF r, q, NoAnswer
  <2>1. CASE NoAnswer
    BY ThisClient, BecomeGood, <1>1, <1>3, <2>1 DEF Inv
  <2>2. CASE ~NoAnswer
    BY ThisClient, BecomeGood, <1>1, <1>4, <2>2 DEF Inv
  <2> QED
    BY <2>1, <2>2
<1>6. outcomes' \in [CallId -> Nat]
  BY ThisClient, LogType DEF RingTimeout
<1> QED
  BY <1>5, <1>6, ClientStepInv, NetUnchanged, ThisClient DEF RingTimeout, Inv

(* endCall and rejectCall, by a button or by a timer.                         *)
LEMMA LeaveStep ==
    ASSUME Inv, NEW d \in Device, NEW type \in {"call-end", "call-reject"},
           Leave(d, type), UNCHANGED <<sent, serverVars, drops>>
    PROVE  Inv'
<1> DEFINE q == [dev[d] EXCEPT !.late = @ \ {"endCall"}]
           r == cleanupCall(q)
<1>1. q \in Client
  BY ThisClient DEF Client
<1>2. Becomes(d, r)
  BY DEF Leave
<1>3. ClientsInv' /\ crossed' \subseteq Device
  <2> HIDE DEF q
  <2>1. r \in Client /\ Sound(r) /\ Waits(r)
    BY <1>1, CleanupGood
  <2> HIDE DEF r
  <2> QED
    BY <2>1, <1>2, ThisClient, BecomeGood DEF Inv
<1>4. NetType' /\ Signed'
  <2>1. CASE dev[d].peer # NoUser
    <3>1. dev[d].peer \in User /\ dev[d].dial \in 0..MaxCalls
      BY <2>1, ThisClient, ClientParts
    <3> QED
      BY <2>1, <3>1, FrameType, wsSendType DEF Leave, Inv
  <2>2. CASE dev[d].peer = NoUser
    BY <2>2, NetUnchanged DEF Leave, Inv
  <2> QED
    BY <2>1, <2>2
<1>5. outcomes' \in [CallId -> Nat]
  BY ThisClient, LogType DEF Leave
<1> QED
  BY <1>3, <1>4, <1>5, ClientStepInv, ThisClient

LEMMA EndingSteps ==
    ASSUME Inv, NEW d \in Device, LateEnd(d) \/ rejectCall(d) \/ endCall(d)
    PROVE  Inv'
BY LeaveStep DEF LateEnd, rejectCall, endCall

LEMMA LateCleanupStep ==
    ASSUME Inv, NEW d \in Device, LateCleanup(d)
    PROVE  Inv'
<1> DEFINE q == [dev[d] EXCEPT !.late = @ \ {"cleanupCall"}]
           r == cleanupCall(q)
<1>1. q \in Client
  BY ThisClient DEF Client
<1>2. Becomes(d, r)
  BY DEF LateCleanup
<1>3. ClientsInv' /\ crossed' \subseteq Device
  <2> HIDE DEF q
  <2>1. r \in Client /\ Sound(r) /\ Waits(r)
    BY <1>1, CleanupGood
  <2> HIDE DEF r
  <2> QED
    BY <2>1, <1>2, ThisClient, BecomeGood DEF Inv
<1>4. outcomes' \in [CallId -> Nat]
  BY ThisClient, LogType DEF LateCleanup
<1> QED
  BY <1>3, <1>4, ClientStepInv, NetUnchanged, ThisClient DEF LateCleanup, Inv

LEMMA AcceptCallStep ==
    ASSUME Inv, NEW d \in Device, acceptCall(d)
    PROVE  Inv'
<1> DEFINE r == [dev[d] EXCEPT !.connected = FALSE, !.logged = FALSE, !.accept = "media"]
<1>1. dev[d].dial = 0 /\ dev[d].accept = "no"
  BY DEF acceptCall, Incoming
<1>2. r \in Client
  BY ZenonT(30), ThisClient DEF Client
<1>3. /\ r.dial = 0 /\ r.accept = "media" /\ r.peer = dev[d].peer
      /\ r.start = dev[d].start /\ r.pc = dev[d].pc /\ r.offer = dev[d].offer
  BY ThisClient, <1>1 DEF Client
<1>4. ClientsInv' /\ crossed' \subseteq Device
  <2>1. Becomes(d, r)
    BY DEF acceptCall
  <2> HIDE DEF r
  <2>2. Sound(r) /\ Waits(r)
    BY ThisClient, <1>3 DEF Sound, Waits
  <2> QED
    BY <2>1, <2>2, <1>2, ThisClient, BecomeGood DEF Inv
<1> QED
  BY <1>4, ClientStepInv, NetUnchanged, ThisClient DEF acceptCall, Inv

LEMMA AcceptFailsStep ==
    ASSUME Inv, NEW d \in Device, AcceptFails(d)
    PROVE  Inv'
<1> DEFINE r == [dev[d] EXCEPT !.accept = "no"]
           q == cleanupCall(r)
<1>1. r \in Client /\ r.peer = dev[d].peer /\ r.dial = dev[d].dial
  BY ThisClient DEF Client
<1>2. /\ Becomes(d, q)
      /\ outcomes' = LogDone(r)
      /\ UNCHANGED <<sent, serverVars, drops>>
      /\ IF r.peer # NoUser
         THEN wsSend(d, FrameOf(d, "call-reject", r.peer, r.dial))
         ELSE UNCHANGED netVars
  BY DEF AcceptFails
<1> HIDE DEF r
<1>3. ClientsInv' /\ crossed' \subseteq Device
  <2>1. q \in Client /\ Sound(q) /\ Waits(q)
    BY <1>1, CleanupGood
  <2> HIDE DEF q
  <2> QED
    BY <2>1, <1>2, ThisClient, BecomeGood DEF Inv
<1>4. NetType' /\ Signed'
  <2>1. CASE r.peer # NoUser
    <3>1. r.peer \in User /\ r.dial \in 0..MaxCalls
      BY <2>1, <1>1, ClientParts
    <3> QED
      BY <2>1, <3>1, <1>2, FrameType, wsSendType DEF Inv
  <2>2. CASE r.peer = NoUser
    BY <2>2, <1>2, NetUnchanged DEF Inv
  <2> QED
    BY <2>1, <2>2
<1>5. outcomes' \in [CallId -> Nat]
  BY ThisClient, LogType, <1>1, <1>2
<1> QED
  BY <1>2, <1>3, <1>4, <1>5, ClientStepInv, ThisClient

LEMMA AcceptMediaStep ==
    ASSUME Inv, NEW d \in Device, AcceptMedia(d)
    PROVE  Inv'
<1> DEFINE f == dev[d].offer
           pc == IF f = NoFrame THEN NewPC ELSE [NewPC EXCEPT !.theirs = f.n, !.far = f.by]
           accept == IF f = NoFrame THEN "no" ELSE "answer"
           start == IF dev[d].start = "offer" THEN "no" ELSE dev[d].start
           r == [dev[d] EXCEPT !.pc = pc, !.offer = NoFrame, !.accept = accept,
                               !.start = start]
<1>1. dev[d].accept = "media" /\ Becomes(d, r)
  BY DEF AcceptMedia
<1>2. /\ pc \in PC /\ pc.open
      /\ accept = "answer" => pc.theirs # 0 /\ dev[d].peer # NoUser
  <2>1. CASE f = NoFrame
    BY <2>1, NewPCType
  <2>2. CASE f # NoFrame
    <3>1. f \in Frame /\ f.type = "call-offer" /\ dev[d].peer # NoUser
      BY <2>2, ThisClient, ClientParts DEF Sound
    <3>2. f.n \in 0..MaxCalls /\ f.n # 0 /\ f.by \in Device
      BY <3>1, OfferNumber, CallsAssumption DEF CallId
    <3> HIDE DEF f
    <3>3. pc = [NewPC EXCEPT !.theirs = f.n, !.far = f.by]
      BY <2>2
    <3> QED
      BY <3>1, <3>2, <3>3, NewPCType DEF PC, f
  <2> QED
    BY <2>1, <2>2
<1>3. accept \in {"no", "answer"} /\ start \in {"no", "media"}
  BY ThisClient, ClientParts
<1> HIDE DEF pc, accept, start
<1>4. r \in Client
  <2>1. dev[d] \in Client
    BY ThisClient
  <2> QED
    BY <2>1, <1>2, <1>3 DEF Client
<1>5. /\ r.dial = dev[d].dial /\ r.peer = dev[d].peer /\ r.pc = pc
      /\ r.accept = accept /\ r.start = start /\ r.offer = NoFrame
  BY ThisClient DEF Client
<1>6. /\ dev[d].start = "no" => start = "no"
      /\ start # "offer"
      /\ d \notin crossed => dev[d].dial = 0
  BY <1>1, <1>3, ThisClient DEF start, Apart
<1>7. ClientsInv' /\ crossed' \subseteq Device
  <2> HIDE DEF r
  <2>1. Sound(r) /\ (d \notin crossed => Waits(r))
    BY ThisClient, <1>2, <1>5, <1>6 DEF Sound, Waits
  <2> QED
    BY <2>1, <1>1, <1>4, ThisClient, BecomeGood DEF Inv
<1> QED
  BY <1>7, ClientStepInv, NetUnchanged, ThisClient DEF AcceptMedia, Inv

LEMMA SendAnswerStep ==
    ASSUME Inv, NEW d \in Device, SendAnswer(d)
    PROVE  Inv'
<1> DEFINE n == dev[d].pc.theirs
           r == [dev[d] EXCEPT !.pc.mine = n, !.dial = 0, !.accept = "no"]
<1>1. dev[d].pc \in PC /\ n \in CallId /\ n \in 0..MaxCalls /\ dev[d].peer \in User
  BY ThisClient, ClientParts, PCParts, CallsAssumption DEF SendAnswer, Sound, CallId
<1>2. Becomes(d, r) /\ wsSend(d, FrameOf(d, "call-answer", dev[d].peer, n))
  BY DEF SendAnswer
<1> HIDE DEF n
<1>3. [dev[d].pc EXCEPT !.mine = n] \in PC
  BY <1>1 DEF PC
<1>4. r \in Client
  <2>1. dev[d] \in Client /\ 0 \in 0..MaxCalls
    BY ThisClient, CallsAssumption
  <2> QED
    BY <2>1, <1>3 DEF Client
<1>5. /\ r.dial = 0 /\ r.accept = "no" /\ r.peer = dev[d].peer /\ r.start = dev[d].start
      /\ r.pc.open = dev[d].pc.open /\ r.offer = dev[d].offer
  BY ThisClient, <1>1 DEF Client, PC
<1>6. ClientsInv' /\ crossed' \subseteq Device
  <2> HIDE DEF r
  <2>1. Sound(r) /\ Waits(r)
    BY ThisClient, <1>5 DEF Sound, Waits
  <2> QED
    BY <2>1, <1>2, <1>4, ThisClient, BecomeGood DEF Inv
<1>7. NetType' /\ Signed'
  BY <1>1, <1>2, FrameType, wsSendType DEF Inv
<1> QED
  BY <1>6, <1>7, ClientStepInv, ThisClient DEF SendAnswer, Inv
-----------------------------------------------------------------------------
(* Frames that arrive, and the media connection *)

LEMMA HeadType ==
    ASSUME Inv, NEW d \in Device, down[d] # <<>>
    PROVE  Head(down[d]) \in Frame /\ Tail(down[d]) \in Seq(Frame)
BY DEF Inv, NetType

LEMMA ConsumedType ==
    ASSUME Inv, NEW d \in Device, down[d] # <<>>, down' = Consumed(d),
           UNCHANGED <<alive, outbox, up>>
    PROVE  NetType' /\ Signed'
<1>1. down' \in [Device -> Seq(Frame)]
  BY HeadType DEF Consumed, Inv, NetType
<1> QED
  BY <1>1 DEF Inv, NetType, Signed, FromOwner

LEMMA OnOfferStep ==
    ASSUME Inv, NEW d \in Device, OnOffer(d)
    PROVE  Inv'
<1> DEFINE f == Head(down[d])
<1>1. /\ f \in Frame /\ f.from \in User /\ f.type = "call-offer" /\ down[d] # <<>>
      /\ down' = Consumed(d) /\ UNCHANGED <<sent, outcomes, alive, outbox, serverVars, drops>>
  BY HeadType, OfferNumber DEF OnOffer, Arrives
<1>2. CASE dev[d].pc.open
  <2> DEFINE g == FrameOf(d, "call-reject", f.from, 0)
  <2>1. up' = [up EXCEPT ![d] = Append(@, g)] /\ UNCHANGED <<dev, crossed>>
    BY <1>2 DEF OnOffer
  <2>2. g \in Frame /\ g.from = Owner[d]
    BY <1>1, FrameType, CallsAssumption
  <2> HIDE DEF g, f
  <2>3. \A s \in Seq(Frame) : Append(s, g) \in Seq(Frame)
    BY <2>2
  <2>4. \A s \in Seq(Frame) : FromOwner(s, d) => FromOwner(Append(s, g), d)
    BY <2>2 DEF FromOwner
  <2>5. down' \in [Device -> Seq(Frame)]
    BY <1>1, HeadType DEF Consumed, Inv, NetType
  <2>6. NetType' /\ Signed'
    BY <1>1, <2>1, <2>3, <2>4, <2>5 DEF Inv, NetType, Signed
  <2>7. ClientsInv' /\ crossed' \subseteq Device
    BY <2>1, ThisClient DEF Inv, ClientsInv, Sound, Apart, Waits
  <2> QED
    BY <1>1, <2>6, <2>7, ClientStepInv, ThisClient
<1>3. CASE ~dev[d].pc.open
  <2> DEFINE r == [dev[d] EXCEPT !.peer = f.from, !.offer = f]
  <2>1. Becomes(d, r) /\ UNCHANGED up
    BY <1>3 DEF OnOffer
  <2>2. f.from # NoUser
    BY <1>1, CallsAssumption
  <2> HIDE DEF f
  <2>3. r \in Client
    BY ZenonT(30), <1>1, ThisClient DEF Client
  <2>4. /\ r.dial = dev[d].dial /\ r.peer = f.from /\ r.pc = dev[d].pc /\ r.offer = f
        /\ r.accept = dev[d].accept /\ r.start = dev[d].start
    BY ThisClient DEF Client
  <2> HIDE DEF r
  <2>5. Sound(r) /\ (d \notin crossed => Waits(r))
    BY <1>1, <1>3, <2>2, <2>4, ThisClient DEF Sound, Waits
  <2>6. ClientsInv' /\ crossed' \subseteq Device
    BY <2>1, <2>3, <2>5, ThisClient, BecomeGood DEF Inv
  <2>7. NetType' /\ Signed'
    BY <1>1, <2>1, ConsumedType
  <2> QED
    BY <1>1, <2>6, <2>7, ClientStepInv, ThisClient
<1> QED
  BY <1>2, <1>3

LEMMA OnAnswerStep ==
    ASSUME Inv, NEW d \in Device, OnAnswer(d)
    PROVE  Inv'
<1> DEFINE f == Head(down[d])
           taken == [dev[d] EXCEPT !.ring = FALSE, !.pc.theirs = f.n, !.pc.far = f.by]
           late == [dev[d] EXCEPT !.ring = FALSE]
           r == IF ~dev[d].pc.open THEN dev[d]
                ELSE IF dev[d].pc.mine # 0 /\ dev[d].pc.theirs = 0 THEN taken ELSE late
<1>1. /\ f \in Frame /\ f.type = "call-answer" /\ down[d] # <<>> /\ Becomes(d, r)
      /\ down' = Consumed(d) /\ UNCHANGED <<sent, outcomes, alive, outbox, up, serverVars, drops>>
  BY HeadType DEF OnAnswer, Arrives
<1>2. f.n \in 0..MaxCalls /\ f.n # 0 /\ f.by \in Device
  BY <1>1, OfferNumber, CallsAssumption DEF CallId
<1> HIDE DEF f
<1>3. taken \in Client /\ Sound(taken) /\ (Waits(dev[d]) => Waits(taken))
  <2> DEFINE pc == [dev[d].pc EXCEPT !.theirs = f.n, !.far = f.by]
  <2>1. dev[d].pc \in PC /\ dev[d] \in Client
    BY ThisClient, ClientParts
  <2>2. pc \in PC /\ pc.open = dev[d].pc.open /\ pc.mine = dev[d].pc.mine /\ pc.theirs # 0
    BY <2>1, <1>2 DEF PC
  <2>3. taken = [dev[d] EXCEPT !.ring = FALSE, !.pc = pc]
    BY <2>1 DEF Client
  <2> HIDE DEF pc, taken
  <2>4. taken \in Client
    BY <2>1, <2>2, <2>3 DEF Client
  <2>5. /\ taken.dial = dev[d].dial /\ taken.peer = dev[d].peer /\ taken.pc = pc
        /\ taken.offer = dev[d].offer /\ taken.accept = dev[d].accept
        /\ taken.start = dev[d].start
    BY <2>1, <2>3 DEF Client
  <2> QED
    BY <2>2, <2>4, <2>5, ThisClient DEF Sound, Waits
<1>4. /\ late \in Client /\ Sound(late)
      /\ Waits(dev[d]) /\ dev[d].pc.open /\ (dev[d].pc.mine = 0 \/ dev[d].pc.theirs # 0)
           => Waits(late)
  <2>1. late \in Client
    BY ZenonT(30), ThisClient DEF Client
  <2>2. /\ late.dial = dev[d].dial /\ late.peer = dev[d].peer /\ late.pc = dev[d].pc
        /\ late.offer = dev[d].offer /\ late.accept = dev[d].accept
        /\ late.start = dev[d].start
    BY ThisClient DEF Client
  <2> HIDE DEF late
  <2> QED
    BY <2>1, <2>2, ThisClient DEF Sound, Waits
<1>5. r \in Client /\ Sound(r) /\ (Waits(dev[d]) => Waits(r))
  <2> HIDE DEF taken, late
  <2> QED
    BY <1>3, <1>4, ThisClient
<1>6. ClientsInv' /\ crossed' \subseteq Device
  <2> HIDE DEF r
  <2> QED
    BY <1>1, <1>5, ThisClient, BecomeGood DEF Inv
<1>7. NetType' /\ Signed'
  BY <1>1, ConsumedType
<1> QED
  BY <1>1, <1>6, <1>7, ClientStepInv, ThisClient

LEMMA OnEndStep ==
    ASSUME Inv, NEW d \in Device, OnEnd(d)
    PROVE  Inv'
<1> DEFINE r == cleanupCall(dev[d])
<1>1. /\ down[d] # <<>> /\ Becomes(d, r) /\ outcomes' = LogDone(dev[d])
      /\ down' = Consumed(d) /\ UNCHANGED <<sent, alive, outbox, up, serverVars, drops>>
  BY DEF OnEnd, Arrives
<1>2. r \in Client /\ Sound(r) /\ Waits(r)
  BY ThisClient, CleanupGood
<1> HIDE DEF r
<1>3. ClientsInv' /\ crossed' \subseteq Device
  BY <1>1, <1>2, ThisClient, BecomeGood DEF Inv
<1> QED
  BY <1>1, <1>3, ConsumedType, LogType, ClientStepInv, ThisClient

LEMMA OnRejectStep ==
    ASSUME Inv, NEW d \in Device, OnReject(d)
    PROVE  Inv'
<1> DEFINE logged == dev[d].logged \/ MayLog(dev[d])
           r == [dev[d] EXCEPT !.late = @ \cup {"cleanupCall"}, !.logged = logged]
<1>1. /\ down[d] # <<>> /\ Becomes(d, r) /\ outcomes' = LogOnce(dev[d])
      /\ down' = Consumed(d) /\ UNCHANGED <<sent, alive, outbox, up, serverVars, drops>>
  BY DEF OnReject, Arrives
<1>2. logged \in BOOLEAN /\ dev[d].late \cup {"cleanupCall"} \subseteq {"endCall", "cleanupCall"}
  BY ThisClient, ClientParts DEF MayLog
<1> HIDE DEF logged
<1>3. r \in Client /\ r.late # {}
  BY ZenonT(30), ThisClient, <1>2 DEF Client
<1>4. /\ r.dial = dev[d].dial /\ r.pc = dev[d].pc /\ r.peer = dev[d].peer
      /\ r.start = dev[d].start /\ r.accept = dev[d].accept /\ r.offer = dev[d].offer
  BY ThisClient DEF Client
<1> HIDE DEF r
<1>5. Sound(r) /\ (Waits(dev[d]) => Waits(r))
  BY <1>3, <1>4, ThisClient DEF Sound, Waits
<1>6. ClientsInv' /\ crossed' \subseteq Device
  BY <1>1, <1>3, <1>5, ThisClient, BecomeGood DEF Inv
<1> QED
  BY <1>1, <1>6, ConsumedType, LogType, ClientStepInv, ThisClient

LEMMA MediaConnectsStep ==
    ASSUME Inv, NEW d \in Device, MediaConnects(d)
    PROVE  Inv'
<1> DEFINE r == [dev[d] EXCEPT !.connected = TRUE, !.ring = FALSE]
<1>1. Becomes(d, r) /\ UNCHANGED <<sent, outcomes, netVars, serverVars, drops>>
  BY DEF MediaConnects
<1>2. r \in Client /\ r.connected
  BY ZenonT(30), ThisClient DEF Client
<1>3. /\ r.dial = dev[d].dial /\ r.pc = dev[d].pc /\ r.peer = dev[d].peer
      /\ r.start = dev[d].start /\ r.accept = dev[d].accept /\ r.offer = dev[d].offer
  BY ThisClient DEF Client
<1> HIDE DEF r
<1>4. Sound(r) /\ (Waits(dev[d]) => Waits(r))
  BY <1>2, <1>3, ThisClient DEF Sound, Waits
<1>5. ClientsInv' /\ crossed' \subseteq Device
  BY <1>1, <1>2, <1>4, ThisClient, BecomeGood DEF Inv
<1> QED
  BY <1>1, <1>5, NetUnchanged, ClientStepInv, ThisClient DEF Inv

LEMMA MediaFailsStep ==
    ASSUME Inv, NEW d \in Device, MediaFails(d)
    PROVE  Inv'
<1> DEFINE r == cleanupCall(dev[d])
<1>1. /\ Becomes(d, r) /\ outcomes' = LogDone(dev[d])
      /\ UNCHANGED <<sent, netVars, serverVars, drops>>
  BY DEF MediaFails
<1>2. r \in Client /\ Sound(r) /\ Waits(r)
  BY ThisClient, CleanupGood
<1> HIDE DEF r
<1>3. ClientsInv' /\ crossed' \subseteq Device
  BY <1>1, <1>2, ThisClient, BecomeGood DEF Inv
<1> QED
  BY <1>1, <1>3, NetUnchanged, LogType, ClientStepInv, ThisClient DEF Inv
-----------------------------------------------------------------------------
(* Connections and the server *)

LEMMA EmptySigned ==
    ASSUME NEW d \in Device
    PROVE  <<>> \in Seq(Frame) /\ FromOwner(<<>>, d)
BY DEF FromOwner

(* A step that leaves the clients alone.                                      *)
LEMMA OtherStepInv ==
    ASSUME Inv, UNCHANGED clientVars, NetType', Signed', ServerType', drops' \in 0..MaxDrops
    PROVE  Inv'
BY DEF Inv, ClientsInv, CountType, clientVars, Sound, Apart, Waits

LEMMA ConnectStep ==
    ASSUME Inv, NEW d \in Device, Connect(d)
    PROVE  Inv'
<1>1. NetType'
  BY EmptySigned DEF Connect, Inv, NetType
<1>2. Signed'
  <2> SUFFICES ASSUME NEW e \in Device PROVE FromOwner(up'[e], e) /\ FromOwner(outbox'[e], e)
    BY DEF Signed, FromOwner
  <2>1. FromOwner(up[e], e) /\ FromOwner(outbox[e], e) /\ FromOwner(<<>>, e)
    BY EmptySigned DEF Inv, Signed
  <2> QED
    BY <2>1 DEF Connect, Inv, NetType
<1>3. ServerType'
  BY DEF Connect, Inv, ServerType
<1> QED
  BY <1>1, <1>2, <1>3, OtherStepInv DEF Connect, Inv, CountType

LEMMA DeliverType ==
    ASSUME Inv, NEW ds, NEW f \in Frame, Deliver(ds, f)
    PROVE  down' \in [Device -> Seq(Frame)]
<1>1. \A s \in Seq(Frame) : Append(s, f) \in Seq(Frame)
  OBVIOUS
<1> QED
  BY <1>1 DEF Deliver, Inv, NetType

LEMMA FlushStep ==
    ASSUME Inv, NEW d \in Device, flushCallSignals(d)
    PROVE  Inv'
<1>1. Owner[d] \in User
  BY CallsAssumption
<1>2. down' \in [Device -> Seq(Frame)]
  <2>1. CASE queue[Owner[d]] # NoFrame
    <3>1. queue[Owner[d]] \in Frame
      BY <1>1, <2>1 DEF Inv, ServerType
    <3> QED
      BY <2>1, <3>1, DeliverType DEF flushCallSignals
  <2>2. CASE queue[Owner[d]] = NoFrame
    BY <2>2 DEF flushCallSignals, Inv, NetType
  <2> QED
    BY <2>1, <2>2
<1>3. NetType' /\ Signed'
  BY <1>2 DEF flushCallSignals, Inv, NetType, Signed, FromOwner
<1>4. ServerType'
  BY <1>1 DEF flushCallSignals, Inv, ServerType
<1> QED
  BY <1>3, <1>4, OtherStepInv DEF flushCallSignals, Inv, CountType

LEMMA DropStep ==
    ASSUME Inv, NEW d \in Device, Drop(d)
    PROVE  Inv'
<1>1. NetType'
  BY EmptySigned DEF Drop, Inv, NetType
<1>2. Signed'
  <2> SUFFICES ASSUME NEW e \in Device PROVE FromOwner(up'[e], e) /\ FromOwner(outbox'[e], e)
    BY DEF Signed, FromOwner
  <2>1. FromOwner(up[e], e) /\ FromOwner(outbox[e], e) /\ FromOwner(<<>>, e)
    BY EmptySigned DEF Inv, Signed
  <2> QED
    BY <2>1 DEF Drop, Inv, NetType
<1>3. ServerType'
  BY DEF Drop, Inv, ServerType, serverVars
<1>4. drops' \in 0..MaxDrops
  BY CallsAssumption DEF Drop, Inv, CountType
<1> QED
  BY <1>1, <1>2, <1>3, <1>4, OtherStepInv DEF Drop

LEMMA ReloadStep ==
    ASSUME Inv, NEW d \in Device, Reload(d)
    PROVE  Inv'
<1>1. ClientsInv'
  <2>1. dev' = [dev EXCEPT ![d] = Idle] /\ crossed' = crossed
    BY DEF Reload
  <2>2. \A e \in Device : dev'[e] = dev[e] \/ dev'[e] = Idle
    BY <2>1 DEF Inv, ClientsInv
  <2>3. dev' \in [Device -> Client]
    BY <2>1, IdleGood DEF Inv, ClientsInv
  <2>4. \A e \in Device : Sound(dev'[e])
    BY <2>2, IdleGood DEF Inv, ClientsInv
  <2>5. \A e \in Device \ crossed' : Apart(dev'[e]) /\ Waits(dev'[e])
    BY <2>1, <2>2, IdleGood DEF Inv, ClientsInv
  <2> QED
    BY <2>3, <2>4, <2>5 DEF ClientsInv, Sound, Apart, Waits
<1>2. NetType'
  BY EmptySigned DEF Reload, Inv, NetType
<1>3. Signed'
  <2> SUFFICES ASSUME NEW e \in Device PROVE FromOwner(up'[e], e) /\ FromOwner(outbox'[e], e)
    BY DEF Signed, FromOwner
  <2>1. FromOwner(up[e], e) /\ FromOwner(outbox[e], e) /\ FromOwner(<<>>, e)
    BY EmptySigned DEF Inv, Signed
  <2> QED
    BY <2>1 DEF Reload, Inv, NetType
<1>4. ServerType'
  BY DEF Reload, Inv, ServerType, serverVars
<1>5. CountType'
  BY CallsAssumption DEF Reload, Inv, CountType
<1> QED
  BY <1>1, <1>2, <1>3, <1>4, <1>5 DEF Inv

LEMMA UnregisterStep ==
    ASSUME Inv, NEW d \in Device, Unregister(d)
    PROVE  Inv'
<1> DEFINE left == [callMap EXCEPT ![Owner[d]] = NoUser]
<1>1. left \in [User -> User \cup {NoUser}]
  BY DEF Inv, ServerType
<1>2. \A c \in User : [left EXCEPT ![c] = NoUser] \in [User -> User \cup {NoUser}]
  BY <1>1
<1>3. callMap' \in [User -> User \cup {NoUser}]
  BY <1>1, <1>2 DEF Unregister, Inv, ServerType
<1>4. ServerType'
  BY <1>3 DEF Unregister, Inv, ServerType
<1> QED
  BY <1>4, OtherStepInv, NetUnchanged DEF Unregister, Inv, CountType

LEMMA TrackAndRouteStep ==
    ASSUME Inv, NEW d \in Device, TrackAndRoute(d)
    PROVE  Inv'
<1> DEFINE f == Head(up[d])
<1>1. up[d] \in Seq(Frame) /\ up[d] # <<>> /\ FromOwner(up[d], d)
  BY DEF TrackAndRoute, Inv, NetType, Signed
<1>2. f \in Frame /\ Tail(up[d]) \in Seq(Frame) /\ FromOwner(Tail(up[d]), d)
  BY <1>1 DEF FromOwner
<1>3. f.from \in User /\ f.to \in User
  BY <1>2, OfferNumber
<1> HIDE DEF f
<1>4. NetType'
  <2>1. down' \in [Device -> Seq(Frame)]
    BY <1>2, DeliverType DEF TrackAndRoute, Inv, NetType, f
  <2> QED
    BY <1>2, <2>1 DEF TrackAndRoute, Inv, NetType
<1>5. Signed'
  BY <1>2 DEF TrackAndRoute, Inv, NetType, Signed, FromOwner
<1>6. callMap' \in [User -> User \cup {NoUser}]
  <2> DEFINE dropped == f.type = "call-offer" /\ callMap[f.from] # NoUser
  <2>1. callMap' = CASE dropped -> callMap
                     [] ~dropped /\ f.type = "call-offer" -> [callMap EXCEPT ![f.from] = f.to]
                     [] f.type = "call-answer" -> callMap
                     [] OTHER -> [callMap EXCEPT ![f.from] = NoUser, ![f.to] = NoUser]
    BY DEF TrackAndRoute, f
  <2> HIDE DEF dropped
  <2>2. callMap \in [User -> User \cup {NoUser}]
    BY DEF Inv, ServerType
  <2>3. /\ [callMap EXCEPT ![f.from] = f.to] \in [User -> User \cup {NoUser}]
        /\ [callMap EXCEPT ![f.from] = NoUser, ![f.to] = NoUser]
             \in [User -> User \cup {NoUser}]
    BY <1>3, <2>2
  <2> QED
    BY <2>1, <2>2, <2>3
<1>7. handling' \in [Device -> Frame \cup {NoFrame}]
  BY <1>2 DEF TrackAndRoute, Inv, ServerType, f
<1>8. ServerType'
  BY <1>6, <1>7 DEF TrackAndRoute, Inv, ServerType
<1> QED
  BY <1>4, <1>5, <1>8, OtherStepInv DEF TrackAndRoute, Inv, CountType

LEMMA AbsentStep ==
    ASSUME Inv, NEW d \in Device, Absent(d)
    PROVE  Inv'
<1> DEFINE f == handling[d]
<1>1. f \in Frame /\ f.to \in User /\ f.n \in 0..MaxCalls
  BY OfferNumber DEF Absent, Inv, ServerType
<1>2. queue' = CASE f.type = "call-offer" -> [queue EXCEPT ![f.to] = f]
                 [] f.type = "call-answer" -> queue
                 [] OTHER -> [queue EXCEPT ![f.to] = NoFrame]
  BY DEF Absent
<1>3. ended' = IF f.type = "call-end" /\ f.n # 0 THEN ended \cup {f.n} ELSE ended
  BY DEF Absent
<1> HIDE DEF f
<1>4. queue' \in [User -> Frame \cup {NoFrame}]
  BY <1>1, <1>2 DEF Inv, ServerType
<1>5. ended' \subseteq CallId
  <2>1. f.n # 0 => f.n \in CallId
    BY <1>1, CallsAssumption DEF CallId
  <2>2. ended \subseteq CallId
    BY DEF Inv, ServerType
  <2> QED
    BY <1>3, <2>1, <2>2
<1>6. ServerType'
  BY <1>4, <1>5 DEF Absent, Inv, ServerType
<1> QED
  BY <1>6, OtherStepInv, NetUnchanged DEF Absent, Inv, CountType

LEMMA ExpireStep ==
    ASSUME Inv, NEW u \in User, Expire(u)
    PROVE  Inv'
<1>1. ServerType'
  BY DEF Expire, Inv, ServerType
<1> QED
  BY <1>1, OtherStepInv, NetUnchanged DEF Expire, Inv, CountType
-----------------------------------------------------------------------------
(* All steps *)

LEMMA InitInv == Init => Inv
<1> SUFFICES ASSUME Init PROVE Inv
  OBVIOUS
<1>1. ClientsInv
  BY IdleGood DEF Init, ClientsInv
<1>2. NetType /\ Signed
  BY EmptySigned DEF Init, NetType, Signed
<1>3. ServerType
  BY DEF Init, ServerType
<1>4. CountType
  BY CallsAssumption DEF Init, CountType
<1> QED
  BY <1>1, <1>2, <1>3, <1>4 DEF Inv

LEMMA StepInv == Inv /\ [Next]_vars => Inv'
<1> SUFFICES ASSUME Inv, [Next]_vars PROVE Inv'
  OBVIOUS
<1>1. CASE UNCHANGED vars
  BY <1>1 DEF vars, Inv, ClientsInv, Sound, Apart, Waits, NetType, Signed, FromOwner,
              ServerType, CountType
<1>2. ASSUME NEW d \in Device, UserStep(d) PROVE Inv'
  BY <1>2, StartCallStep, AcceptCallStep, EndingSteps DEF UserStep
<1>3. ASSUME NEW d \in Device, ClientStep(d) PROVE Inv'
  BY <1>3, StartMediaStep, SendOfferStep, AcceptMediaStep, AcceptFailsStep, SendAnswerStep,
     RingTimeoutStep, EndingSteps, LateCleanupStep, OnOfferStep, OnAnswerStep, OnEndStep,
     OnRejectStep DEF ClientStep, handleCallMessage
<1>4. ASSUME NEW d \in Device, ServerStep(d) PROVE Inv'
  BY <1>4, FlushStep, TrackAndRouteStep, AbsentStep, UnregisterStep DEF ServerStep
<1>5. ASSUME NEW d \in Device,
             MediaConnects(d) \/ MediaFails(d) \/ Connect(d) \/ Drop(d) \/ Reload(d)
      PROVE  Inv'
  BY <1>5, MediaConnectsStep, MediaFailsStep, ConnectStep, DropStep, ReloadStep
<1>6. ASSUME NEW u \in User, Expire(u) PROVE Inv'
  BY <1>6, ExpireStep
<1> QED
  BY <1>1, <1>2, <1>3, <1>4, <1>5, <1>6 DEF Next

(* Every variable holds what the code can put there.                          *)
THEOREM TypeCorrect == Spec => []TypeOK
<1>1. Spec => []Inv
  BY InitInv, StepInv, PTL DEF Spec
<1> QED
  BY <1>1, InvType, PTL

(* A caller whose "Calling..." is on the screen has something that will end   *)
(* it, unless they took a call while their own was still being set up.        *)
THEOREM NeverStuck == Spec => []NeverStuckDialling
<1>1. Spec => []Inv
  BY InitInv, StepInv, PTL DEF Spec
<1>2. Inv => NeverStuckDialling
  BY DEF Inv, ClientsInv, Waits, NeverStuckDialling
<1> QED
  BY <1>1, <1>2, PTL
-----------------------------------------------------------------------------
(* The map of calls *)

(* The map changes by a routed frame and by a connection that goes.           *)
LEMMA MapStep ==
    ASSUME Inv, [Next]_vars
    PROVE  \/ callMap' = callMap /\ \A e \in Device : reg[e] # "no" => reg'[e] # "no"
           \/ \E d \in Device : TrackAndRoute(d)
           \/ \E d \in Device : Unregister(d)
<1> DEFINE Kept == callMap' = callMap /\ \A e \in Device : reg[e] # "no" => reg'[e] # "no"
<1>1. UNCHANGED serverVars => Kept
  BY DEF serverVars
<1>2. UNCHANGED vars => UNCHANGED serverVars
  BY DEF vars, serverVars
<1>3. ASSUME NEW d \in Device, UserStep(d) \/ ClientStep(d) \/ MediaConnects(d)
             \/ MediaFails(d) \/ Drop(d) \/ Reload(d)
      PROVE  UNCHANGED serverVars
  <2>1. CASE UserStep(d)
    BY <2>1 DEF UserStep, startCall, acceptCall, rejectCall, endCall, serverVars
  <2>2. CASE ClientStep(d)
    BY <2>2 DEF ClientStep, StartMedia, SendOffer, AcceptMedia, AcceptFails, SendAnswer,
                RingTimeout, LateEnd, LateCleanup, handleCallMessage, OnOffer, OnAnswer,
                OnEnd, OnReject, serverVars
  <2>3. CASE MediaConnects(d) \/ MediaFails(d) \/ Drop(d) \/ Reload(d)
    BY <2>3 DEF MediaConnects, MediaFails, Drop, Reload, serverVars
  <2> QED
    BY <1>3, <2>1, <2>2, <2>3
<1>4. ASSUME NEW d \in Device, Connect(d) \/ flushCallSignals(d) \/ Absent(d)
      PROVE  Kept
  BY <1>4 DEF Connect, flushCallSignals, Absent, Inv, ServerType
<1>5. ASSUME NEW u \in User, Expire(u) PROVE Kept
  BY <1>5 DEF Expire
<1> HIDE DEF Kept
<1>6. Kept \/ (\E d \in Device : TrackAndRoute(d)) \/ (\E d \in Device : Unregister(d))
  BY <1>1, <1>2, <1>3, <1>4, <1>5 DEF Next, ServerStep
<1> QED
  BY <1>6 DEF Kept

LEMMA CallerStep ==
    ASSUME Inv, CallerIsConnected, [Next]_vars
    PROVE  CallerIsConnected'
<1> SUFFICES ASSUME NEW u \in User, callMap'[u] # NoUser
             PROVE  \E e \in Device : Owner[e] = u /\ reg'[e] # "no"
  BY DEF CallerIsConnected, Registered, Devices
<1>1. callMap[u] # NoUser => \E e \in Device : Owner[e] = u /\ reg[e] # "no"
  BY DEF CallerIsConnected, Registered, Devices
<1>2. CASE callMap' = callMap /\ \A e \in Device : reg[e] # "no" => reg'[e] # "no"
  BY <1>1, <1>2
<1>3. ASSUME NEW d \in Device, TrackAndRoute(d)
      PROVE  \E e \in Device : Owner[e] = u /\ reg'[e] # "no"
  <2> DEFINE f == Head(up[d])
  <2>1. f \in Frame /\ f.from = Owner[d] /\ reg' = reg /\ reg[d] # "no"
    <3>1. /\ up[d] \in Seq(Frame) /\ up[d] # <<>> /\ reg' = reg /\ reg[d] # "no"
          /\ \A i \in 1 .. Len(up[d]) : up[d][i].from = Owner[d]
      BY <1>3 DEF TrackAndRoute, Inv, NetType, Signed, FromOwner
    <3>2. 1 \in 1 .. Len(up[d]) /\ f = up[d][1] /\ f \in Frame
      BY <3>1
    <3> QED
      BY <3>1, <3>2
  <2>2. CASE u = f.from
    BY <2>1, <2>2
  <2>3. CASE u # f.from
    <3>1. callMap'[u] = callMap[u] \/ callMap'[u] = NoUser
      <4>1. f.from \in User /\ f.to \in User /\ callMap \in [User -> User \cup {NoUser}]
        BY <2>1, OfferNumber DEF Inv, ServerType
      <4> HIDE DEF f
      <4>2. /\ [callMap EXCEPT ![f.from] = f.to][u] = callMap[u]
            /\ [callMap EXCEPT ![f.from] = NoUser, ![f.to] = NoUser][u]
                 \in {callMap[u], NoUser}
        BY <2>3, <4>1
      <4> QED
        BY <1>3, <4>2 DEF TrackAndRoute, f
    <3> QED
      BY <1>1, <2>1, <3>1
  <2> QED
    BY <2>2, <2>3
<1>4. ASSUME NEW d \in Device, Unregister(d)
      PROVE  \E e \in Device : Owner[e] = u /\ reg'[e] # "no"
  <2> DEFINE left == [callMap EXCEPT ![Owner[d]] = NoUser]
  <2>1. /\ Owner[d] \in User /\ callMap \in [User -> User \cup {NoUser}]
        /\ reg' = [reg EXCEPT ![d] = "no"] /\ reg \in [Device -> {"no", "fresh", "reading"}]
        /\ reg[d] = "reading"
    BY <1>4, CallsAssumption DEF Unregister, Inv, ServerType
  <2>2. CASE Registered(Owner[d]) # {d}
    <3>1. callMap' = callMap /\ \E e \in Device : Owner[e] = u /\ reg[e] # "no"
      BY <1>1, <1>4, <2>2 DEF Unregister
    <3>2. \E e \in Device : e # d /\ Owner[e] = Owner[d] /\ reg[e] # "no"
      BY <2>1, <2>2 DEF Registered, Devices
    <3>3. PICK e \in Device : Owner[e] = u /\ reg[e] # "no"
      BY <3>1
    <3>4. CASE e # d
      BY <2>1, <3>3, <3>4
    <3>5. CASE e = d
      BY <2>1, <3>2, <3>3, <3>5
    <3> QED
      BY <3>4, <3>5
  <2>3. CASE Registered(Owner[d]) = {d}
    <3>1. left \in [User -> User \cup {NoUser}] /\ left[Owner[d]] = NoUser
          /\ \A v \in User : v # Owner[d] => left[v] = callMap[v]
      BY <2>1
    <3>2. callMap' = left \/ \E c \in User : callMap' = [left EXCEPT ![c] = NoUser]
      BY <1>4, <2>3 DEF Unregister
    <3> HIDE DEF left
    <3>3. callMap'[u] = left[u]
      BY <3>1, <3>2
    <3>4. u # Owner[d] /\ callMap[u] # NoUser
      BY <3>1, <3>3
    <3> QED
      BY <1>1, <2>1, <3>4
  <2> QED
    BY <2>2, <2>3
<1> QED
  BY <1>2, <1>3, <1>4, MapStep

(* The map of calls has no caller without a connection.                       *)
THEOREM CallerStaysConnected == Spec => []CallerIsConnected
<1>1. Init => Inv /\ CallerIsConnected
  BY InitInv DEF Init, CallerIsConnected
<1>2. Inv /\ CallerIsConnected /\ [Next]_vars => (Inv /\ CallerIsConnected)'
  BY StepInv, CallerStep
<1> QED
  BY <1>1, <1>2, PTL DEF Spec
-----------------------------------------------------------------------------
(* The call log *)

(* The numbers of calls are given out once, and a call whose outcome is in    *)
(* the conversation is known as logged to the client that placed it.          *)
LogInv ==
    /\ \A n \in CallId : outcomes[n] <= 1 /\ (outcomes[n] # 0 => n <= sent)
    /\ \A d \in Device : dev[d].dial <= sent
    /\ \A d, e \in Device : dev[d].dial # 0 /\ dev[d].dial = dev[e].dial => d = e
    /\ \A d \in Device : dev[d].dial # 0 /\ outcomes[dev[d].dial] # 0 => dev[d].logged

(* A client that logs its call's outcome if it has not, and notes that it has.*)
LEMMA LogStep ==
    ASSUME Inv, LogInv, NEW d \in Device, NEW r,
           dev' = [dev EXCEPT ![d] = r], sent' = sent,
           outcomes' = LogOnce(dev[d]),
           \/ r.dial = 0
           \/ r.dial = dev[d].dial /\ r.logged = (dev[d].logged \/ MayLog(dev[d]))
    PROVE  LogInv'
<1> DEFINE k == dev[d].dial
<1>1. /\ k \in 0..MaxCalls /\ sent \in 0..MaxCalls /\ outcomes \in [CallId -> Nat]
      /\ k # 0 => k \in CallId
      /\ dev[d] \in Client
      /\ \A e \in Device : e # d => dev'[e] = dev[e]
      /\ dev'[d] = r
      /\ \A e \in Device : dev[e].dial \in 0..MaxCalls
      /\ \A e \in Device : dev[e].dial # 0 => dev[e].dial \in CallId
  BY ThisClient, ClientParts, CallsAssumption DEF Inv, ClientsInv, CallId
<1>2. CASE MayLog(dev[d])
  <2>1. k # 0 /\ ~dev[d].logged /\ outcomes' = [outcomes EXCEPT ![k] = @ + 1]
    BY <1>2 DEF MayLog, LogOnce
  <2>2. outcomes[k] = 0 /\ k <= sent
    BY <2>1, <1>1 DEF LogInv
  <2>3. /\ outcomes'[k] = 1
        /\ \A n \in CallId : n # k => outcomes'[n] = outcomes[n]
    BY <1>1, <2>1, <2>2
  <2>4. r.dial = 0 \/ (r.dial = k /\ r.logged)
    BY <1>2
  <2> HIDE DEF k
  <2>5. \A n \in CallId : outcomes'[n] <= 1 /\ (outcomes'[n] # 0 => n <= sent')
    BY <1>1, <2>1, <2>2, <2>3 DEF LogInv
  <2>6. \A e \in Device : dev'[e].dial <= sent'
    BY <1>1, <2>2, <2>4 DEF LogInv
  <2>7. \A e, c \in Device : dev'[e].dial # 0 /\ dev'[e].dial = dev'[c].dial => e = c
    BY <1>1, <2>4 DEF LogInv, k
  <2>8. \A e \in Device : dev'[e].dial # 0 /\ outcomes'[dev'[e].dial] # 0 => dev'[e].logged
    <3> SUFFICES ASSUME NEW e \in Device, dev'[e].dial # 0, outcomes'[dev'[e].dial] # 0
                 PROVE  dev'[e].logged
      OBVIOUS
    <3>1. CASE e = d
      BY <3>1, <1>1, <2>4
    <3>2. CASE e # d
      <4>1. dev[e].dial # k /\ dev'[e] = dev[e] /\ dev[e].dial \in CallId
        BY <3>2, <1>1, <2>1 DEF LogInv, k
      <4> QED
        BY <4>1, <2>3 DEF LogInv
    <3> QED
      BY <3>1, <3>2
  <2> QED
    BY <2>5, <2>6, <2>7, <2>8 DEF LogInv
<1>3. CASE ~MayLog(dev[d])
  <2>1. outcomes' = outcomes /\ (r.dial = 0 \/ (r.dial = k /\ (dev[d].logged => r.logged)))
    BY <1>3 DEF LogOnce
  <2>2. \A e \in Device :
           \/ dev'[e].dial = 0
           \/ dev'[e].dial = dev[e].dial /\ (dev[e].logged => dev'[e].logged)
    BY <1>1, <2>1
  <2> QED
    BY <1>1, <2>1, <2>2 DEF LogInv
<1> QED
  BY <1>2, <1>3

(* A client that logs nothing.                                                *)
LEMMA QuietStep ==
    ASSUME Inv, LogInv, NEW d \in Device, NEW r,
           dev' = [dev EXCEPT ![d] = r], sent' = sent, outcomes' = outcomes,
           \/ r.dial = 0
           \/ r.dial = dev[d].dial /\ r.logged = dev[d].logged
    PROVE  LogInv'
<1>1. /\ sent \in 0..MaxCalls /\ dev[d] \in Client
      /\ \A e \in Device : \/ dev'[e].dial = 0
                           \/ dev'[e].dial = dev[e].dial /\ dev'[e].logged = dev[e].logged
  BY ThisClient DEF Inv, ClientsInv
<1> QED
  BY <1>1 DEF LogInv

LEMMA NoClientStep ==
    ASSUME LogInv, UNCHANGED clientVars
    PROVE  LogInv'
BY DEF LogInv, clientVars

(* The end of a call, which logs it when it was connected.                    *)
LEMMA DoneStep ==
    ASSUME Inv, LogInv, NEW d \in Device, NEW r, r.dial = 0,
           dev' = [dev EXCEPT ![d] = r], sent' = sent, outcomes' = LogDone(dev[d])
    PROVE  LogInv'
<1>1. CASE dev[d].connected
  BY <1>1, LogStep DEF LogDone
<1>2. CASE ~dev[d].connected
  BY <1>2, QuietStep DEF LogDone
<1> QED
  BY <1>1, <1>2

LEMMA CleanupDial == \A r : cleanupCall(r).dial = 0
BY DEF cleanupCall, Idle

LEMMA EndsLog ==
    ASSUME Inv, LogInv, NEW d \in Device,
           \/ LateEnd(d) \/ rejectCall(d) \/ endCall(d) \/ LateCleanup(d)
           \/ OnEnd(d) \/ MediaFails(d)
    PROVE  LogInv'
<1>1. ASSUME NEW q, Becomes(d, cleanupCall(q)), outcomes' = LogDone(dev[d]), sent' = sent
      PROVE  LogInv'
  BY <1>1, DoneStep, CleanupDial DEF Becomes
<1>2. CASE LateEnd(d) \/ rejectCall(d) \/ endCall(d)
  BY <1>1, <1>2 DEF LateEnd, rejectCall, endCall, Leave
<1>3. CASE LateCleanup(d) \/ OnEnd(d) \/ MediaFails(d)
  BY <1>1, <1>3 DEF LateCleanup, OnEnd, MediaFails
<1> QED
  BY <1>2, <1>3

LEMMA AcceptFailsLog ==
    ASSUME Inv, LogInv, NEW d \in Device, AcceptFails(d)
    PROVE  LogInv'
<1> DEFINE r == [dev[d] EXCEPT !.accept = "no"]
<1>1. /\ r.dial = dev[d].dial /\ r.logged = dev[d].logged /\ r.peer = dev[d].peer
      /\ r.connected = dev[d].connected
  BY ThisClient DEF Client
<1>2. /\ Becomes(d, cleanupCall(r)) /\ outcomes' = LogDone(r) /\ sent' = sent
  BY DEF AcceptFails
<1> HIDE DEF r
<1>3. LogDone(r) = LogDone(dev[d])
  BY <1>1 DEF LogDone, LogOnce, MayLog
<1> QED
  BY <1>2, <1>3, DoneStep, CleanupDial DEF Becomes

(* Steps that begin or change a call without an outcome.                      *)
LEMMA OtherLog ==
    ASSUME Inv, LogInv, NEW d \in Device,
           \/ startCall(d) \/ acceptCall(d) \/ StartMedia(d) \/ AcceptMedia(d)
           \/ SendAnswer(d) \/ OnOffer(d) \/ OnAnswer(d) \/ MediaConnects(d) \/ Reload(d)
    PROVE  LogInv'
<1> DEFINE Quiet(r) == \/ r.dial = 0
                       \/ r.dial = dev[d].dial /\ r.logged = dev[d].logged
<1>1. dev[d] \in Client /\ Sound(dev[d])
  BY ThisClient
<1>2. ASSUME NEW r, Becomes(d, r), Quiet(r), UNCHANGED <<sent, outcomes>>
      PROVE  LogInv'
  BY <1>2, QuietStep DEF Becomes
<1>3. CASE startCall(d)
  <2> DEFINE r == [dev[d] EXCEPT !.connected = FALSE, !.logged = FALSE, !.start = "media"]
  <2>1. r.dial = 0 /\ Becomes(d, r)
    BY <1>1, <1>3 DEF startCall, Sound, Client
  <2> HIDE DEF r
  <2> QED
    BY <1>2, <1>3, <2>1 DEF startCall
<1>4. CASE acceptCall(d)
  <2> DEFINE r == [dev[d] EXCEPT !.connected = FALSE, !.logged = FALSE, !.accept = "media"]
  <2>1. r.dial = 0 /\ Becomes(d, r)
    BY <1>1, <1>4 DEF acceptCall, Incoming, Client
  <2> HIDE DEF r
  <2> QED
    BY <1>2, <1>4, <2>1 DEF acceptCall
<1>5. CASE StartMedia(d)
  <2> DEFINE q == [dev[d] EXCEPT !.pc = NewPC, !.start = "offer",
                                 !.accept = IF @ = "answer" THEN "no" ELSE @]
             r == [dev[d] EXCEPT !.start = "no"]
  <2>1. Quiet(q) /\ Quiet(r)
    BY <1>1 DEF Client
  <2>2. Becomes(d, q) \/ Becomes(d, r)
    BY <1>5 DEF StartMedia
  <2> HIDE DEF q, r, Quiet
  <2> QED
    BY <1>2, <1>5, <2>1, <2>2 DEF StartMedia
<1>6. CASE AcceptMedia(d)
  <2> DEFINE f == dev[d].offer
             r == [dev[d] EXCEPT
                    !.pc = IF f = NoFrame THEN NewPC
                           ELSE [NewPC EXCEPT !.theirs = f.n, !.far = f.by],
                    !.offer = NoFrame,
                    !.accept = IF f = NoFrame THEN "no" ELSE "answer",
                    !.start = IF @ = "offer" THEN "no" ELSE @]
  <2>1. Quiet(r)
    BY <1>1 DEF Client
  <2>2. Becomes(d, r)
    BY <1>6 DEF AcceptMedia
  <2> HIDE DEF r, Quiet
  <2> QED
    BY <1>2, <1>6, <2>1, <2>2 DEF AcceptMedia
<1>7. CASE SendAnswer(d)
  <2> DEFINE r == [dev[d] EXCEPT !.pc.mine = dev[d].pc.theirs, !.dial = 0, !.accept = "no"]
  <2>1. Quiet(r)
    BY <1>1 DEF Client
  <2>2. Becomes(d, r)
    BY <1>7 DEF SendAnswer
  <2> HIDE DEF r, Quiet
  <2> QED
    BY <1>2, <1>7, <2>1, <2>2 DEF SendAnswer
<1>8. CASE OnOffer(d)
  <2> DEFINE f == Head(down[d])
             r == [dev[d] EXCEPT !.peer = f.from, !.offer = f]
  <2>1. Quiet(r)
    BY <1>1 DEF Client
  <2>2. UNCHANGED <<dev, crossed>> \/ Becomes(d, r)
    BY <1>8 DEF OnOffer
  <2> HIDE DEF r, Quiet
  <2> QED
    BY <1>2, <1>8, <2>1, <2>2, NoClientStep DEF OnOffer, clientVars
<1>9. CASE OnAnswer(d)
  <2> DEFINE f == Head(down[d])
             q == [dev[d] EXCEPT !.ring = FALSE, !.pc.theirs = f.n, !.pc.far = f.by]
             r == [dev[d] EXCEPT !.ring = FALSE]
  <2>1. Quiet(q) /\ Quiet(r) /\ Quiet(dev[d])
    BY <1>1 DEF Client
  <2>2. Becomes(d, q) \/ Becomes(d, r) \/ Becomes(d, dev[d])
    BY <1>9 DEF OnAnswer
  <2> HIDE DEF q, r, Quiet
  <2> QED
    BY <1>2, <1>9, <2>1, <2>2 DEF OnAnswer
<1>10. CASE MediaConnects(d)
  <2> DEFINE r == [dev[d] EXCEPT !.connected = TRUE, !.ring = FALSE]
  <2>1. Quiet(r)
    BY <1>1 DEF Client
  <2>2. Becomes(d, r)
    BY <1>10 DEF MediaConnects
  <2> HIDE DEF r, Quiet
  <2> QED
    BY <1>2, <1>10, <2>1, <2>2 DEF MediaConnects
<1>11. CASE Reload(d)
  <2>1. Idle.dial = 0
    BY DEF Idle
  <2> QED
    BY <1>11, <2>1, QuietStep DEF Reload
<1> QED
  BY <1>3, <1>4, <1>5, <1>6, <1>7, <1>8, <1>9, <1>10, <1>11

LEMMA SendOfferLog ==
    ASSUME Inv, LogInv, NEW d \in Device, NEW u \in User, SendOffer(d, u)
    PROVE  LogInv'
<1> DEFINE n == sent + 1
           r == [dev[d] EXCEPT !.pc.mine = n, !.peer = u, !.dial = n,
                               !.ring = TRUE, !.start = "no"]
<1>1. /\ dev' = [dev EXCEPT ![d] = r] /\ sent' = n /\ outcomes' = outcomes
      /\ n \in CallId /\ sent \in 0..MaxCalls
      /\ \A e \in Device : dev[e] \in Client /\ dev[e].dial \in 0..MaxCalls
      /\ outcomes \in [CallId -> Nat] /\ dev \in [Device -> Client]
  BY ThisClient, ClientParts, CallsAssumption DEF SendOffer, Becomes, CallId, Inv, ClientsInv
<1>2. r.dial = n
  BY <1>1 DEF Client
<1>3. n = sent + 1
  OBVIOUS
<1> HIDE DEF r, n
<1>4. dev'[d].dial = n /\ \A e \in Device : e # d => dev'[e] = dev[e]
  BY <1>1, <1>2
<1>5. outcomes[n] = 0
  BY <1>1, <1>3 DEF LogInv
<1>6. \A k \in CallId : outcomes'[k] <= 1 /\ (outcomes'[k] # 0 => k <= sent')
  BY <1>1, <1>3 DEF LogInv, CallId
<1>7. \A e \in Device : dev[e].dial <= sent /\ dev[e].dial # n
  BY <1>1, <1>3 DEF LogInv
<1>8. \A e \in Device : dev'[e].dial <= sent'
  BY <1>1, <1>3, <1>4, <1>7
<1>9. \A e, c \in Device : dev'[e].dial # 0 /\ dev'[e].dial = dev'[c].dial => e = c
  BY <1>4, <1>7 DEF LogInv
<1>10. \A e \in Device : dev'[e].dial # 0 /\ outcomes'[dev'[e].dial] # 0 => dev'[e].logged
  BY <1>1, <1>4, <1>5 DEF LogInv
<1> QED
  BY <1>6, <1>8, <1>9, <1>10 DEF LogInv

LEMMA RefusalLog ==
    ASSUME Inv, LogInv, NEW d \in Device, RingTimeout(d) \/ OnReject(d)
    PROVE  LogInv'
<1>1. dev[d] \in Client
  BY ThisClient
<1>2. CASE OnReject(d)
  <2> DEFINE r == [dev[d] EXCEPT !.late = @ \cup {"cleanupCall"},
                                 !.logged = @ \/ MayLog(dev[d])]
  <2>1. /\ r.dial = dev[d].dial /\ r.logged = (dev[d].logged \/ MayLog(dev[d]))
        /\ dev' = [dev EXCEPT ![d] = r] /\ sent' = sent /\ outcomes' = LogOnce(dev[d])
    BY <1>1, <1>2 DEF OnReject, Becomes, Client
  <2> HIDE DEF r
  <2> QED
    BY <2>1, LogStep
<1>3. CASE RingTimeout(d) /\ dev[d].pc.open /\ dev[d].pc.theirs = 0
  <2> DEFINE r == [dev[d] EXCEPT !.ring = FALSE, !.late = @ \cup {"endCall"},
                                 !.logged = @ \/ MayLog(dev[d])]
  <2>1. /\ r.dial = dev[d].dial /\ r.logged = (dev[d].logged \/ MayLog(dev[d]))
        /\ dev' = [dev EXCEPT ![d] = r] /\ sent' = sent /\ outcomes' = LogOnce(dev[d])
    BY <1>1, <1>3 DEF RingTimeout, Becomes, Client
  <2> HIDE DEF r
  <2> QED
    BY <2>1, LogStep
<1>4. CASE RingTimeout(d) /\ ~(dev[d].pc.open /\ dev[d].pc.theirs = 0)
  <2> DEFINE r == [dev[d] EXCEPT !.ring = FALSE]
  <2>1. /\ r.dial = dev[d].dial /\ r.logged = dev[d].logged
        /\ dev' = [dev EXCEPT ![d] = r] /\ sent' = sent /\ outcomes' = outcomes
    BY <1>1, <1>4 DEF RingTimeout, Becomes, Client
  <2> HIDE DEF r
  <2> QED
    BY <2>1, QuietStep
<1> QED
  BY <1>2, <1>3, <1>4

LEMMA LogInvStep ==
    ASSUME Inv, LogInv, [Next]_vars
    PROVE  LogInv'
<1>1. CASE UNCHANGED vars
  BY <1>1, NoClientStep DEF vars, clientVars
<1>2. ASSUME NEW d \in Device, UserStep(d) \/ ClientStep(d) \/ MediaConnects(d)
             \/ MediaFails(d) \/ Reload(d)
      PROVE  LogInv'
  BY <1>2, EndsLog, AcceptFailsLog, OtherLog, SendOfferLog, RefusalLog
     DEF UserStep, ClientStep, handleCallMessage
<1>3. ASSUME NEW d \in Device, ServerStep(d) \/ Connect(d) \/ Drop(d)
      PROVE  LogInv'
  BY <1>3, NoClientStep DEF ServerStep, flushCallSignals, TrackAndRoute, Absent, Unregister,
                            Connect, Drop
<1>4. ASSUME NEW u \in User, Expire(u) PROVE LogInv'
  BY <1>4, NoClientStep DEF Expire
<1> QED
  BY <1>1, <1>2, <1>3, <1>4 DEF Next

(* No call has two lines in the conversation.                                 *)
THEOREM OneOutcome == Spec => []LoggedOnce
<1>1. Init => Inv /\ LogInv
  <2> SUFFICES ASSUME Init PROVE Inv /\ LogInv
    OBVIOUS
  <2>1. \A d \in Device : dev[d].dial = 0
    BY DEF Init, Idle
  <2> QED
    BY <2>1, InitInv DEF Init, LogInv
<1>2. Inv /\ LogInv /\ [Next]_vars => (Inv /\ LogInv)'
  BY StepInv, LogInvStep
<1>3. LogInv => LoggedOnce
  BY DEF LogInv, LoggedOnce
<1> QED
  BY <1>1, <1>2, <1>3, PTL DEF Spec
-----------------------------------------------------------------------------
(* Who called whom                                                         *)

(* A call's number stands for one caller's device and one callee, though   *)
(* no variable remembers them: there is a book that all frames and all     *)
(* clients agree with, and SendOffer writes one line of it.                *)
Entry(d, u) == [by |-> d, to |-> u]
Books == [CallId -> [by : Device \cup {NoDevice}, to : User \cup {NoUser}]]

FrameOk(book, last, f) ==
    /\ f.type = "call-offer" => /\ f.n <= last /\ book[f.n] = Entry(f.by, f.to)
                                /\ f.from = Owner[f.by]
    /\ f.type = "call-answer" => f.n <= last /\ book[f.n].to = Owner[f.by]
    /\ f.type = "call-end" /\ f.n # 0 => f.n <= last /\ book[f.n] = Entry(f.by, f.to)
SeqOk(book, last, s) == \A i \in 1..Len(s) : FrameOk(book, last, s[i])
SentBy(s, d) == \A i \in 1..Len(s) : s[i].by = d
SentTo(s, u) == \A i \in 1..Len(s) : s[i].to = u

(* A client's frames that have not been taken up, in order.                *)
Line(d) == IF alive[d] THEN up[d] ELSE outbox[d]
Sides == \A d \in Device : /\ alive[d] => outbox[d] = <<>>
                           /\ ~alive[d] => up[d] = <<>> /\ down[d] = <<>>

FramesOk(book, d) ==
    /\ SeqOk(book, sent, Line(d)) /\ SentBy(Line(d), d)
    /\ SeqOk(book, sent, down[d]) /\ SentTo(down[d], Owner[d])
    /\ handling[d] # NoFrame => FrameOk(book, sent, handling[d]) /\ handling[d].by = d
QueuedOk(book, u) ==
    queue[u] # NoFrame => /\ queue[u].type = "call-offer" /\ queue[u].to = u
                          /\ FrameOk(book, sent, queue[u])
NetOk(book) == /\ \A d \in Device : FramesOk(book, d)
               /\ \A u \in User : QueuedOk(book, u)

(* A client with a number in its connection placed the call, or took an    *)
(* offer for it, or took somebody's answer for one.                        *)
ClientOk(book, last, d, r) ==
    /\ r.dial # 0 => r.dial <= last /\ book[r.dial] = Entry(d, r.peer) /\ r.pc.open
    /\ r.offer # NoFrame => FrameOk(book, last, r.offer) /\ r.offer.to = Owner[d]
    /\ r.start = "offer" => r.pc = NewPC
    /\ r.accept = "answer" => r.start # "offer" /\ book[r.pc.theirs].to = Owner[d]
    /\ ~r.pc.open => r.pc.mine = 0 /\ r.pc.theirs = 0
    /\ r.pc.theirs = 0 => r.pc.far = NoDevice
    /\ r.pc.theirs # 0 =>
          /\ r.pc.theirs <= last /\ r.pc.far \in Device
          /\ \/ book[r.pc.theirs] = Entry(r.pc.far, Owner[d])
             \/ book[r.pc.theirs].to = Owner[r.pc.far]

(* Who is on the overlay, of a client that did not answer while dialling.  *)
Shows(r) ==
    /\ r.dial = 0 /\ r.offer # NoFrame => r.peer = r.offer.from
    /\ r.dial = 0 /\ r.pc.theirs # 0 => r.peer = Owner[r.pc.far]
    /\ r.pc.mine # 0 => r.dial = r.pc.mine \/ r.pc.theirs # 0
    /\ r.start # "no" \/ r.accept # "no" => r.pc.mine = 0
    /\ r.connected => r.pc.mine # 0 /\ r.pc.theirs # 0 /\ r.peer = Owner[r.pc.far]

BookOk(book, last) ==
    book \in Books /\ \A n \in 1..last : book[n].to # Owner[book[n].by]
Kept(book) == /\ BookOk(book, sent) /\ NetOk(book)
              /\ \A d \in Device : ClientOk(book, sent, d, dev[d])
BookInv == (\E book \in Books : Kept(book)) /\ Sides
ShowsInv == \A d \in Device \ crossed : Shows(dev[d])

(* The end of a call stays behind its offer, and the offer is nowhere once *)
(* the end has found the callee absent.                                    *)
IsOffer(f, n) == f # NoFrame /\ f.type = "call-offer" /\ f.n = n
IsEnd(f, n) == f # NoFrame /\ f.type = "call-end" /\ f.n = n
Offers(s, n) == \E i \in 1..Len(s) : IsOffer(s[i], n)
Follows(s) == \A n \in CallId : \A i, j \in 1..Len(s) :
                  i < j /\ IsEnd(s[i], n) => ~IsOffer(s[j], n)
InOrder(d) == /\ Follows(Line(d))
              /\ \A n \in CallId : IsEnd(handling[d], n) => ~Offers(Line(d), n)
EndedGone ==
    \A n \in ended :
        /\ n <= sent
        /\ \A d \in Device : ~Offers(Line(d), n) /\ ~IsOffer(handling[d], n)
        /\ \A u \in User : ~IsOffer(queue[u], n)
EndedInv == (\A d \in Device : InOrder(d)) /\ EndedGone

(* A later book says the same of the calls there were.                     *)
Later(book, last, c, next) ==
    /\ BookOk(c, next) /\ last \in 0..MaxCalls /\ next \in 0..MaxCalls /\ last <= next
    /\ \A n \in 1..last : c[n] = book[n]

LEMMA SameBook ==
    ASSUME Inv, NEW book, BookOk(book, sent)
    PROVE  Later(book, sent, book, sent)
BY DEF Later, Inv, CountType

LEMMA FrameLater ==
    ASSUME NEW book, NEW last, NEW c, NEW next, Later(book, last, c, next),
           NEW f \in Frame, FrameOk(book, last, f)
    PROVE  FrameOk(c, next, f)
<1>1. f.n \in 0..MaxCalls /\ (f.type \in {"call-offer", "call-answer"} => f.n \in 1..MaxCalls)
      /\ MaxCalls \in Nat
  BY OfferNumber, CallsAssumption DEF CallId
<1> QED
  BY <1>1 DEF FrameOk, Later

LEMMA SeqLater ==
    ASSUME NEW book, NEW last, NEW c, NEW next, Later(book, last, c, next),
           NEW s \in Seq(Frame), SeqOk(book, last, s)
    PROVE  SeqOk(c, next, s)
<1>1. \A i \in 1..Len(s) : s[i] \in Frame
  OBVIOUS
<1> QED
  BY <1>1, FrameLater DEF SeqOk

LEMMA ClientLater ==
    ASSUME NEW book, NEW last, NEW c, NEW next, Later(book, last, c, next),
           NEW d \in Device, NEW r \in Client, ClientOk(book, last, d, r), Sound(r)
    PROVE  ClientOk(c, next, d, r)
<1>1. r.dial \in 0..MaxCalls /\ r.pc.theirs \in 0..MaxCalls /\ r.offer \in Frame \cup {NoFrame}
      /\ MaxCalls \in Nat
  BY ClientParts, PCParts, CallsAssumption
<1>2. r.offer # NoFrame => FrameOk(c, next, r.offer)
  BY <1>1, FrameLater DEF ClientOk
<1>3. r.accept = "answer" => r.pc.theirs # 0
  BY DEF Sound
<1>4. r.pc.theirs # 0 => c[r.pc.theirs] = book[r.pc.theirs] /\ r.pc.theirs <= next
  BY <1>1 DEF ClientOk, Later
<1>5. r.dial # 0 => c[r.dial] = book[r.dial] /\ r.dial <= next
  BY <1>1 DEF ClientOk, Later
<1> QED
  BY <1>2, <1>3, <1>4, <1>5 DEF ClientOk

LEMMA SeqParts ==
    ASSUME NEW s \in Seq(Frame), NEW f \in Frame
    PROVE  /\ Append(s, f) \in Seq(Frame) /\ Len(Append(s, f)) = Len(s) + 1 /\ Len(s) \in Nat
           /\ \A i \in 1..Len(s) : Append(s, f)[i] = s[i] /\ s[i] \in Frame
           /\ Append(s, f)[Len(s) + 1] = f
           /\ s # <<>> => /\ Head(s) = s[1] /\ Head(s) \in Frame /\ Tail(s) \in Seq(Frame)
                          /\ Len(s) >= 1 /\ Len(Tail(s)) = Len(s) - 1
                          /\ \A i \in 1..Len(Tail(s)) : Tail(s)[i] = s[i + 1] /\ i + 1 \in 1..Len(s)
OBVIOUS

LEMMA AppendOk ==
    ASSUME NEW s \in Seq(Frame), NEW f \in Frame
    PROVE  /\ \A book, last : SeqOk(book, last, s) /\ FrameOk(book, last, f)
                                 => SeqOk(book, last, Append(s, f))
           /\ \A d : SentBy(s, d) /\ f.by = d => SentBy(Append(s, f), d)
           /\ \A u : SentTo(s, u) /\ f.to = u => SentTo(Append(s, f), u)
<1>1. \A i \in 1..(Len(s) + 1) : i \in 1..Len(s) \/ i = Len(s) + 1
  BY SeqParts
<1> QED
  BY <1>1, SeqParts DEF SeqOk, SentBy, SentTo

LEMMA TailOk ==
    ASSUME NEW s \in Seq(Frame), s # <<>>
    PROVE  /\ Head(s) \in Frame
           /\ \A book, last : SeqOk(book, last, s) => /\ FrameOk(book, last, Head(s))
                                                      /\ SeqOk(book, last, Tail(s))
           /\ \A d : SentBy(s, d) => Head(s).by = d /\ SentBy(Tail(s), d)
           /\ \A u : SentTo(s, u) => Head(s).to = u /\ SentTo(Tail(s), u)
<1>1. 1 \in 1..Len(s) /\ Head(s) = s[1] /\ Head(s) \in Frame
  OBVIOUS
<1>2. \A i \in 1..Len(Tail(s)) : Tail(s)[i] = s[i + 1] /\ i + 1 \in 1..Len(s)
  OBVIOUS
<1> QED
  BY <1>1, <1>2 DEF SeqOk, SentBy, SentTo

LEMMA EmptyOk ==
    /\ \A book, last : SeqOk(book, last, <<>>)
    /\ \A d : SentBy(<<>>, d) /\ SentTo(<<>>, d)
BY DEF SeqOk, SentBy, SentTo

(* Of a line: an offer is new, and its end was not there before it.        *)
LEMMA FollowsOk ==
    ASSUME NEW s \in Seq(Frame), NEW f \in Frame, Follows(s)
    PROVE  /\ (f.type = "call-offer" => \A i \in 1..Len(s) : ~IsEnd(s[i], f.n))
                 => Follows(Append(s, f))
           /\ \A n : Offers(Append(s, f), n) => Offers(s, n) \/ IsOffer(f, n)
           /\ Follows(<<>>) /\ \A n : ~Offers(<<>>, n)
           /\ s # <<>> => /\ Follows(Tail(s))
                          /\ \A n : Offers(Tail(s), n) => Offers(s, n)
                          /\ \A n : IsOffer(Head(s), n) => Offers(s, n)
                          /\ \A n \in CallId : IsEnd(Head(s), n) => ~Offers(Tail(s), n)
<1>1. \A i \in 1..(Len(s) + 1) : i \in 1..Len(s) \/ i = Len(s) + 1
  BY SeqParts
<1>2. s # <<>> => 1 \in 1..Len(s)
  BY SeqParts
<1>3. ASSUME f.type = "call-offer" => \A i \in 1..Len(s) : ~IsEnd(s[i], f.n)
      PROVE  Follows(Append(s, f))
  <2> SUFFICES ASSUME NEW n \in CallId, NEW i \in 1..(Len(s) + 1), NEW j \in 1..(Len(s) + 1),
                      i < j, IsEnd(Append(s, f)[i], n)
               PROVE  ~IsOffer(Append(s, f)[j], n)
    BY SeqParts DEF Follows
  <2>1. i \in 1..Len(s) /\ IsEnd(s[i], n)
    BY <1>1, SeqParts
  <2> QED
    BY <1>1, <1>3, <2>1, SeqParts DEF Follows, IsOffer
<1>4. \A n : Offers(Append(s, f), n) => Offers(s, n) \/ IsOffer(f, n)
  BY <1>1, SeqParts DEF Offers
<1>5. Follows(<<>>) /\ \A n : ~Offers(<<>>, n)
  BY DEF Follows, Offers
<1>6. ASSUME s # <<>>
      PROVE  /\ Follows(Tail(s))
             /\ \A n : Offers(Tail(s), n) => Offers(s, n)
             /\ \A n : IsOffer(Head(s), n) => Offers(s, n)
             /\ \A n \in CallId : IsEnd(Head(s), n) => ~Offers(Tail(s), n)
  <2>1. \A i \in 1..Len(Tail(s)) : Tail(s)[i] = s[i + 1] /\ i + 1 \in 1..Len(s) /\ 1 < i + 1
    BY <1>6, SeqParts
  <2>2. Follows(Tail(s))
    BY <2>1 DEF Follows
  <2>3. \A n : Offers(Tail(s), n) => Offers(s, n)
    BY <2>1 DEF Offers
  <2> QED
    BY <1>2, <1>6, <2>1, <2>2, <2>3, SeqParts DEF Follows, Offers
<1> QED
  BY <1>3, <1>4, <1>5, <1>6

(* Every step keeps the three together.                                    *)
CallInv == BookInv /\ ShowsInv /\ EndedInv

LEMMA LineType ==
    ASSUME Inv, NEW d \in Device
    PROVE  Line(d) \in Seq(Frame) /\ down[d] \in Seq(Frame) /\ Owner[d] \in User
BY CallsAssumption DEF Line, Inv, NetType

LEMMA wsSendLine ==
    ASSUME Inv, Sides, NEW d \in Device, NEW f, wsSend(d, f)
    PROVE  /\ Sides' /\ UNCHANGED <<alive, down>>
           /\ (Line(d))' = Append(Line(d), f)
           /\ \A e \in Device : e # d => (Line(e))' = Line(e)
<1>1. up \in [Device -> Seq(Frame)] /\ outbox \in [Device -> Seq(Frame)]
  BY DEF Inv, NetType
<1>2. CASE alive[d]
  BY <1>1, <1>2 DEF wsSend, Line, Sides
<1>3. CASE ~alive[d]
  BY <1>1, <1>3 DEF wsSend, Line, Sides
<1> QED
  BY <1>2, <1>3

LEMMA ConsumedLine ==
    ASSUME Inv, Sides, NEW d \in Device, down' = Consumed(d), down[d] # <<>>,
           UNCHANGED <<alive, outbox, up>>
    PROVE  Sides' /\ \A e \in Device : (Line(e))' = Line(e)
<1>1. down \in [Device -> Seq(Frame)] /\ alive[d]
  BY DEF Inv, NetType, Sides
<1> QED
  BY <1>1 DEF Consumed, Line, Sides

(* What a client sends and takes up.                                       *)
LEMMA ClientNet ==
    ASSUME Inv, NEW book, Kept(book), EndedInv, NEW c, Later(book, sent, c, sent'),
           NEW d \in Device, UNCHANGED <<handling, queue, ended>>,
           \A e \in Device : e # d => (Line(e))' = Line(e),
           \/ (Line(d))' = Line(d)
           \/ \E f \in Frame : /\ (Line(d))' = Append(Line(d), f)
                               /\ f.by = d /\ FrameOk(c, sent', f)
                               /\ f.type = "call-offer" => f.n = sent + 1,
           down' = down \/ (down[d] # <<>> /\ down' = Consumed(d))
    PROVE  NetOk(c)' /\ EndedInv'
<1>0. sent \in Nat /\ CallId = 1..MaxCalls /\ ended \subseteq CallId
  BY CallsAssumption DEF Inv, CountType, ServerType, CallId
<1>1. ASSUME NEW e \in Device
      PROVE  /\ SeqOk(book, sent, Line(e)) /\ SentBy(Line(e), e) /\ Follows(Line(e))
             /\ SeqOk(book, sent, down[e]) /\ SentTo(down[e], Owner[e])
             /\ handling[e] # NoFrame => FrameOk(book, sent, handling[e]) /\ handling[e].by = e
             /\ handling[e] \in Frame \cup {NoFrame}
             /\ \A n \in CallId : IsEnd(handling[e], n) => ~Offers(Line(e), n)
  BY DEF Kept, NetOk, FramesOk, EndedInv, InOrder, Inv, ServerType
<1>2. ASSUME NEW e \in Device
      PROVE  SeqOk(c, sent', (Line(e))') /\ SentBy((Line(e))', e)
  <2>1. Line(e) \in Seq(Frame) /\ SeqOk(c, sent', Line(e))
    BY <1>1, LineType, SeqLater
  <2>2. CASE (Line(e))' = Line(e)
    BY <1>1, <2>1, <2>2
  <2>3. CASE e = d /\ (Line(d))' # Line(d)
    <3>1. PICK f \in Frame : /\ (Line(d))' = Append(Line(d), f)
                             /\ f.by = d /\ FrameOk(c, sent', f)
      BY <2>3
    <3> QED
      BY <1>1, <2>1, <2>3, <3>1, AppendOk
  <2> QED
    BY <2>2, <2>3
<1>3. ASSUME NEW e \in Device
      PROVE  SeqOk(c, sent', down'[e]) /\ SentTo(down'[e], Owner[e])
  <2>1. down[e] \in Seq(Frame) /\ SeqOk(c, sent', down[e])
    BY <1>1, LineType, SeqLater
  <2>2. down'[e] = down[e] \/ (down[e] # <<>> /\ down'[e] = Tail(down[e]))
    BY DEF Consumed, Inv, NetType
  <2>3. CASE down[e] # <<>> /\ down'[e] = Tail(down[e])
    BY <1>1, <2>1, <2>3, TailOk
  <2> QED
    BY <1>1, <2>1, <2>2, <2>3
<1>4. ASSUME NEW e \in Device, handling[e] # NoFrame
      PROVE  FrameOk(c, sent', handling[e])
  BY <1>1, <1>4, FrameLater
<1>5. ASSUME NEW u \in User PROVE QueuedOk(c, u)'
  <2>1. QueuedOk(book, u) /\ queue[u] \in Frame \cup {NoFrame}
    BY DEF Kept, NetOk, Inv, ServerType
  <2> QED
    BY <2>1, FrameLater DEF QueuedOk
<1>6. NetOk(c)'
  BY <1>1, <1>2, <1>3, <1>4, <1>5 DEF NetOk, FramesOk
<1>7. ASSUME NEW e \in Device, NEW n \in CallId
      PROVE  Offers((Line(e))', n) => Offers(Line(e), n) \/ n = sent + 1
  <2>1. CASE (Line(e))' = Line(e)
    BY <2>1
  <2>2. CASE e = d /\ (Line(d))' # Line(d)
    <3>1. PICK f \in Frame : /\ (Line(d))' = Append(Line(d), f)
                             /\ f.type = "call-offer" => f.n = sent + 1
      BY <2>2
    <3>2. Offers(Append(Line(d), f), n) => Offers(Line(d), n) \/ IsOffer(f, n)
      BY <1>1, LineType, FollowsOk
    <3> QED
      BY <2>2, <3>1, <3>2 DEF IsOffer
  <2> QED
    BY <2>1, <2>2
<1>8. ASSUME NEW e \in Device PROVE Follows((Line(e))')
  <2>1. CASE (Line(e))' = Line(e)
    BY <1>1, <2>1
  <2>2. CASE e = d /\ (Line(d))' # Line(d)
    <3>1. PICK f \in Frame : /\ (Line(d))' = Append(Line(d), f)
                             /\ f.type = "call-offer" => f.n = sent + 1
      BY <2>2
    <3>2. \A i \in 1..Len(Line(d)) : ~IsEnd(Line(d)[i], sent + 1)
      <4> SUFFICES ASSUME NEW i \in 1..Len(Line(d)), IsEnd(Line(d)[i], sent + 1) PROVE FALSE
        OBVIOUS
      <4>1. FrameOk(book, sent, Line(d)[i])
        BY <1>1 DEF SeqOk
      <4> QED
        BY <1>0, <4>1 DEF FrameOk, IsEnd
    <3> QED
      BY <1>1, <2>2, <3>1, <3>2, LineType, FollowsOk
  <2> QED
    BY <2>1, <2>2
<1>9. ASSUME NEW e \in Device, NEW n \in CallId, IsEnd(handling[e], n)
      PROVE  ~Offers((Line(e))', n)
  <2>1. n <= sent
    BY <1>0, <1>1, <1>9 DEF IsEnd, FrameOk
  <2> QED
    BY <1>0, <1>1, <1>7, <1>9, <2>1
<1>10. \A n \in ended : \A e \in Device : ~Offers((Line(e))', n) /\ n <= sent'
  BY <1>0, <1>7 DEF EndedInv, EndedGone, Later
<1>11. (\A e \in Device : InOrder(e))'
  BY <1>8, <1>9 DEF InOrder
<1>12. EndedGone'
  BY <1>10 DEF EndedGone, EndedInv
<1> QED
  BY <1>6, <1>11, <1>12 DEF EndedInv

LEMMA KeptBy ==
    ASSUME Inv, NEW book, Kept(book), NEW c, Later(book, sent, c, sent'), NetOk(c)',
           NEW d \in Device, NEW r, dev' = [dev EXCEPT ![d] = r], ClientOk(c, sent', d, r)
    PROVE  Kept(c)'
<1>1. ASSUME NEW e \in Device PROVE ClientOk(c, sent', e, dev'[e])
  <2>1. CASE e = d
    BY <2>1 DEF Inv, ClientsInv
  <2>2. CASE e # d
    <3>1. dev'[e] = dev[e] /\ dev[e] \in Client /\ Sound(dev[e])
      BY <2>2, ThisClient DEF Inv, ClientsInv
    <3>2. ClientOk(book, sent, e, dev[e])
      BY DEF Kept
    <3> QED
      BY <3>1, <3>2, ClientLater
  <2> QED
    BY <2>1, <2>2
<1> QED
  BY <1>1 DEF Kept, Later

LEMMA ShowsBy ==
    ASSUME Inv, ShowsInv, NEW d \in Device, NEW r, Becomes(d, r),
           d \notin crossed /\ Apart(r) => Shows(r)
    PROVE  ShowsInv'
<1>1. /\ dev' = [dev EXCEPT ![d] = r] /\ crossed \subseteq crossed'
      /\ d \notin crossed' => Apart(r)
  BY DEF Becomes, Apart
<1>2. dev'[d] = r /\ \A e \in Device : e # d => dev'[e] = dev[e]
  BY <1>1 DEF Inv, ClientsInv
<1> QED
  BY <1>1, <1>2 DEF ShowsInv

(* A client's step that places no call.                                    *)
LEMMA ClientDoes ==
    ASSUME Inv, Sides, ShowsInv, EndedInv, NEW book, Kept(book),
           NEW d \in Device, NEW r, Becomes(d, r), UNCHANGED sent, UNCHANGED serverVars,
           \/ UNCHANGED netVars
           \/ \E f \in Frame : /\ wsSend(d, f) /\ f.by = d /\ f.type # "call-offer"
                               /\ FrameOk(book, sent, f)
           \/ down[d] # <<>> /\ down' = Consumed(d) /\ UNCHANGED <<alive, outbox, up>>,
           ClientOk(book, sent, d, r),
           d \notin crossed /\ Apart(r) => Shows(r)
    PROVE  CallInv'
<1>1. UNCHANGED <<handling, queue, ended>>
  BY DEF serverVars
<1>2. Later(book, sent, book, sent')
  BY SameBook DEF Kept
<1>3. NetOk(book)' /\ EndedInv' /\ Sides'
  <2>1. CASE UNCHANGED netVars
    <3>1. Sides' /\ \A e \in Device : (Line(e))' = Line(e)
      BY <2>1 DEF netVars, Sides, Line
    <3>2. down' = down
      BY <2>1 DEF netVars
    <3> QED
      BY <1>1, <1>2, <3>1, <3>2, ClientNet
  <2>2. ASSUME NEW f \in Frame, wsSend(d, f), f.by = d, f.type # "call-offer",
               FrameOk(book, sent, f)
        PROVE  NetOk(book)' /\ EndedInv' /\ Sides'
    <3>1. Sides' /\ down' = down /\ (Line(d))' = Append(Line(d), f)
          /\ \A e \in Device : e # d => (Line(e))' = Line(e)
      BY <2>2, wsSendLine
    <3>2. FrameOk(book, sent', f)
      BY <2>2
    <3> QED
      BY <1>1, <1>2, <2>2, <3>1, <3>2, ClientNet
  <2>3. CASE down[d] # <<>> /\ down' = Consumed(d) /\ UNCHANGED <<alive, outbox, up>>
    <3>1. Sides' /\ \A e \in Device : (Line(e))' = Line(e)
      BY <2>3, ConsumedLine
    <3> QED
      BY <1>1, <1>2, <2>3, <3>1, ClientNet
  <2> QED
    BY <2>1, <2>2, <2>3
<1>4. ClientOk(book, sent', d, r) /\ dev' = [dev EXCEPT ![d] = r]
  BY DEF Becomes
<1>5. Kept(book)'
  BY <1>2, <1>3, <1>4, KeptBy
<1>6. ShowsInv'
  BY ShowsBy
<1>7. book \in Books
  BY DEF Kept, BookOk
<1> QED
  BY <1>3, <1>5, <1>6, <1>7 DEF CallInv, BookInv
(* The call is the one it was.                                             *)
LEMMA SameCallDoes ==
    ASSUME Inv, CallInv, NEW d \in Device, NEW r, Becomes(d, r),
           UNCHANGED sent, UNCHANGED serverVars,
           \/ UNCHANGED netVars
           \/ down[d] # <<>> /\ down' = Consumed(d) /\ UNCHANGED <<alive, outbox, up>>,
           r.dial = dev[d].dial, r.peer = dev[d].peer, r.pc = dev[d].pc, r.offer = dev[d].offer,
           r.start = "offer" => dev[d].start = "offer",
           r.accept = "answer" => dev[d].accept = "answer",
           r.connected => dev[d].connected,
           r.start # "no" \/ r.accept # "no" =>
               dev[d].start # "no" \/ dev[d].accept # "no" \/ ~dev[d].pc.open \/ dev[d].pc.mine = 0
    PROVE  CallInv'
<1>1. PICK book : Kept(book)
  BY DEF CallInv, BookInv
<1>2. ClientOk(book, sent, d, dev[d]) /\ (d \notin crossed => Shows(dev[d]))
  BY <1>1 DEF Kept, CallInv, ShowsInv
<1>3. ClientOk(book, sent, d, r)
  BY <1>2 DEF ClientOk
<1>4. d \notin crossed => Shows(r)
  BY <1>2 DEF ClientOk, Shows
<1> QED
  BY <1>1, <1>3, <1>4, ClientDoes DEF CallInv, BookInv

(* The call is over.                                                       *)
LEMMA NoCallDoes ==
    ASSUME Inv, CallInv, NEW d \in Device, NEW r, Becomes(d, r),
           UNCHANGED sent, UNCHANGED serverVars,
           \/ UNCHANGED netVars
           \/ \E f \in Frame : /\ wsSend(d, f) /\ f.by = d
                               /\ \/ f.type = "call-reject"
                                  \/ /\ f.type = "call-end"
                                     /\ f.n = dev[d].dial /\ f.to = dev[d].peer
           \/ down[d] # <<>> /\ down' = Consumed(d) /\ UNCHANGED <<alive, outbox, up>>,
           r.dial = 0, r.pc = NoPC, r.offer = NoFrame, ~r.connected,
           r.start # "offer", r.accept # "answer"
    PROVE  CallInv'
<1>1. PICK book : Kept(book)
  BY DEF CallInv, BookInv
<1>2. ClientOk(book, sent, d, dev[d])
  BY <1>1 DEF Kept
<1>3. ClientOk(book, sent, d, r) /\ Shows(r)
  BY DEF ClientOk, Shows, NoPC
<1>4. ASSUME NEW f \in Frame, f.by = d,
             f.type = "call-end" => f.n = dev[d].dial /\ f.to = dev[d].peer,
             f.type \in {"call-reject", "call-end"}
      PROVE  FrameOk(book, sent, f)
  BY <1>2, <1>4 DEF FrameOk, ClientOk
<1> QED
  BY <1>1, <1>3, <1>4, ClientDoes DEF CallInv, BookInv

LEMMA CleanupParts ==
    ASSUME NEW r \in Client
    PROVE  LET s == cleanupCall(r) IN
           /\ s.dial = 0 /\ s.pc = NoPC /\ s.offer = NoFrame /\ s.connected = FALSE
           /\ s.start # "offer" /\ s.accept # "answer"
BY DEF cleanupCall, Idle

LEMMA LeaveCall ==
    ASSUME Inv, CallInv, NEW d \in Device, NEW type \in {"call-end", "call-reject"},
           Leave(d, type), UNCHANGED sent, UNCHANGED serverVars
    PROVE  CallInv'
<1> DEFINE q == [dev[d] EXCEPT !.late = @ \ {"endCall"}]
           r == cleanupCall(q)
           f == FrameOf(d, type, dev[d].peer, dev[d].dial)
<1>1. dev[d] \in Client /\ q \in Client
  BY ThisClient DEF Client
<1>2. /\ r.dial = 0 /\ r.pc = NoPC /\ r.offer = NoFrame /\ r.connected = FALSE
      /\ r.start # "offer" /\ r.accept # "answer"
  BY <1>1, CleanupParts
<1>3. Becomes(d, r)
  BY DEF Leave
<1>4. f.by = d /\ f.type = type /\ f.n = dev[d].dial /\ f.to = dev[d].peer
  BY DEF FrameOf
<1>5. dev[d].peer # NoUser => f \in Frame
  BY <1>1, FrameType, ClientParts
<1>6. IF dev[d].peer # NoUser THEN wsSend(d, f) ELSE UNCHANGED netVars
  BY DEF Leave
<1> HIDE DEF q, r, f
<1> QED
  BY <1>2, <1>3, <1>4, <1>5, <1>6, NoCallDoes

LEMMA EndingCall ==
    ASSUME Inv, CallInv, NEW d \in Device,
           LateEnd(d) \/ rejectCall(d) \/ endCall(d) \/ LateCleanup(d) \/ AcceptFails(d)
               \/ OnEnd(d) \/ MediaFails(d)
    PROVE  CallInv'
<1>1. dev[d] \in Client
  BY ThisClient
<1>2. CASE LateEnd(d) \/ rejectCall(d) \/ endCall(d)
  BY <1>2, LeaveCall DEF LateEnd, rejectCall, endCall
<1>3. CASE LateCleanup(d)
  <2> DEFINE q == [dev[d] EXCEPT !.late = @ \ {"cleanupCall"}]
             r == cleanupCall(q)
  <2>1. q \in Client
    BY <1>1 DEF Client
  <2>2. /\ r.dial = 0 /\ r.pc = NoPC /\ r.offer = NoFrame /\ r.connected = FALSE
        /\ r.start # "offer" /\ r.accept # "answer"
    BY <2>1, CleanupParts
  <2>3. Becomes(d, r) /\ UNCHANGED <<sent, netVars, serverVars>>
    BY <1>3 DEF LateCleanup
  <2> HIDE DEF q, r
  <2> QED
    BY <2>2, <2>3, NoCallDoes
<1>4. CASE AcceptFails(d)
  <2> DEFINE q == [dev[d] EXCEPT !.accept = "no"]
             r == cleanupCall(q)
             f == FrameOf(d, "call-reject", q.peer, q.dial)
  <2>1. q \in Client
    BY <1>1 DEF Client
  <2>2. /\ r.dial = 0 /\ r.pc = NoPC /\ r.offer = NoFrame /\ r.connected = FALSE
        /\ r.start # "offer" /\ r.accept # "answer"
    BY <2>1, CleanupParts
  <2>3. Becomes(d, r) /\ UNCHANGED sent /\ UNCHANGED serverVars
        /\ IF q.peer # NoUser THEN wsSend(d, f) ELSE UNCHANGED netVars
    BY <1>4 DEF AcceptFails
  <2>4. f.by = d /\ f.type = "call-reject" /\ (q.peer # NoUser => f \in Frame)
    BY <2>1, FrameType, ClientParts DEF FrameOf
  <2> HIDE DEF q, r, f
  <2> QED
    BY <2>2, <2>3, <2>4, NoCallDoes
<1>5. CASE OnEnd(d) \/ MediaFails(d)
  <2> DEFINE r == cleanupCall(dev[d])
  <2>1. /\ r.dial = 0 /\ r.pc = NoPC /\ r.offer = NoFrame /\ r.connected = FALSE
        /\ r.start # "offer" /\ r.accept # "answer"
    BY <1>1, CleanupParts
  <2>2. Becomes(d, r) /\ UNCHANGED sent /\ UNCHANGED serverVars
        /\ \/ UNCHANGED netVars
           \/ down[d] # <<>> /\ down' = Consumed(d) /\ UNCHANGED <<alive, outbox, up>>
    BY <1>5 DEF OnEnd, MediaFails, Arrives
  <2> HIDE DEF r
  <2> QED
    BY <2>1, <2>2, NoCallDoes
<1> QED
  BY <1>2, <1>3, <1>4, <1>5
(* Steps of a call that go on with it.                                     *)
LEMMA KeepingCall ==
    ASSUME Inv, CallInv, NEW d \in Device,
           startCall(d) \/ acceptCall(d) \/ RingTimeout(d) \/ OnReject(d)
    PROVE  CallInv'
<1>1. dev[d] \in Client
  BY ThisClient
<1>2. CASE startCall(d)
  <2> DEFINE r == [dev[d] EXCEPT !.connected = FALSE, !.logged = FALSE, !.start = "media"]
  <2>1. /\ r.dial = dev[d].dial /\ r.peer = dev[d].peer /\ r.pc = dev[d].pc
        /\ r.offer = dev[d].offer /\ r.start = "media" /\ r.accept = dev[d].accept
        /\ r.connected = FALSE
    BY <1>1 DEF Client
  <2>2. Becomes(d, r) /\ UNCHANGED <<sent, netVars, serverVars>> /\ ~dev[d].pc.open
    BY <1>2 DEF startCall
  <2> HIDE DEF r
  <2> QED
    BY <2>1, <2>2, SameCallDoes
<1>3. CASE acceptCall(d)
  <2> DEFINE r == [dev[d] EXCEPT !.connected = FALSE, !.logged = FALSE, !.accept = "media"]
  <2>1. /\ r.dial = dev[d].dial /\ r.peer = dev[d].peer /\ r.pc = dev[d].pc
        /\ r.offer = dev[d].offer /\ r.start = dev[d].start /\ r.accept = "media"
        /\ r.connected = FALSE
    BY <1>1 DEF Client
  <2>2. Becomes(d, r) /\ UNCHANGED <<sent, netVars, serverVars>> /\ dev[d].pc.mine = 0
    BY <1>3 DEF acceptCall, Incoming
  <2> HIDE DEF r
  <2> QED
    BY <2>1, <2>2, SameCallDoes
<1>4. CASE OnReject(d)
  <2> DEFINE r == [dev[d] EXCEPT !.late = @ \cup {"cleanupCall"}, !.logged = @ \/ MayLog(dev[d])]
  <2>1. /\ r.dial = dev[d].dial /\ r.peer = dev[d].peer /\ r.pc = dev[d].pc
        /\ r.offer = dev[d].offer /\ r.start = dev[d].start /\ r.accept = dev[d].accept
    BY <1>1 DEF Client
  <2>2. r.connected = dev[d].connected
    BY <1>1 DEF Client
  <2>3. Becomes(d, r) /\ UNCHANGED sent /\ UNCHANGED serverVars
        /\ down[d] # <<>> /\ down' = Consumed(d) /\ UNCHANGED <<alive, outbox, up>>
    BY <1>4 DEF OnReject, Arrives
  <2> HIDE DEF r
  <2> QED
    BY <2>1, <2>2, <2>3, SameCallDoes
<1>5. CASE RingTimeout(d)
  <2> DEFINE r1 == [dev[d] EXCEPT !.ring = FALSE, !.late = @ \cup {"endCall"},
                                  !.logged = @ \/ MayLog(dev[d])]
             r2 == [dev[d] EXCEPT !.ring = FALSE]
  <2>1. PICK r \in {r1, r2} : Becomes(d, r) /\ UNCHANGED <<sent, netVars, serverVars>>
    BY <1>5 DEF RingTimeout
  <2>2. /\ r.dial = dev[d].dial /\ r.peer = dev[d].peer /\ r.pc = dev[d].pc
        /\ r.offer = dev[d].offer /\ r.start = dev[d].start /\ r.accept = dev[d].accept
    BY <1>1 DEF Client
  <2>3. r.connected = dev[d].connected
    BY <1>1 DEF Client
  <2> HIDE DEF r1, r2
  <2> QED
    BY <2>1, <2>2, <2>3, SameCallDoes
<1> QED
  BY <1>2, <1>3, <1>4, <1>5

LEMMA StartMediaCall ==
    ASSUME Inv, CallInv, NEW d \in Device, StartMedia(d)
    PROVE  CallInv'
<1>1. dev[d] \in Client /\ Sound(dev[d]) /\ dev[d].start = "media" /\ dev[d].dial = 0
  BY ThisClient DEF StartMedia, Sound
<1>2. UNCHANGED <<sent, netVars, serverVars>>
  BY DEF StartMedia
<1>3. CASE Becomes(d, [dev[d] EXCEPT !.start = "no"])
  <2> DEFINE r == [dev[d] EXCEPT !.start = "no"]
  <2>1. /\ r.dial = dev[d].dial /\ r.peer = dev[d].peer /\ r.pc = dev[d].pc
        /\ r.offer = dev[d].offer /\ r.start = "no" /\ r.accept = dev[d].accept
        /\ r.connected = dev[d].connected
    BY <1>1 DEF Client
  <2>2. Becomes(d, r)
    BY <1>3
  <2> HIDE DEF r
  <2> QED
    BY <1>1, <1>2, <2>1, <2>2, SameCallDoes
<1>4. CASE Becomes(d, [dev[d] EXCEPT !.pc = NewPC, !.start = "offer",
                                     !.accept = IF @ = "answer" THEN "no" ELSE @])
  <2> DEFINE r == [dev[d] EXCEPT !.pc = NewPC, !.start = "offer",
                                 !.accept = IF @ = "answer" THEN "no" ELSE @]
  <2>1. /\ r.dial = 0 /\ r.peer = dev[d].peer /\ r.pc = NewPC
        /\ r.offer = dev[d].offer /\ r.start = "offer" /\ r.accept # "answer"
        /\ r.connected = dev[d].connected
    BY <1>1 DEF Client
  <2>2. Becomes(d, r)
    BY <1>4
  <2>3. NewPC.open /\ NewPC.mine = 0 /\ NewPC.theirs = 0 /\ NewPC.far = NoDevice
    BY DEF NewPC, NoPC
  <2>4. PICK book : Kept(book)
    BY DEF CallInv, BookInv
  <2>5. ClientOk(book, sent, d, dev[d]) /\ (d \notin crossed => Shows(dev[d]))
    BY <2>4 DEF Kept, CallInv, ShowsInv
  <2> HIDE DEF r
  <2>6. ClientOk(book, sent, d, r)
    BY <2>1, <2>3, <2>5 DEF ClientOk
  <2>7. d \notin crossed => Shows(r)
    BY <1>1, <2>1, <2>3, <2>5 DEF Shows
  <2> QED
    BY <1>2, <2>2, <2>4, <2>6, <2>7, ClientDoes DEF CallInv, BookInv
<1> QED
  BY <1>3, <1>4 DEF StartMedia

LEMMA AcceptMediaCall ==
    ASSUME Inv, CallInv, NEW d \in Device, AcceptMedia(d)
    PROVE  CallInv'
<1> DEFINE pc == IF dev[d].offer = NoFrame THEN NewPC
                 ELSE [NewPC EXCEPT !.theirs = dev[d].offer.n, !.far = dev[d].offer.by]
           accept == IF dev[d].offer = NoFrame THEN "no" ELSE "answer"
           start == IF dev[d].start = "offer" THEN "no" ELSE dev[d].start
           r == [dev[d] EXCEPT !.pc = pc, !.offer = NoFrame, !.accept = accept, !.start = start]
<1>1. dev[d] \in Client /\ Sound(dev[d]) /\ dev[d].accept = "media"
      /\ (d \notin crossed => Apart(dev[d]))
  BY ThisClient DEF AcceptMedia
<1>2. /\ r.dial = dev[d].dial /\ r.peer = dev[d].peer /\ r.pc = pc
      /\ r.offer = NoFrame /\ r.start = start /\ r.accept = accept
      /\ r.connected = dev[d].connected
  BY <1>1 DEF Client
<1>3. Becomes(d, r) /\ UNCHANGED <<sent, netVars, serverVars>>
  BY DEF AcceptMedia
<1>4. NewPC.open /\ NewPC.mine = 0 /\ NewPC.theirs = 0 /\ NewPC.far = NoDevice
  BY DEF NewPC, NoPC
<1>5. PICK book : Kept(book)
  BY DEF CallInv, BookInv
<1>6. ClientOk(book, sent, d, dev[d]) /\ (d \notin crossed => Shows(dev[d]))
  BY <1>5 DEF Kept, CallInv, ShowsInv
<1>7. CASE dev[d].offer = NoFrame
  <2>1. pc = NewPC /\ accept = "no" /\ start # "offer"
    BY <1>7
  <2> HIDE DEF r, pc, accept, start
  <2>2. ClientOk(book, sent, d, r) /\ (d \notin crossed => Shows(r))
    BY <1>1, <1>2, <1>4, <1>6, <2>1 DEF ClientOk, Shows
  <2> QED
    BY <1>3, <1>5, <2>2, ClientDoes DEF CallInv, BookInv
<1>8. CASE dev[d].offer # NoFrame
  <2> DEFINE f == dev[d].offer
  <2>1. f \in Frame /\ f.type = "call-offer" /\ f.n \in CallId /\ f.by \in Device
    BY <1>1, <1>8, ClientParts, OfferNumber DEF Sound
  <2>2. /\ pc.open /\ pc.mine = 0 /\ pc.theirs = f.n /\ pc.far = f.by
    BY <1>8 DEF NewPC, NoPC
  <2>3. accept = "answer" /\ start # "offer" /\ f.n # 0
    BY <1>8, <2>1 DEF CallId
  <2>4. FrameOk(book, sent, f) /\ f.to = Owner[d]
    BY <1>6, <1>8 DEF ClientOk
  <2>5. f.n <= sent /\ book[f.n] = Entry(f.by, Owner[d]) /\ f.from = Owner[f.by]
        /\ book[f.n].to = Owner[d]
    BY <2>1, <2>4 DEF FrameOk, Entry
  <2>6. d \notin crossed => dev[d].dial = 0 /\ dev[d].peer = f.from /\ ~dev[d].connected
                            /\ dev[d].start = "no" /\ start = "no"
    BY <1>1, <1>6, <1>8 DEF Shows, Apart
  <2> HIDE DEF r, pc, accept, start, f
  <2>7. ClientOk(book, sent, d, r)
    BY <1>1, <1>2, <1>6, <2>1, <2>2, <2>3, <2>5 DEF ClientOk
  <2>8. d \notin crossed => Shows(r)
    BY <1>2, <2>2, <2>3, <2>5, <2>6 DEF Shows
  <2> QED
    BY <1>3, <1>5, <2>7, <2>8, ClientDoes DEF CallInv, BookInv
<1> QED
  BY <1>7, <1>8

LEMMA SendAnswerCall ==
    ASSUME Inv, CallInv, NEW d \in Device, SendAnswer(d)
    PROVE  CallInv'
<1> DEFINE pc == [dev[d].pc EXCEPT !.mine = dev[d].pc.theirs]
           r == [dev[d] EXCEPT !.pc = pc, !.dial = 0, !.accept = "no"]
           f == FrameOf(d, "call-answer", dev[d].peer, dev[d].pc.theirs)
<1>1. dev[d] \in Client /\ Sound(dev[d]) /\ dev[d].accept = "answer"
      /\ (d \notin crossed => Apart(dev[d]))
  BY ThisClient DEF SendAnswer
<1>2. dev[d].pc \in PC
  BY <1>1, ClientParts
<1>3. /\ pc.open = dev[d].pc.open /\ pc.mine = dev[d].pc.theirs
      /\ pc.theirs = dev[d].pc.theirs /\ pc.far = dev[d].pc.far
  BY <1>2 DEF PC
<1>4. /\ r.dial = 0 /\ r.peer = dev[d].peer /\ r.pc = pc
      /\ r.offer = dev[d].offer /\ r.start = dev[d].start /\ r.accept = "no"
      /\ r.connected = dev[d].connected
  BY <1>1 DEF Client
<1>5. Becomes(d, r) /\ wsSend(d, f) /\ UNCHANGED sent /\ UNCHANGED serverVars
  <2>1. r = [dev[d] EXCEPT !.pc.mine = dev[d].pc.theirs, !.dial = 0, !.accept = "no"]
    BY <1>1 DEF Client
  <2> HIDE DEF r
  <2> QED
    BY <2>1 DEF SendAnswer
<1>6. PICK book : Kept(book)
  BY DEF CallInv, BookInv
<1>7. ClientOk(book, sent, d, dev[d]) /\ (d \notin crossed => Shows(dev[d]))
  BY <1>6 DEF Kept, CallInv, ShowsInv
<1>8. dev[d].pc.theirs # 0 /\ dev[d].pc.open /\ dev[d].peer \in User
  BY <1>1, ClientParts DEF Sound
<1>9. f \in Frame
  BY <1>2, <1>8, FrameType, PCParts DEF CallId
<1>10. f.by = d /\ f.type = "call-answer" /\ f.n = dev[d].pc.theirs
  BY DEF FrameOf
<1> HIDE DEF r, pc, f
<1>11. FrameOk(book, sent, f)
  BY <1>1, <1>7, <1>8, <1>10 DEF FrameOk, ClientOk
<1>12. ClientOk(book, sent, d, r)
  BY <1>1, <1>3, <1>4, <1>7, <1>8 DEF ClientOk
<1>13. d \notin crossed => Shows(r)
  BY <1>1, <1>3, <1>4, <1>7, <1>8 DEF Shows, Apart
<1> QED
  BY <1>5, <1>6, <1>9, <1>10, <1>11, <1>12, <1>13, ClientDoes DEF CallInv, BookInv
(* A line is added to the book.                                            *)
LEMMA SendOfferCall ==
    ASSUME Inv, CallInv, NEW d \in Device, NEW u \in User, SendOffer(d, u)
    PROVE  CallInv'
<1> DEFINE n == sent + 1
           pc == [dev[d].pc EXCEPT !.mine = n]
           r == [dev[d] EXCEPT !.pc = pc, !.peer = u, !.dial = n, !.ring = TRUE, !.start = "no"]
           f == FrameOf(d, "call-offer", u, n)
<1>1. /\ dev[d] \in Client /\ Sound(dev[d]) /\ dev[d].start = "offer" /\ u # Owner[d]
      /\ n \in CallId /\ sent \in 0..MaxCalls /\ sent' = n /\ n = sent + 1 /\ MaxCalls \in Nat
      /\ (d \notin crossed => Apart(dev[d]))
  BY ThisClient, CallsAssumption DEF SendOffer, CallId
<1>2. dev[d].pc \in PC
  BY <1>1, ClientParts
<1>3. /\ pc.open = dev[d].pc.open /\ pc.mine = n
      /\ pc.theirs = dev[d].pc.theirs /\ pc.far = dev[d].pc.far
  BY <1>2 DEF PC
<1>4. /\ r.dial = n /\ r.peer = u /\ r.pc = pc
      /\ r.offer = dev[d].offer /\ r.start = "no" /\ r.accept = dev[d].accept
      /\ r.connected = dev[d].connected
  BY <1>1 DEF Client
<1>5. Becomes(d, r) /\ wsSend(d, f) /\ UNCHANGED serverVars
  <2>1. r = [dev[d] EXCEPT !.pc.mine = n, !.peer = u, !.dial = n, !.ring = TRUE, !.start = "no"]
    BY <1>1 DEF Client
  <2> HIDE DEF r
  <2> QED
    BY <2>1 DEF SendOffer
<1>6. PICK book : Kept(book) /\ book \in Books
  BY DEF CallInv, BookInv, Kept, BookOk
<1>7. ClientOk(book, sent, d, dev[d]) /\ (d \notin crossed => Shows(dev[d]))
  BY <1>6 DEF Kept, CallInv, ShowsInv
<1>8. dev[d].pc = NewPC /\ NewPC.open /\ NewPC.theirs = 0 /\ NewPC.mine = 0
      /\ NewPC.far = NoDevice
  BY <1>1, <1>7 DEF ClientOk, NewPC, NoPC
<1>9. PICK c : c \in Books /\ c[n] = Entry(d, u) /\ \A k \in 1..sent : c[k] = book[k]
  <2> DEFINE b == [book EXCEPT ![n] = Entry(d, u)]
  <2>1. b \in Books /\ b[n] = Entry(d, u) /\ \A k \in 1..sent : b[k] = book[k]
    BY <1>1, <1>6 DEF Books, Entry, CallId
  <2> QED
    BY <2>1
<1>10. f \in Frame /\ f.by = d /\ f.type = "call-offer" /\ f.n = n /\ f.to = u
       /\ f.from = Owner[d]
  BY <1>1, FrameType DEF FrameOf
<1> HIDE DEF r, pc, f, n
<1>11. BookOk(book, sent)
  BY <1>6 DEF Kept
<1>12. Later(book, sent, c, sent')
  <2>1. \A k \in 1..n : k \in 1..sent \/ k = n
    BY <1>1
  <2>2. n \in 0..MaxCalls /\ sent <= n
    BY <1>1 DEF CallId
  <2>3. c[n].to # Owner[c[n].by]
    BY <1>1, <1>9 DEF Entry
  <2> QED
    BY <1>1, <1>9, <1>11, <2>1, <2>2, <2>3 DEF Later, BookOk
<1>13. FrameOk(c, sent', f)
  BY <1>1, <1>9, <1>10 DEF FrameOk, CallId
<1>14. Sides' /\ down' = down /\ (Line(d))' = Append(Line(d), f)
       /\ \A e \in Device : e # d => (Line(e))' = Line(e)
  BY <1>5, <1>10, wsSendLine DEF CallInv, BookInv
<1>15. NetOk(c)' /\ EndedInv'
  BY <1>1, <1>5, <1>6, <1>10, <1>12, <1>13, <1>14, ClientNet DEF CallInv, serverVars
<1>16. ClientOk(c, sent', d, dev[d])
  BY <1>1, <1>7, <1>12, ClientLater
<1>17. ClientOk(c, sent', d, r)
  BY <1>1, <1>3, <1>4, <1>8, <1>9, <1>16 DEF ClientOk
<1>18. Kept(c)'
  BY <1>5, <1>6, <1>12, <1>15, <1>17, KeptBy DEF Becomes
<1>19. d \notin crossed /\ Apart(r) => Shows(r)
  BY <1>1, <1>3, <1>4, <1>7, <1>8 DEF Shows, Apart, CallId
<1>20. ShowsInv'
  BY <1>5, <1>19, ShowsBy DEF CallInv
<1> QED
  BY <1>9, <1>14, <1>15, <1>18, <1>20 DEF CallInv, BookInv

LEMMA OnOfferCall ==
    ASSUME Inv, CallInv, NEW d \in Device, OnOffer(d)
    PROVE  CallInv'
<1> DEFINE f == Head(down[d])
           r == [dev[d] EXCEPT !.peer = f.from, !.offer = f]
           g == FrameOf(d, "call-reject", f.from, 0)
<1>1. /\ dev[d] \in Client /\ Sound(dev[d]) /\ (d \notin crossed => Apart(dev[d]))
      /\ down[d] \in Seq(Frame) /\ down[d] # <<>> /\ f \in Frame /\ f.type = "call-offer"
      /\ down' = Consumed(d) /\ UNCHANGED <<sent, alive, outbox, serverVars>>
  BY ThisClient, LineType DEF OnOffer, Arrives
<1>2. PICK book : Kept(book) /\ book \in Books
  BY DEF CallInv, BookInv, Kept, BookOk
<1>3. ClientOk(book, sent, d, dev[d]) /\ (d \notin crossed => Shows(dev[d]))
  BY <1>2 DEF Kept, CallInv, ShowsInv
<1>4. SeqOk(book, sent, down[d]) /\ SentTo(down[d], Owner[d])
  BY <1>2 DEF Kept, NetOk, FramesOk
<1>5. FrameOk(book, sent, f) /\ f.to = Owner[d]
  BY <1>1, <1>4, TailOk
<1>6. Sides
  BY DEF CallInv, BookInv
<1>7. CASE ~dev[d].pc.open
  <2>1. /\ r.dial = dev[d].dial /\ r.peer = f.from /\ r.pc = dev[d].pc
        /\ r.offer = f /\ r.start = dev[d].start /\ r.accept = dev[d].accept
        /\ r.connected = dev[d].connected
    BY <1>1 DEF Client
  <2>2. Becomes(d, r) /\ up' = up
    BY <1>7 DEF OnOffer
  <2>3. dev[d].pc.mine = 0 /\ dev[d].pc.theirs = 0 /\ dev[d].dial = 0
    BY <1>3, <1>7 DEF ClientOk
  <2> HIDE DEF r, f
  <2>4. ClientOk(book, sent, d, r)
    BY <1>3, <1>5, <1>7, <2>1, <2>3 DEF ClientOk
  <2>5. d \notin crossed => Shows(r)
    BY <1>3, <2>1, <2>3 DEF Shows
  <2> QED
    BY <1>1, <1>2, <1>6, <2>2, <2>4, <2>5, ClientDoes DEF CallInv
<1>8. CASE dev[d].pc.open
  <2>1. UNCHANGED dev /\ UNCHANGED crossed /\ up' = [up EXCEPT ![d] = Append(@, g)]
    BY <1>8 DEF OnOffer
  <2>2. alive[d] /\ up \in [Device -> Seq(Frame)] /\ down \in [Device -> Seq(Frame)]
    BY <1>1, <1>6 DEF Sides, Inv, NetType
  <2>3. g \in Frame /\ g.by = d /\ g.type = "call-reject"
    BY <1>1, OfferNumber, FrameType, CallsAssumption DEF FrameOf
  <2> HIDE DEF f, g
  <2>4. Sides' /\ (Line(d))' = Append(Line(d), g)
        /\ \A e \in Device : e # d => (Line(e))' = Line(e)
    BY <1>1, <1>6, <2>1, <2>2 DEF Sides, Line, Consumed
  <2>5. Later(book, sent, book, sent')
    BY <1>1, <1>2, SameBook DEF Kept
  <2>6. FrameOk(book, sent', g)
    BY <2>3 DEF FrameOk
  <2>7. NetOk(book)' /\ EndedInv'
    BY <1>1, <1>2, <2>3, <2>4, <2>5, <2>6, ClientNet DEF CallInv, serverVars
  <2>8. dev' = [dev EXCEPT ![d] = dev[d]] /\ ClientOk(book, sent', d, dev[d])
    BY <1>1, <1>3, <2>1 DEF Inv, ClientsInv
  <2>9. Kept(book)'
    BY <1>2, <2>5, <2>7, <2>8, KeptBy
  <2>10. ShowsInv'
    BY <2>1 DEF CallInv, ShowsInv
  <2> QED
    BY <1>2, <2>4, <2>7, <2>9, <2>10 DEF CallInv, BookInv
<1> QED
  BY <1>7, <1>8

LEMMA OnAnswerCall ==
    ASSUME Inv, CallInv, NEW d \in Device, OnAnswer(d)
    PROVE  CallInv'
<1> DEFINE f == Head(down[d])
           taken == dev[d].pc.open /\ dev[d].pc.mine # 0 /\ dev[d].pc.theirs = 0
           pc == [dev[d].pc EXCEPT !.theirs = f.n, !.far = f.by]
           r1 == [dev[d] EXCEPT !.ring = FALSE, !.pc = pc]
           r2 == [dev[d] EXCEPT !.ring = FALSE]
<1>1. /\ dev[d] \in Client /\ Sound(dev[d]) /\ (d \notin crossed => Apart(dev[d]))
      /\ down[d] \in Seq(Frame) /\ down[d] # <<>> /\ f \in Frame /\ f.type = "call-answer"
      /\ down' = Consumed(d) /\ UNCHANGED sent /\ UNCHANGED <<alive, outbox, up>>
      /\ UNCHANGED serverVars
  BY ThisClient, LineType DEF OnAnswer, Arrives
<1>2. CASE ~taken
  <2>1. PICK r \in {dev[d], r2} : Becomes(d, r)
    BY <1>2 DEF OnAnswer
  <2>2. /\ r.dial = dev[d].dial /\ r.peer = dev[d].peer /\ r.pc = dev[d].pc
        /\ r.offer = dev[d].offer /\ r.start = dev[d].start /\ r.accept = dev[d].accept
        /\ r.connected = dev[d].connected
    BY <1>1 DEF Client
  <2> HIDE DEF r2, f
  <2> QED
    BY <1>1, <2>1, <2>2, SameCallDoes
<1>3. CASE taken
  <2>1. dev[d].pc \in PC
    BY <1>1, ClientParts
  <2>2. /\ pc.open = dev[d].pc.open /\ pc.mine = dev[d].pc.mine
        /\ pc.theirs = f.n /\ pc.far = f.by
    BY <2>1 DEF PC
  <2>3. /\ r1.dial = dev[d].dial /\ r1.peer = dev[d].peer /\ r1.pc = pc
        /\ r1.offer = dev[d].offer /\ r1.start = dev[d].start /\ r1.accept = dev[d].accept
        /\ r1.connected = dev[d].connected
    BY <1>1 DEF Client
  <2>4. Becomes(d, r1)
    <3>1. r1 = [dev[d] EXCEPT !.ring = FALSE, !.pc.theirs = f.n, !.pc.far = f.by]
      BY <1>1 DEF Client
    <3> HIDE DEF r1
    <3> QED
      BY <1>3, <3>1 DEF OnAnswer
  <2>5. PICK book : Kept(book)
    BY DEF CallInv, BookInv
  <2>6. ClientOk(book, sent, d, dev[d]) /\ (d \notin crossed => Shows(dev[d]))
    BY <2>5 DEF Kept, CallInv, ShowsInv
  <2>7. SeqOk(book, sent, down[d])
    BY <2>5 DEF Kept, NetOk, FramesOk
  <2>8. FrameOk(book, sent, f)
    BY <1>1, <2>7, TailOk
  <2>9. f.n <= sent /\ f.n # 0 /\ book[f.n].to = Owner[f.by] /\ f.by \in Device
    BY <1>1, <2>8, OfferNumber DEF FrameOk, CallId
  <2>10. dev[d].start # "offer" /\ dev[d].accept # "answer"
    BY <1>1, <1>3, <2>6 DEF ClientOk, Sound, NewPC, NoPC
  <2> HIDE DEF r1, pc, f
  <2>11. ClientOk(book, sent, d, r1)
    BY <1>3, <2>2, <2>3, <2>6, <2>9, <2>10 DEF ClientOk
  <2>12. d \notin crossed => Shows(r1)
    BY <1>3, <2>2, <2>3, <2>6 DEF Shows
  <2> QED
    BY <1>1, <2>4, <2>5, <2>11, <2>12, ClientDoes DEF CallInv, BookInv
<1> QED
  BY <1>2, <1>3

(* Two ends of one media connection are the two parties of one call.       *)
LEMMA MediaConnectsCall ==
    ASSUME Inv, CallInv, NEW d \in Device, MediaConnects(d)
    PROVE  CallInv'
<1> DEFINE r == [dev[d] EXCEPT !.connected = TRUE, !.ring = FALSE]
           e == dev[d].pc.far
<1>1. /\ dev[d] \in Client /\ (d \notin crossed => Apart(dev[d]) /\ Waits(dev[d]))
      /\ sent \in 0..MaxCalls
  BY ThisClient
<1>2. /\ r.dial = dev[d].dial /\ r.peer = dev[d].peer /\ r.pc = dev[d].pc
      /\ r.offer = dev[d].offer /\ r.start = dev[d].start /\ r.accept = dev[d].accept
  BY <1>1 DEF Client
<1>3. Becomes(d, r) /\ UNCHANGED <<sent, netVars, serverVars>>
  BY DEF MediaConnects
<1>4. dev[d].pc.open /\ dev[d].pc.mine # 0 /\ e # NoDevice /\ e \in Device
      /\ dev[e].pc.theirs = dev[d].pc.mine /\ dev[e].pc.far = d
  BY <1>1, ClientParts, PCParts DEF MediaConnects, Linked
<1>5. PICK book : Kept(book)
  BY DEF CallInv, BookInv
<1>6. /\ ClientOk(book, sent, d, dev[d]) /\ (d \notin crossed => Shows(dev[d]))
      /\ ClientOk(book, sent, e, dev[e]) /\ BookOk(book, sent)
  BY <1>4, <1>5 DEF Kept, CallInv, ShowsInv
<1> HIDE DEF r, e
<1>7. ClientOk(book, sent, d, r)
  BY <1>2, <1>6 DEF ClientOk
<1>8. dev[d].pc.theirs # 0
  BY <1>4, <1>6 DEF ClientOk, e
<1>9. ASSUME d \notin crossed PROVE dev[d].peer = Owner[e]
  <2>1. CASE dev[d].dial = 0
    BY <1>6, <1>8, <1>9, <2>1 DEF Shows, e
  <2>2. CASE dev[d].dial # 0
    <3>1. dev[d].pc.mine = dev[d].dial
      BY <1>1, <1>9, <2>2 DEF Waits
    <3>2. book[dev[d].dial] = Entry(d, dev[d].peer) /\ dev[d].dial \in 1..sent
      BY <1>1, <1>6, <2>2, ClientParts DEF ClientOk
    <3>3. book[dev[d].dial].to # Owner[d]
      BY <1>6, <3>2 DEF BookOk, Entry
    <3>4. book[dev[d].dial] = Entry(d, Owner[e])
      BY <1>4, <1>6, <2>2, <3>1, <3>3 DEF ClientOk
    <3> QED
      BY <3>2, <3>4 DEF Entry
  <2> QED
    BY <2>1, <2>2
<1>10. d \notin crossed => Shows(r)
  BY <1>2, <1>4, <1>6, <1>8, <1>9 DEF Shows, e
<1> QED
  BY <1>3, <1>5, <1>7, <1>10, ClientDoes DEF CallInv, BookInv
(* Connections and the server: the clients stay as they are.               *)
LEMMA NoClientCall ==
    ASSUME Inv, CallInv, NEW book, Kept(book), UNCHANGED <<dev, sent, crossed>>,
           NetOk(book)', Sides', EndedInv'
    PROVE  CallInv'
BY DEF CallInv, BookInv, Kept, BookOk, ShowsInv

LEMMA ThisConnection ==
    ASSUME Inv, CallInv, NEW book, Kept(book), NEW e \in Device
    PROVE  /\ FramesOk(book, e) /\ InOrder(e)
           /\ Line(e) \in Seq(Frame) /\ down[e] \in Seq(Frame)
           /\ SeqOk(book, sent, Line(e)) /\ SentBy(Line(e), e)
           /\ SeqOk(book, sent, down[e]) /\ SentTo(down[e], Owner[e])
           /\ handling[e] \in Frame \cup {NoFrame}
           /\ handling[e] # NoFrame => FrameOk(book, sent, handling[e]) /\ handling[e].by = e
           /\ alive[e] => outbox[e] = <<>>
           /\ ~alive[e] => up[e] = <<>> /\ down[e] = <<>>
BY LineType DEF Kept, NetOk, FramesOk, CallInv, BookInv, EndedInv, Inv, ServerType, Sides

(* A line that is cut or handed over whole, and a device that gets nothing *)
(* or the frame meant for its user.                                        *)
LEMMA FramesKept ==
    ASSUME Inv, CallInv, NEW book, Kept(book), NEW e \in Device, sent' = sent,
           \/ (Line(e))' = Line(e)
           \/ (Line(e))' = <<>>
           \/ Line(e) # <<>> /\ (Line(e))' = Tail(Line(e)),
           \/ down'[e] = down[e]
           \/ down'[e] = <<>>
           \/ \E f \in Frame : /\ down'[e] = Append(down[e], f)
                               /\ FrameOk(book, sent, f) /\ f.to = Owner[e],
           \/ handling'[e] \in {NoFrame, handling[e]}
           \/ Line(e) # <<>> /\ handling'[e] = Head(Line(e))
    PROVE  FramesOk(book, e)'
<1>1. SeqOk(book, sent', (Line(e))') /\ SentBy((Line(e))', e)
  <2>1. Line(e) \in Seq(Frame) /\ SeqOk(book, sent, Line(e)) /\ SentBy(Line(e), e)
    BY ThisConnection
  <2> QED
    BY <2>1, TailOk, EmptyOk
<1>2. SeqOk(book, sent', down'[e]) /\ SentTo(down'[e], Owner[e])
  <2>1. CASE down'[e] = <<>>
    BY <2>1 DEF SeqOk, SentTo
  <2>2. ASSUME NEW f \in Frame, down'[e] = Append(down[e], f), FrameOk(book, sent, f),
               f.to = Owner[e]
        PROVE  SeqOk(book, sent', down'[e]) /\ SentTo(down'[e], Owner[e])
    <3>1. down[e] \in Seq(Frame) /\ SeqOk(book, sent, down[e]) /\ SentTo(down[e], Owner[e])
      BY ThisConnection
    <3> QED
      BY <2>2, <3>1, AppendOk
  <2> QED
    BY <2>1, <2>2, ThisConnection
<1>3. handling'[e] # NoFrame => FrameOk(book, sent', handling'[e]) /\ handling'[e].by = e
  <2>1. CASE handling'[e] \in {NoFrame, handling[e]}
    BY <2>1, ThisConnection
  <2>2. CASE Line(e) # <<>> /\ handling'[e] = Head(Line(e))
    <3>1. Line(e) \in Seq(Frame) /\ SeqOk(book, sent, Line(e)) /\ SentBy(Line(e), e)
      BY ThisConnection
    <3> QED
      BY <2>2, <3>1, TailOk
  <2> QED
    BY <2>1, <2>2
<1> QED
  BY <1>1, <1>2, <1>3 DEF FramesOk

(* And no offer turns up that was not there.                               *)
LEMMA OrderKept ==
    ASSUME Inv, CallInv, NEW e \in Device,
           \/ (Line(e))' = Line(e) /\ handling'[e] \in {NoFrame, handling[e]}
           \/ (Line(e))' = <<>> /\ handling'[e] = handling[e]
           \/ /\ Line(e) # <<>> /\ (Line(e))' = Tail(Line(e)) /\ handling[e] = NoFrame
              /\ handling'[e] \in {NoFrame, Head(Line(e))}
    PROVE  /\ InOrder(e)'
           /\ \A n : Offers((Line(e))', n) => Offers(Line(e), n)
           /\ \A n : IsOffer(handling'[e], n) => IsOffer(handling[e], n) \/ Offers(Line(e), n)
<1>1. Line(e) \in Seq(Frame) /\ Follows(Line(e))
      /\ \A n \in CallId : IsEnd(handling[e], n) => ~Offers(Line(e), n)
  BY LineType DEF CallInv, EndedInv, InOrder
<1>2. \A n : ~IsEnd(NoFrame, n) /\ ~IsOffer(NoFrame, n)
  BY DEF IsEnd, IsOffer
<1>3. Follows(<<>>) /\ \A n : ~Offers(<<>>, n)
  BY DEF Follows, Offers
<1>4. Line(e) # <<>> => /\ Follows(Tail(Line(e)))
                        /\ \A n : Offers(Tail(Line(e)), n) => Offers(Line(e), n)
                        /\ \A n : IsOffer(Head(Line(e)), n) => Offers(Line(e), n)
                        /\ \A n \in CallId : IsEnd(Head(Line(e)), n) => ~Offers(Tail(Line(e)), n)
  <2>1. Line(e) # <<>> => Head(Line(e)) \in Frame
    BY <1>1
  <2> QED
    BY <1>1, <2>1, FollowsOk
<1>5. Follows((Line(e))') /\ \A n : Offers((Line(e))', n) => Offers(Line(e), n)
  BY <1>1, <1>3, <1>4
<1>6. \A n \in CallId : IsEnd(handling'[e], n) => ~Offers((Line(e))', n)
  BY <1>1, <1>2, <1>3, <1>4
<1>7. \A n : IsOffer(handling'[e], n) => IsOffer(handling[e], n) \/ Offers(Line(e), n)
  BY <1>2, <1>4
<1> QED
  BY <1>5, <1>6, <1>7 DEF InOrder
LEMMA ConnectionCall ==
    ASSUME Inv, CallInv, NEW d \in Device, Connect(d) \/ Drop(d) \/ Unregister(d)
    PROVE  CallInv'
<1>1. PICK book : Kept(book)
  BY DEF CallInv, BookInv
<1>2. UNCHANGED <<dev, sent, crossed, handling, queue, ended>>
  BY DEF Connect, Drop, Unregister, clientVars, serverVars
<1>3. /\ alive \in [Device -> BOOLEAN] /\ up \in [Device -> Seq(Frame)]
      /\ down \in [Device -> Seq(Frame)] /\ outbox \in [Device -> Seq(Frame)]
  BY DEF Inv, NetType
<1>4. ASSUME NEW e \in Device
      PROVE  /\ (Line(e))' = Line(e) \/ (Line(e))' = <<>>
             /\ down'[e] = down[e] \/ down'[e] = <<>>
             /\ alive'[e] => outbox'[e] = <<>>
             /\ ~alive'[e] => up'[e] = <<>> /\ down'[e] = <<>>
  BY <1>1, <1>3, ThisConnection DEF Connect, Drop, Unregister, netVars, Line
<1>5. \A e \in Device : FramesOk(book, e)'
  BY <1>1, <1>2, <1>4, FramesKept
<1>6. \A e \in Device : InOrder(e)' /\ \A n : Offers((Line(e))', n) => Offers(Line(e), n)
  BY <1>2, <1>4, OrderKept
<1>7. NetOk(book)'
  BY <1>1, <1>2, <1>5 DEF NetOk, Kept, QueuedOk
<1>8. EndedInv'
  BY <1>2, <1>6 DEF EndedInv, EndedGone, CallInv
<1> QED
  BY <1>1, <1>2, <1>4, <1>7, <1>8, NoClientCall DEF Sides

LEMMA ReloadCall ==
    ASSUME Inv, CallInv, NEW d \in Device, Reload(d)
    PROVE  CallInv'
<1>1. PICK book : Kept(book)
  BY DEF CallInv, BookInv
<1>2. UNCHANGED <<sent, crossed, handling, queue, ended>> /\ dev' = [dev EXCEPT ![d] = Idle]
  BY DEF Reload, serverVars
<1>3. /\ alive \in [Device -> BOOLEAN] /\ up \in [Device -> Seq(Frame)]
      /\ down \in [Device -> Seq(Frame)] /\ outbox \in [Device -> Seq(Frame)]
  BY DEF Inv, NetType
<1>4. ASSUME NEW e \in Device
      PROVE  /\ (Line(e))' = Line(e) \/ (Line(e))' = <<>>
             /\ down'[e] = down[e] \/ down'[e] = <<>>
             /\ alive'[e] => outbox'[e] = <<>>
             /\ ~alive'[e] => up'[e] = <<>> /\ down'[e] = <<>>
  BY <1>1, <1>3, ThisConnection DEF Reload, Line
<1>5. \A e \in Device : FramesOk(book, e)'
  BY <1>1, <1>2, <1>4, FramesKept
<1>6. \A e \in Device : InOrder(e)' /\ \A n : Offers((Line(e))', n) => Offers(Line(e), n)
  BY <1>2, <1>4, OrderKept
<1>7. NetOk(book)'
  BY <1>1, <1>2, <1>5 DEF NetOk, Kept, QueuedOk
<1>8. EndedInv'
  BY <1>2, <1>6 DEF EndedInv, EndedGone, CallInv
<1>9. ClientOk(book, sent', d, Idle) /\ Shows(Idle) /\ Becomes(d, Idle)
  BY <1>2 DEF ClientOk, Shows, Idle, NoPC, Becomes
<1>10. Kept(book)'
  <2>1. Later(book, sent, book, sent')
    BY <1>1, <1>2, SameBook DEF Kept
  <2> QED
    BY <1>1, <1>2, <1>7, <1>9, <2>1, KeptBy
<1>11. ShowsInv'
  BY <1>9, ShowsBy DEF CallInv
<1>12. book \in Books /\ Sides'
  BY <1>1, <1>4 DEF Kept, BookOk, Sides
<1> QED
  BY <1>8, <1>10, <1>11, <1>12 DEF CallInv, BookInv

LEMMA FlushCall ==
    ASSUME Inv, CallInv, NEW d \in Device, flushCallSignals(d)
    PROVE  CallInv'
<1> DEFINE u == Owner[d]
<1>1. PICK book : Kept(book)
  BY DEF CallInv, BookInv
<1>2. UNCHANGED <<dev, sent, crossed, alive, outbox, up, handling, ended>>
      /\ queue' = [queue EXCEPT ![u] = NoFrame] /\ u \in User
  BY CallsAssumption DEF flushCallSignals, clientVars
<1>3. queue \in [User -> Frame \cup {NoFrame}] /\ QueuedOk(book, u)
  BY <1>1, <1>2 DEF Inv, ServerType, Kept, NetOk
<1>4. ASSUME NEW e \in Device
      PROVE  /\ \/ down'[e] = down[e]
                \/ \E f \in Frame : /\ down'[e] = Append(down[e], f)
                                    /\ FrameOk(book, sent, f) /\ f.to = Owner[e]
             /\ ~alive[e] => down'[e] = down[e]
  <2>1. CASE queue[u] # NoFrame
    <3>1. queue[u] \in Frame /\ FrameOk(book, sent, queue[u]) /\ queue[u].to = u
      BY <1>2, <1>3, <2>1 DEF QueuedOk
    <3>2. down' = [x \in Device |-> IF x \in {d} /\ alive[x] THEN Append(down[x], queue[u])
                                    ELSE down[x]]
      BY <2>1 DEF flushCallSignals, Deliver
    <3> QED
      BY <3>1, <3>2
  <2>2. CASE queue[u] = NoFrame
    BY <2>2 DEF flushCallSignals
  <2> QED
    BY <2>1, <2>2
<1>5. \A e \in Device : (Line(e))' = Line(e)
  BY <1>2 DEF Line
<1>6. ASSUME NEW e \in Device PROVE FramesOk(book, e)'
  BY <1>1, <1>2, <1>4, <1>5, FramesKept
<1>7. \A e \in Device : InOrder(e)' /\ \A n : Offers((Line(e))', n) => Offers(Line(e), n)
  BY <1>2, <1>5, OrderKept
<1>8. \A v \in User : queue'[v] \in {NoFrame, queue[v]}
  BY <1>2, <1>3
<1>9. NetOk(book)'
  <2>1. ASSUME NEW v \in User PROVE QueuedOk(book, v)'
    BY <1>1, <1>2, <1>8 DEF NetOk, Kept, QueuedOk
  <2> QED
    BY <1>6, <2>1 DEF NetOk
<1>10. EndedInv'
  BY <1>2, <1>5, <1>7, <1>8 DEF EndedInv, EndedGone, CallInv, IsOffer
<1>11. Sides'
  BY <1>1, <1>2, <1>4, ThisConnection DEF Sides
<1> QED
  BY <1>1, <1>2, <1>9, <1>10, <1>11, NoClientCall

LEMMA TrackAndRouteCall ==
    ASSUME Inv, CallInv, NEW d \in Device, TrackAndRoute(d)
    PROVE  CallInv'
<1> DEFINE f == Head(up[d])
<1>1. PICK book : Kept(book)
  BY DEF CallInv, BookInv
<1>2. /\ UNCHANGED <<dev, sent, crossed, alive, outbox, queue, ended>>
      /\ handling[d] = NoFrame /\ up[d] # <<>> /\ up' = [up EXCEPT ![d] = Tail(@)]
      /\ handling' = handling \/ handling' = [handling EXCEPT ![d] = f]
  BY DEF TrackAndRoute, clientVars
<1>3. /\ up \in [Device -> Seq(Frame)] /\ handling \in [Device -> Frame \cup {NoFrame}]
      /\ down \in [Device -> Seq(Frame)]
  BY DEF Inv, NetType, ServerType
<1>4. alive[d] /\ Line(d) = up[d] /\ f \in Frame
  BY <1>1, <1>2, <1>3, ThisConnection DEF Line
<1>5. FrameOk(book, sent, f)
  <2>1. up[d] \in Seq(Frame) /\ SeqOk(book, sent, up[d])
    BY <1>1, <1>4, ThisConnection
  <2> QED
    BY <1>2, <2>1, TailOk
<1>6. ASSUME NEW e \in Device
      PROVE  /\ \/ (Line(e))' = Line(e) /\ handling'[e] = handling[e]
                \/ /\ Line(e) # <<>> /\ (Line(e))' = Tail(Line(e)) /\ handling[e] = NoFrame
                   /\ handling'[e] \in {NoFrame, Head(Line(e))}
             /\ ~alive[e] => up'[e] = up[e]
  <2>1. CASE e = d
    BY <1>2, <1>3, <1>4, <2>1 DEF Line
  <2>2. CASE e # d
    BY <1>2, <1>3, <2>2 DEF Line
  <2> QED
    BY <2>1, <2>2
<1>7. ASSUME NEW e \in Device
      PROVE  /\ down'[e] = down[e] \/ (down'[e] = Append(down[e], f) /\ f.to = Owner[e])
             /\ ~alive[e] => down'[e] = down[e]
  <2>1. Registered(f.to) \subseteq {x \in Device : Owner[x] = f.to}
    BY DEF Registered, Devices
  <2>2. \/ down' = down
        \/ down' = [x \in Device |-> IF x \in Registered(f.to) /\ alive[x]
                                     THEN Append(down[x], f) ELSE down[x]]
    BY DEF TrackAndRoute, Deliver
  <2> HIDE DEF f
  <2> QED
    BY <2>1, <2>2
<1> HIDE DEF f
<1>8. ASSUME NEW e \in Device PROVE FramesOk(book, e)'
  <2>1. \/ handling'[e] \in {NoFrame, handling[e]}
        \/ Line(e) # <<>> /\ handling'[e] = Head(Line(e))
    BY <1>6
  <2> QED
    BY <1>1, <1>2, <1>4, <1>5, <1>6, <1>7, <2>1, FramesKept
<1>9. ASSUME NEW e \in Device
      PROVE  /\ InOrder(e)'
             /\ \A n : Offers((Line(e))', n) => Offers(Line(e), n)
             /\ \A n : IsOffer(handling'[e], n) => IsOffer(handling[e], n) \/ Offers(Line(e), n)
  BY <1>6, OrderKept
<1>10. NetOk(book)'
  BY <1>1, <1>2, <1>8 DEF NetOk, Kept, QueuedOk
<1>11. EndedInv'
  BY <1>2, <1>9 DEF EndedInv, EndedGone, CallInv
<1>12. Sides'
  BY <1>1, <1>2, <1>6, <1>7, ThisConnection DEF Sides
<1> QED
  BY <1>1, <1>2, <1>10, <1>11, <1>12, NoClientCall

(* Only the caller's device sends a call's offer and its end, and the end  *)
(* is addressed to the user the offer was.                                 *)
LEMMA AbsentCall ==
    ASSUME Inv, CallInv, NEW d \in Device, Absent(d)
    PROVE  CallInv'
<1> DEFINE f == handling[d]
<1>1. PICK book : Kept(book)
  BY DEF CallInv, BookInv
<1>2. /\ UNCHANGED <<dev, sent, crossed, alive, outbox, up, down>>
      /\ f # NoFrame /\ handling' = [handling EXCEPT ![d] = NoFrame]
  BY DEF Absent, clientVars, netVars
<1>3. /\ handling \in [Device -> Frame \cup {NoFrame}] /\ queue \in [User -> Frame \cup {NoFrame}]
      /\ ended \subseteq CallId /\ CallId = 1..MaxCalls /\ MaxCalls \in Nat /\ sent \in 0..MaxCalls
  BY CallsAssumption DEF Inv, ServerType, CountType, CallId
<1>4. f \in Frame /\ FrameOk(book, sent, f) /\ f.by = d /\ f.to \in User /\ f.n \in 0..MaxCalls
      /\ f.type \in {"call-offer", "call-answer", "call-end", "call-reject"}
  BY <1>1, <1>2, <1>3, ThisConnection, OfferNumber
<1>5. \A e \in Device : /\ (Line(e))' = Line(e) /\ handling'[e] \in {NoFrame, handling[e]}
                        /\ down'[e] = down[e]
  BY <1>2, <1>3 DEF Line
<1>6. \A e \in Device : FramesOk(book, e)'
  BY <1>1, <1>2, <1>5, FramesKept
<1>7. \A e \in Device : InOrder(e)'
  BY <1>5, OrderKept
<1>8. ASSUME NEW u \in User
      PROVE  \/ queue'[u] \in {NoFrame, queue[u]} /\ (u = f.to /\ f.type = "call-end" => queue'[u] = NoFrame)
             \/ f.type = "call-offer" /\ u = f.to /\ queue'[u] = f
  BY <1>3, <1>4 DEF Absent
<1>9. NetOk(book)'
  <2>1. ASSUME NEW u \in User PROVE QueuedOk(book, u)'
    <3>1. QueuedOk(book, u)
      BY <1>1 DEF NetOk, Kept
    <3> QED
      BY <1>2, <1>4, <1>8, <3>1 DEF QueuedOk
  <2> QED
    BY <1>6, <2>1 DEF NetOk
<1>10. ASSUME NEW n \in ended'
       PROVE  n \in ended \/ (n \in CallId /\ f.type = "call-end" /\ f.n = n)
  BY <1>3, <1>4 DEF Absent
<1>11. ASSUME NEW n \in ended
       PROVE  /\ n <= sent'
              /\ \A e \in Device : ~Offers((Line(e))', n) /\ ~IsOffer(handling'[e], n)
              /\ \A u \in User : ~IsOffer(queue'[u], n)
  <2>1. /\ n <= sent
        /\ \A e \in Device : ~Offers(Line(e), n) /\ ~IsOffer(handling[e], n)
        /\ \A u \in User : ~IsOffer(queue[u], n)
    BY DEF CallInv, EndedInv, EndedGone
  <2> QED
    BY <1>2, <1>5, <1>8, <2>1 DEF IsOffer
<1>12. ASSUME NEW n \in CallId, f.type = "call-end", f.n = n
       PROVE  /\ n <= sent'
              /\ \A e \in Device : ~Offers((Line(e))', n) /\ ~IsOffer(handling'[e], n)
              /\ \A u \in User : ~IsOffer(queue'[u], n)
  <2>1. n <= sent /\ book[n] = Entry(d, f.to)
    BY <1>3, <1>4, <1>12 DEF FrameOk
  <2>2. ASSUME NEW g \in Frame, FrameOk(book, sent, g), IsOffer(g, n)
        PROVE  g.by = d /\ g.to = f.to
    BY <2>1, <2>2 DEF FrameOk, IsOffer, Entry
  <2>3. ASSUME NEW e \in Device, Offers(Line(e), n) PROVE FALSE
    <3>1. PICK i \in 1..Len(Line(e)) : IsOffer(Line(e)[i], n)
      BY <2>3 DEF Offers
    <3>2. Line(e)[i] \in Frame /\ FrameOk(book, sent, Line(e)[i]) /\ Line(e)[i].by = e
      BY <1>1, ThisConnection DEF SeqOk, SentBy
    <3>3. e = d
      BY <2>2, <3>1, <3>2
    <3> QED
      BY <1>1, <1>2, <1>12, <2>3, <3>3, ThisConnection DEF InOrder, IsEnd
  <2>4. ASSUME NEW e \in Device, IsOffer(handling[e], n) PROVE FALSE
    <3>1. handling[e] \in Frame /\ FrameOk(book, sent, handling[e]) /\ handling[e].by = e
      BY <1>1, <2>4, ThisConnection DEF IsOffer
    <3>2. e = d
      BY <2>2, <2>4, <3>1
    <3> QED
      BY <1>12, <2>4, <3>2 DEF IsOffer
  <2>5. ASSUME NEW u \in User, IsOffer(queue'[u], n) PROVE FALSE
    <3>1. queue[u] \in Frame /\ IsOffer(queue[u], n) /\ (u = f.to => queue'[u] = NoFrame)
      BY <1>3, <1>8, <1>12, <2>5 DEF IsOffer
    <3>2. FrameOk(book, sent, queue[u]) /\ queue[u].to = u
      BY <1>1, <3>1 DEF Kept, NetOk, QueuedOk, IsOffer
    <3> QED
      BY <2>2, <2>5, <3>1, <3>2 DEF IsOffer
  <2> QED
    BY <1>2, <1>5, <2>1, <2>3, <2>4, <2>5 DEF IsOffer
<1>13. EndedInv'
  BY <1>7, <1>10, <1>11, <1>12 DEF EndedInv, EndedGone
<1>14. Sides'
  BY <1>2 DEF CallInv, BookInv, Sides
<1> QED
  BY <1>1, <1>2, <1>9, <1>13, <1>14, NoClientCall

LEMMA ExpireCall ==
    ASSUME Inv, CallInv, NEW u \in User, Expire(u)
    PROVE  CallInv'
<1>1. PICK book : Kept(book)
  BY DEF CallInv, BookInv
<1>2. UNCHANGED <<dev, sent, crossed, alive, outbox, up, down, handling, ended>>
      /\ \A v \in User : queue'[v] \in {NoFrame, queue[v]}
  BY DEF Expire, clientVars, netVars, Inv, ServerType
<1>3. \A e \in Device : (Line(e))' = Line(e)
  BY <1>2 DEF Line
<1>4. \A e \in Device : FramesOk(book, e)' /\ InOrder(e)'
  BY <1>1, <1>2, <1>3, FramesKept, OrderKept
<1>5. NetOk(book)'
  <2>1. ASSUME NEW v \in User PROVE QueuedOk(book, v)'
    BY <1>1, <1>2 DEF NetOk, Kept, QueuedOk
  <2> QED
    BY <1>4, <2>1 DEF NetOk
<1>6. EndedInv'
  BY <1>2, <1>3, <1>4 DEF EndedInv, EndedGone, CallInv, IsOffer
<1>7. Sides'
  BY <1>2 DEF CallInv, BookInv, Sides
<1> QED
  BY <1>1, <1>2, <1>5, <1>6, <1>7, NoClientCall
-----------------------------------------------------------------------------

LEMMA InitCall == Init => CallInv
<1> SUFFICES ASSUME Init PROVE CallInv
  OBVIOUS
<1>1. Inv
  BY InitInv
<1>2. /\ sent = 0 /\ ended = {} /\ \A d \in Device : dev[d] = Idle /\ handling[d] = NoFrame
      /\ \A d \in Device : outbox[d] = <<>> /\ up[d] = <<>> /\ down[d] = <<>>
      /\ \A u \in User : queue[u] = NoFrame
  BY DEF Init
<1>3. \A d \in Device : Line(d) = <<>>
  BY <1>2 DEF Line
<1>4. PICK book : book \in Books
  <2>1. [n \in CallId |-> Entry(NoDevice, NoUser)] \in Books
    BY DEF Books, Entry
  <2> QED
    BY <2>1
<1>5. BookOk(book, sent)
  BY <1>2, <1>4 DEF BookOk
<1>6. NetOk(book)
  BY <1>2, <1>3 DEF NetOk, FramesOk, QueuedOk, SeqOk, SentBy, SentTo
<1>7. \A d \in Device : ClientOk(book, sent, d, dev[d]) /\ Shows(dev[d])
  BY <1>2 DEF ClientOk, Shows, Idle, NoPC
<1>8. Sides
  BY <1>2 DEF Sides
<1>9. EndedInv
  BY <1>2, <1>3 DEF EndedInv, EndedGone, InOrder, Follows, IsEnd
<1> QED
  BY <1>4, <1>5, <1>6, <1>7, <1>8, <1>9 DEF CallInv, BookInv, Kept, ShowsInv
LEMMA CallStep ==
    ASSUME Inv, CallInv, [Next]_vars
    PROVE  CallInv'
<1>1. CASE UNCHANGED vars
  <2>1. PICK book : Kept(book)
    BY DEF CallInv, BookInv
  <2>2. UNCHANGED <<dev, sent, crossed, alive, outbox, up, down, handling, queue, ended>>
    BY <1>1 DEF vars
  <2>3. \A e \in Device : (Line(e))' = Line(e)
    BY <2>2 DEF Line
  <2>4. \A e \in Device : FramesOk(book, e)' /\ InOrder(e)'
    BY <2>1, <2>2, <2>3, FramesKept, OrderKept
  <2>5. NetOk(book)'
    BY <2>1, <2>2, <2>4 DEF NetOk, Kept, QueuedOk
  <2>6. EndedInv' /\ Sides'
    BY <2>2, <2>3, <2>4 DEF EndedInv, EndedGone, CallInv, BookInv, Sides
  <2> QED
    BY <2>1, <2>2, <2>5, <2>6, NoClientCall
<1>2. ASSUME NEW d \in Device, UserStep(d) \/ ClientStep(d) PROVE CallInv'
  BY <1>2, KeepingCall, EndingCall, StartMediaCall, SendOfferCall, AcceptMediaCall,
     SendAnswerCall, OnOfferCall, OnAnswerCall DEF UserStep, ClientStep, handleCallMessage
<1>3. ASSUME NEW d \in Device,
             ServerStep(d) \/ MediaConnects(d) \/ MediaFails(d)
                 \/ Connect(d) \/ Drop(d) \/ Reload(d)
      PROVE  CallInv'
  BY <1>3, FlushCall, TrackAndRouteCall, AbsentCall, ConnectionCall, MediaConnectsCall,
     EndingCall, ReloadCall DEF ServerStep
<1>4. ASSUME NEW u \in User, Expire(u) PROVE CallInv'
  BY <1>4, ExpireCall
<1> QED
  BY <1>1, <1>2, <1>3, <1>4 DEF Next

LEMMA CallInvAlways == Spec => [](Inv /\ CallInv)
<1>1. Init => Inv /\ CallInv
  BY InitInv, InitCall
<1>2. Inv /\ CallInv /\ [Next]_vars => (Inv /\ CallInv)'
  BY StepInv, CallStep
<1> QED
  BY <1>1, <1>2, PTL DEF Spec

(* An absent callee's queue never holds the offer of a call whose end has  *)
(* found them absent: the end travels behind the offer on one connection,  *)
(* and whoever routes the offer has queued it before the end comes.        *)
THEOREM EndedStaysForgotten == Spec => []EndedIsForgotten
<1>1. Inv /\ CallInv => EndedIsForgotten
  <2> SUFFICES ASSUME Inv, CallInv, NEW u \in User, queue[u] # NoFrame PROVE queue[u].n \notin ended
    BY DEF EndedIsForgotten
  <2>1. PICK book : Kept(book)
    BY DEF CallInv, BookInv
  <2>2. queue[u].type = "call-offer"
    BY <2>1 DEF Kept, NetOk, QueuedOk
  <2> QED
    BY <2>2 DEF CallInv, EndedInv, EndedGone, IsOffer
<1> QED
  BY <1>1, CallInvAlways, PTL

(* The name on the overlay of a connected call is that of the user whose   *)
(* device the media comes from, for every device that was not answering    *)
(* and dialling at once.                                                   *)
THEOREM OverlayIsTrue == Spec => []TalkToWhomYouSee
<1>1. CallInv => TalkToWhomYouSee
  BY DEF CallInv, ShowsInv, Shows, TalkToWhomYouSee
<1> QED
  BY <1>1, CallInvAlways, PTL
=============================================================================
