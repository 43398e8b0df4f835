------------------------------- MODULE Calls -------------------------------
(***************************************************************************)
(* Call signalling: the two parties' web clients (web/js/calls.js), the    *)
(* frames between them and the server, the server's map of calls           *)
(* (routeMessageNoSave, ws.go) and the offer it keeps for a callee without *)
(* a connection (calls.go).                                                *)
(*                                                                         *)
(* A client's handlers run to the next await: startCall and acceptCall are *)
(* several actions each, and everything else may run between two of them.  *)
(* Offers are numbered in the order they are sent; a frame carries the     *)
(* number of the offer it belongs to and the device it is from, which      *)
(* stand for the session description in its body.                          *)
(***************************************************************************)
EXTENDS Naturals, Sequences, FiniteSets

CONSTANTS
    User, Device,
    Owner,          \* whose device it is
    NoUser, NoDevice,
    NoFrame,        \* nothing queued, or nothing being handled
    MaxCalls,       \* bound: offers sent in one behaviour
    MaxDrops,       \* bound: connections that break, tabs that are closed
    Present         \* the devices that are connected at first

ASSUME CallsAssumption ==
    /\ Owner \in [Device -> User]
    /\ NoUser \notin User /\ NoDevice \notin Device
    /\ MaxCalls \in Nat /\ MaxDrops \in Nat
    /\ Present \subseteq Device

VARIABLES
    dev,        \* the call state of each client
    sent,       \* how many offers have been sent
    outcomes,   \* how many outcomes of each call its caller has logged
    alive,      \* the client's socket is open
    outbox,     \* frames the client holds until it has a socket
    up, down,   \* frames under way to the server and from it
    reg,        \* the server's connection: none, registered, reading
    handling,   \* the frame a connection's goroutine is routing, and how far
    callMap,    \* caller -> callee
    queue,      \* the offer kept for an absent callee
    ended,      \* offers whose call-end has been routed to an absent callee
    crossed,    \* devices that were answering and dialling at once
    drops       \* connections broken so far

vars == <<dev, sent, outcomes, alive, outbox, up, down, reg, handling, callMap, queue,
          ended, crossed, drops>>
clientVars == <<dev, sent, outcomes, crossed>>
netVars == <<alive, outbox, up, down>>
serverVars == <<reg, handling, callMap, queue, ended>>

CallId == 1..MaxCalls
Frame ==
    [type : {"call-offer", "call-answer"}, from : User, to : User, n : CallId, by : Device]
    \cup
    [type : {"call-end", "call-reject"}, from : User, to : User, n : 0..MaxCalls, by : Device]
PC == [open : BOOLEAN, mine : 0..MaxCalls, theirs : 0..MaxCalls,
       far : Device \cup {NoDevice}]
Client == [peer : User \cup {NoUser}, pc : PC, offer : Frame \cup {NoFrame},
           dial : 0..MaxCalls, connected : BOOLEAN, logged : BOOLEAN,
           ring : BOOLEAN,
           late : SUBSET {"endCall", "cleanupCall"},
           start : {"no", "media", "offer"},
           accept : {"no", "media", "answer"}]

NoPC == [open |-> FALSE, mine |-> 0, theirs |-> 0, far |-> NoDevice]
NewPC == [NoPC EXCEPT !.open = TRUE]

Idle == [peer |-> NoUser, pc |-> NoPC, offer |-> NoFrame, dial |-> 0,
         connected |-> FALSE, logged |-> FALSE, ring |-> FALSE, late |-> {},
         start |-> "no", accept |-> "no"]

Devices(u) == {d \in Device : Owner[d] = u}
Registered(u) == {d \in Devices(u) : reg[d] # "no"}

Init ==
    /\ dev = [d \in Device |-> Idle]
    /\ sent = 0 /\ outcomes = [n \in CallId |-> 0]
    /\ alive = [d \in Device |-> d \in Present]
    /\ outbox = [d \in Device |-> <<>>]
    /\ up = [d \in Device |-> <<>>]
    /\ down = [d \in Device |-> <<>>]
    /\ reg = [d \in Device |-> IF d \in Present THEN "reading" ELSE "no"]
    /\ handling = [d \in Device |-> NoFrame]
    /\ callMap = [u \in User |-> NoUser]
    /\ queue = [u \in User |-> NoFrame]
    /\ ended = {} /\ crossed = {} /\ drops = 0

----------------------------------------------------------------------------
(* What the client's handlers have in common *)

FrameOf(d, type, to, n) ==
    [type |-> type, from |-> Owner[d], to |-> to, n |-> n, by |-> d]

\* A frame goes out on the open socket, or waits for the next one.
wsSend(d, f) ==
    /\ up' = IF alive[d] THEN [up EXCEPT ![d] = Append(@, f)] ELSE up
    /\ outbox' = IF alive[d] THEN outbox ELSE [outbox EXCEPT ![d] = Append(@, f)]
    /\ UNCHANGED <<alive, down>>

\* Mutant: the promises of the call that ended are still waited for.
cleanupCallKeepsJobs(r) ==
    [Idle EXCEPT !.late = r.late, !.start = r.start, !.accept = r.accept]

\* The call's end on this device. Pending timers of "No answer" and "Call
\* declined" are not among those it clears, and a startCall or acceptCall that
\* waits for its connection's description never gets it.
cleanupCall(r) ==
    [Idle EXCEPT !.late = r.late,
                 !.start = IF r.start = "offer" THEN "no" ELSE r.start,
                 !.accept = IF r.accept = "answer" THEN "no" ELSE r.accept]

MayLog(r) == r.dial # 0 /\ ~r.logged /\ r.peer # NoUser

LogOnce(r) == IF MayLog(r) THEN [outcomes EXCEPT ![r.dial] = @ + 1] ELSE outcomes

\* What cleanupCall logs: a call that was connected, by its caller.
LogDone(r) == IF r.connected THEN LogOnce(r) ELSE outcomes

Becomes(d, r) ==
    /\ dev' = [dev EXCEPT ![d] = r]
    /\ crossed' = IF r.accept # "no" /\ (r.start # "no" \/ r.dial # 0)
                  THEN crossed \cup {d} ELSE crossed

\* endCall and rejectCall: tell the other side, then clean up.
Leave(d, type) ==
    LET r == dev[d] IN
    /\ Becomes(d, cleanupCall([r EXCEPT !.late = @ \ {"endCall"}]))
    /\ outcomes' = LogDone(r)
    /\ IF r.peer # NoUser
       THEN wsSend(d, FrameOf(d, type, r.peer, r.dial))
       ELSE UNCHANGED netVars

----------------------------------------------------------------------------
(* Placing a call *)

Starting == {d \in Device : dev[d].start # "no"}

startCall(d) ==
    /\ sent + Cardinality(Starting) < MaxCalls
    /\ alive[d]
    /\ dev[d].peer = NoUser         \* no call overlay covers the button
    /\ ~dev[d].pc.open /\ dev[d].start = "no"
    /\ Becomes(d, [dev[d] EXCEPT !.connected = FALSE, !.logged = FALSE,
                                 !.start = "media"])
    /\ UNCHANGED <<sent, outcomes, netVars, serverVars, drops>>

\* The microphone opens and the connection object is made, or the user or the
\* system refuses the microphone.
StartMedia(d) ==
    /\ dev[d].start = "media"
    /\ \/ Becomes(d, [dev[d] EXCEPT !.pc = NewPC, !.start = "offer",
                                    !.accept = IF @ = "answer" THEN "no" ELSE @])
       \/ Becomes(d, [dev[d] EXCEPT !.start = "no"])
    /\ UNCHANGED <<sent, outcomes, netVars, serverVars, drops>>

\* The offer goes to the chat that is open by now.
SendOffer(d, u) ==
    LET n == sent + 1 IN
    /\ dev[d].start = "offer" /\ n <= MaxCalls
    /\ u # Owner[d]
    /\ Becomes(d, [dev[d] EXCEPT !.pc.mine = n, !.peer = u, !.dial = n,
                                 !.ring = TRUE, !.start = "no"])
    /\ sent' = n
    /\ wsSend(d, FrameOf(d, "call-offer", u, n))
    /\ UNCHANGED <<outcomes, serverVars, drops>>

\* Mutant: the timer shows "No answer" and leaves the rest to the user.
RingTimeoutShowsOnly(d) ==
    LET r == dev[d]
        NoAnswer == r.pc.open /\ r.pc.theirs = 0 IN
    /\ r.ring
    /\ Becomes(d, [r EXCEPT !.ring = FALSE, !.logged = @ \/ (NoAnswer /\ MayLog(r))])
    /\ outcomes' = IF NoAnswer THEN LogOnce(r) ELSE outcomes
    /\ UNCHANGED <<sent, netVars, serverVars, drops>>

\* Mutant: a missed call is logged without a note that it has been.
RingTimeoutLogsAgain(d) ==
    LET r == dev[d]
        NoAnswer == r.pc.open /\ r.pc.theirs = 0 IN
    /\ r.ring
    /\ Becomes(d, [r EXCEPT !.ring = FALSE,
                            !.late = IF NoAnswer THEN @ \cup {"endCall"} ELSE @])
    /\ outcomes' = IF NoAnswer THEN LogOnce(r) ELSE outcomes
    /\ UNCHANGED <<sent, netVars, serverVars, drops>>

\* Forty-five seconds without an answer; the call is ended a moment later.
RingTimeout(d) ==
    LET r == dev[d]
        NoAnswer == r.pc.open /\ r.pc.theirs = 0 IN
    /\ r.ring
    /\ Becomes(d, IF NoAnswer
                  THEN [r EXCEPT !.ring = FALSE, !.late = @ \cup {"endCall"},
                                 !.logged = @ \/ MayLog(r)]
                  ELSE [r EXCEPT !.ring = FALSE])
    /\ outcomes' = IF NoAnswer THEN LogOnce(r) ELSE outcomes
    /\ UNCHANGED <<sent, netVars, serverVars, drops>>

LateEnd(d) ==
    /\ "endCall" \in dev[d].late
    /\ Leave(d, "call-end")
    /\ UNCHANGED <<sent, serverVars, drops>>

LateCleanup(d) ==
    /\ "cleanupCall" \in dev[d].late
    /\ Becomes(d, cleanupCall([dev[d] EXCEPT !.late = @ \ {"cleanupCall"}]))
    /\ outcomes' = LogDone(dev[d])
    /\ UNCHANGED <<sent, netVars, serverVars, drops>>

----------------------------------------------------------------------------
(* Answering, declining, hanging up *)

\* The overlay shows the buttons of an incoming call.
Incoming(r) == r.peer # NoUser /\ r.dial = 0 /\ r.pc.mine = 0

acceptCall(d) ==
    /\ Incoming(dev[d]) /\ dev[d].offer # NoFrame /\ dev[d].accept = "no"
    /\ Becomes(d, [dev[d] EXCEPT !.connected = FALSE, !.logged = FALSE,
                                 !.accept = "media"])
    /\ UNCHANGED <<sent, outcomes, netVars, serverVars, drops>>

\* Without a microphone the call is declined.
AcceptFails(d) ==
    LET r == [dev[d] EXCEPT !.accept = "no"] IN
    /\ dev[d].accept = "media"
    /\ Becomes(d, cleanupCall(r))
    /\ outcomes' = LogDone(r)
    /\ IF r.peer # NoUser
       THEN wsSend(d, FrameOf(d, "call-reject", r.peer, r.dial))
       ELSE UNCHANGED netVars
    /\ UNCHANGED <<sent, serverVars, drops>>

\* The connection takes the offer that is pending by now; acceptCall throws
\* when there is none any more, and leaves the connection behind.
AcceptMedia(d) ==
    LET r == dev[d] IN
    /\ r.accept = "media"
    /\ Becomes(d, [r EXCEPT
            !.pc = IF r.offer = NoFrame THEN NewPC
                   ELSE [NewPC EXCEPT !.theirs = r.offer.n, !.far = r.offer.by],
            !.offer = NoFrame,
            !.accept = IF r.offer = NoFrame THEN "no" ELSE "answer",
            !.start = IF @ = "offer" THEN "no" ELSE @])
    /\ UNCHANGED <<sent, outcomes, netVars, serverVars, drops>>

SendAnswer(d) ==
    LET r == dev[d] IN
    /\ r.accept = "answer"
    /\ Becomes(d, [r EXCEPT !.pc.mine = r.pc.theirs, !.dial = 0, !.accept = "no"])
    /\ wsSend(d, FrameOf(d, "call-answer", r.peer, r.pc.theirs))
    /\ UNCHANGED <<sent, outcomes, serverVars, drops>>

rejectCall(d) ==
    /\ Incoming(dev[d])
    /\ Leave(d, "call-reject")
    /\ UNCHANGED <<sent, serverVars, drops>>

endCall(d) ==
    /\ dev[d].peer # NoUser /\ ~Incoming(dev[d])
    /\ Leave(d, "call-end")
    /\ UNCHANGED <<sent, serverVars, drops>>

----------------------------------------------------------------------------
(* A frame arrives at the client *)

Arrives(d, types) == down[d] # <<>> /\ Head(down[d]).type \in types
Consumed(d) == [down EXCEPT ![d] = Tail(@)]

\* Mutant: only a connected call makes busy.
OnOfferUnlessConnected(d) ==
    LET f == Head(down[d]) IN
    /\ Arrives(d, {"call-offer"})
    /\ IF dev[d].connected
       THEN /\ up' = [up EXCEPT ![d] = Append(@, FrameOf(d, "call-reject", f.from, 0))]
            /\ UNCHANGED <<dev, crossed>>
       ELSE /\ Becomes(d, [dev[d] EXCEPT !.peer = f.from, !.offer = f])
            /\ UNCHANGED up
    /\ down' = Consumed(d)
    /\ UNCHANGED <<sent, outcomes, alive, outbox, serverVars, drops>>

\* One who is in a call declines; otherwise it rings, in place of another
\* offer that is still ringing.
OnOffer(d) ==
    LET f == Head(down[d]) IN
    /\ Arrives(d, {"call-offer"})
    /\ IF dev[d].pc.open
       THEN /\ up' = [up EXCEPT ![d] = Append(@, FrameOf(d, "call-reject", f.from, 0))]
            /\ UNCHANGED <<dev, crossed>>
       ELSE /\ Becomes(d, [dev[d] EXCEPT !.peer = f.from, !.offer = f])
            /\ UNCHANGED up
    /\ down' = Consumed(d)
    /\ UNCHANGED <<sent, outcomes, alive, outbox, serverVars, drops>>

\* An answer is taken by whatever connection has an offer open.
OnAnswer(d) ==
    LET f == Head(down[d])
        pc == dev[d].pc IN
    /\ Arrives(d, {"call-answer"})
    /\ Becomes(d, IF ~pc.open THEN dev[d]
                  ELSE IF pc.mine # 0 /\ pc.theirs = 0
                  THEN [dev[d] EXCEPT !.ring = FALSE, !.pc.theirs = f.n, !.pc.far = f.by]
                  ELSE [dev[d] EXCEPT !.ring = FALSE])
    /\ down' = Consumed(d)
    /\ UNCHANGED <<sent, outcomes, alive, outbox, up, serverVars, drops>>

OnEnd(d) ==
    /\ Arrives(d, {"call-end"})
    /\ Becomes(d, cleanupCall(dev[d]))
    /\ outcomes' = LogDone(dev[d])
    /\ down' = Consumed(d)
    /\ UNCHANGED <<sent, alive, outbox, up, serverVars, drops>>

OnReject(d) ==
    LET r == dev[d] IN
    /\ Arrives(d, {"call-reject"})
    /\ Becomes(d, [r EXCEPT !.late = @ \cup {"cleanupCall"}, !.logged = @ \/ MayLog(r)])
    /\ outcomes' = LogOnce(r)
    /\ down' = Consumed(d)
    /\ UNCHANGED <<sent, alive, outbox, up, serverVars, drops>>

handleCallMessage(d) == OnOffer(d) \/ OnAnswer(d) \/ OnEnd(d) \/ OnReject(d)

----------------------------------------------------------------------------
(* The media connection, which the browsers make between themselves *)

\* The two ends have each other's description of the same offer.
Linked(d) ==
    LET pc == dev[d].pc IN
    /\ pc.open /\ pc.mine # 0 /\ pc.far # NoDevice
    /\ dev[pc.far].pc = [open |-> TRUE, mine |-> pc.theirs, theirs |-> pc.mine, far |-> d]

MediaConnects(d) ==
    /\ Linked(d) /\ ~dev[d].connected
    /\ Becomes(d, [dev[d] EXCEPT !.connected = TRUE, !.ring = FALSE])
    /\ UNCHANGED <<sent, outcomes, netVars, serverVars, drops>>

\* The connection fails for good; the other side is not told.
MediaFails(d) ==
    /\ dev[d].pc.mine # 0 /\ dev[d].pc.theirs # 0
    /\ Becomes(d, cleanupCall(dev[d]))
    /\ outcomes' = LogDone(dev[d])
    /\ UNCHANGED <<sent, netVars, serverVars, drops>>

----------------------------------------------------------------------------
(* Connections *)

\* The client's onopen sends what has been waiting; the handler registers the
\* connection and turns to the offline queue first.
Connect(d) ==
    /\ ~alive[d] /\ reg[d] = "no"
    /\ alive' = [alive EXCEPT ![d] = TRUE]
    /\ up' = [up EXCEPT ![d] = outbox[d]]
    /\ outbox' = [outbox EXCEPT ![d] = <<>>]
    /\ reg' = [reg EXCEPT ![d] = "fresh"]
    /\ UNCHANGED <<clientVars, down, handling, callMap, queue, ended, drops>>

\* What is sent to a connection that has broken is lost.
Deliver(ds, f) ==
    down' = [d \in Device |-> IF d \in ds /\ alive[d] THEN Append(down[d], f) ELSE down[d]]

flushCallSignals(d) ==
    LET u == Owner[d] IN
    /\ reg[d] = "fresh"
    /\ reg' = [reg EXCEPT ![d] = "reading"]
    /\ queue' = [queue EXCEPT ![u] = NoFrame]
    /\ IF queue[u] # NoFrame THEN Deliver({d}, queue[u]) ELSE UNCHANGED down
    /\ UNCHANGED <<clientVars, alive, outbox, up, handling, callMap, ended, drops>>

Drop(d) ==
    /\ drops < MaxDrops /\ alive[d]
    /\ drops' = drops + 1
    /\ alive' = [alive EXCEPT ![d] = FALSE]
    /\ up' = [up EXCEPT ![d] = <<>>]
    /\ down' = [down EXCEPT ![d] = <<>>]
    /\ UNCHANGED <<clientVars, outbox, serverVars>>

\* The tab is closed or reloaded: the client forgets all of it.
Reload(d) ==
    /\ drops < MaxDrops /\ alive[d]
    /\ drops' = drops + 1
    /\ dev' = [dev EXCEPT ![d] = Idle]
    /\ alive' = [alive EXCEPT ![d] = FALSE]
    /\ up' = [up EXCEPT ![d] = <<>>]
    /\ down' = [down EXCEPT ![d] = <<>>]
    /\ outbox' = [outbox EXCEPT ![d] = <<>>]
    /\ UNCHANGED <<sent, outcomes, crossed, serverVars>>

\* Mutant: only the calls placed to the user go with the last connection.
UnregisterCalleeOnly(d) ==
    LET u == Owner[d]
        callers == {c \in User : callMap[c] = u} IN
    /\ reg[d] = "reading" /\ ~alive[d] /\ handling[d] = NoFrame
    /\ reg' = [reg EXCEPT ![d] = "no"]
    /\ IF Registered(u) # {d} \/ callers = {} THEN UNCHANGED callMap
       ELSE \E c \in callers : callMap' = [callMap EXCEPT ![c] = NoUser]
    /\ UNCHANGED <<clientVars, netVars, handling, queue, ended, drops>>

\* The read loop ends. With the user's last connection go the call they
\* placed and one of the calls placed to them.
Unregister(d) ==
    LET u == Owner[d]
        left == [callMap EXCEPT ![u] = NoUser]
        callers == {c \in User : left[c] = u} IN
    /\ reg[d] = "reading" /\ ~alive[d] /\ handling[d] = NoFrame
    /\ reg' = [reg EXCEPT ![d] = "no"]
    /\ IF Registered(u) # {d} THEN UNCHANGED callMap
       ELSE IF callers = {} THEN callMap' = left
       ELSE \E c \in callers : callMap' = [left EXCEPT ![c] = NoUser]
    /\ UNCHANGED <<clientVars, netVars, handling, queue, ended, drops>>

----------------------------------------------------------------------------
(* routeMessageNoSave, in the steps between which it holds no lock *)

\* The map of calls, where a second offer of a caller is dropped, and the
\* snapshot of the callee's connections.
TrackAndRoute(d) ==
    LET f == Head(up[d])
        recipients == Registered(f.to)
        dropped == f.type = "call-offer" /\ callMap[f.from] # NoUser IN
    /\ reg[d] = "reading" /\ handling[d] = NoFrame /\ up[d] # <<>>
    /\ up' = [up EXCEPT ![d] = Tail(@)]
    /\ callMap' = CASE dropped -> callMap
                    [] ~dropped /\ f.type = "call-offer" -> [callMap EXCEPT ![f.from] = f.to]
                    [] f.type = "call-answer" -> callMap
                    [] OTHER -> [callMap EXCEPT ![f.from] = NoUser, ![f.to] = NoUser]
    /\ handling' = IF ~dropped /\ recipients = {} THEN [handling EXCEPT ![d] = f] ELSE handling
    /\ IF dropped THEN UNCHANGED down ELSE Deliver(recipients, f)
    /\ UNCHANGED <<clientVars, alive, outbox, reg, queue, ended, drops>>

\* Mutant: a refusal clears what is queued, a caller who hangs up does not.
AbsentKeepsOnEnd(d) ==
    LET f == handling[d] IN
    /\ handling[d] # NoFrame
    /\ handling' = [handling EXCEPT ![d] = NoFrame]
    /\ queue' = CASE f.type = "call-offer" -> [queue EXCEPT ![f.to] = f]
                  [] f.type \in {"call-answer", "call-end"} -> queue
                  [] OTHER -> [queue EXCEPT ![f.to] = NoFrame]
    /\ ended' = IF f.type = "call-end" /\ f.n # 0 THEN ended \cup {f.n} ELSE ended
    /\ UNCHANGED <<clientVars, netVars, reg, callMap, drops>>

\* The callee had no connection when the snapshot was taken.
Absent(d) ==
    LET f == handling[d] IN
    /\ handling[d] # NoFrame
    /\ handling' = [handling EXCEPT ![d] = NoFrame]
    /\ queue' = CASE f.type = "call-offer" -> [queue EXCEPT ![f.to] = f]
                  [] f.type = "call-answer" -> queue
                  [] OTHER -> [queue EXCEPT ![f.to] = NoFrame]
    /\ ended' = IF f.type = "call-end" /\ f.n # 0 THEN ended \cup {f.n} ELSE ended
    /\ UNCHANGED <<clientVars, netVars, reg, callMap, drops>>

\* Older than callQueueTTL: thrown away by the clean-up or by the next flush.
Expire(u) ==
    /\ queue[u] # NoFrame
    /\ queue' = [queue EXCEPT ![u] = NoFrame]
    /\ UNCHANGED <<clientVars, netVars, reg, handling, callMap, ended, drops>>

----------------------------------------------------------------------------
UserStep(d) ==
    \/ startCall(d) \/ acceptCall(d) \/ rejectCall(d) \/ endCall(d)

ClientStep(d) ==
    \/ StartMedia(d) \/ (\E u \in User : SendOffer(d, u))
    \/ AcceptMedia(d) \/ AcceptFails(d) \/ SendAnswer(d)
    \/ RingTimeout(d) \/ LateEnd(d) \/ LateCleanup(d)
    \/ handleCallMessage(d)

ServerStep(d) ==
    \/ flushCallSignals(d) \/ TrackAndRoute(d) \/ Absent(d) \/ Unregister(d)

Next ==
    \/ \E d \in Device :
        \/ UserStep(d) \/ ClientStep(d) \/ ServerStep(d)
        \/ MediaConnects(d) \/ MediaFails(d)
        \/ Connect(d) \/ Drop(d) \/ Reload(d)
    \/ \E u \in User : Expire(u)

Spec == Init /\ [][Next]_vars

----------------------------------------------------------------------------
\* Every variable holds what the code can put there; in particular every
\* frame is addressed to a user, and no answer goes out without a call.
TypeOK ==
    /\ dev \in [Device -> Client]
    /\ sent \in 0..MaxCalls /\ outcomes \in [CallId -> Nat]
    /\ alive \in [Device -> BOOLEAN]
    /\ up \in [Device -> Seq(Frame)] /\ down \in [Device -> Seq(Frame)]
    /\ outbox \in [Device -> Seq(Frame)]
    /\ reg \in [Device -> {"no", "fresh", "reading"}]
    /\ handling \in [Device -> Frame \cup {NoFrame}]
    /\ callMap \in [User -> User \cup {NoUser}]
    /\ queue \in [User -> Frame \cup {NoFrame}]
    /\ ended \subseteq CallId /\ crossed \subseteq Device
    /\ drops \in 0..MaxDrops

(* The map of calls has no caller whose last connection is gone: such an      *)
(* entry would silence every later offer of that user ("removed on call-end/  *)
(* call-reject or when a participant's last WS connection drops", calls.go).  *)
CallerIsConnected == \A u \in User : callMap[u] # NoUser => Registered(u) # {}

(* Once a call-end has found the callee absent, that call's offer is not (or  *)
(* not again) among what the callee gets when they connect, however the       *)
(* handlers of several connections interleave.                                *)
EndedIsForgotten ==
    \A u \in User : queue[u] # NoFrame => queue[u].n \notin ended

(* A caller's "Calling..." is never left with nothing that could end it: the  *)
(* ring timer runs, or a timer that ends the call, or there is an answer, and *)
(* the media connects or fails. A user who took a call while their own was    *)
(* still waiting for the microphone is the exception.                         *)
NeverStuckDialling ==
    \A d \in Device \ crossed :
        dev[d].dial # 0 /\ ~dev[d].connected =>
            \/ dev[d].ring \/ dev[d].late # {}
            \/ dev[d].pc.mine # 0 /\ dev[d].pc.theirs # 0

(* The name on the overlay of a connected call is that of the user whose      *)
(* device the media comes from, though others may have called meanwhile; with *)
(* the same exception.                                                        *)
TalkToWhomYouSee ==
    \A d \in Device \ crossed :
        dev[d].connected => dev[d].peer = Owner[dev[d].pc.far]

(* A call leaves at most one line in the conversation, whichever of the       *)
(* timers, the callee's refusal and the end of the call come first.           *)
LoggedOnce == \A n \in CallId : outcomes[n] <= 1
=============================================================================
