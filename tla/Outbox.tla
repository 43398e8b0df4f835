------------------------------- MODULE Outbox -------------------------------
(***************************************************************************)
(* A sender's persistent outbox (web/js/transport.js) against the server's *)
(* handler of each of its connections (wsHandler, routeMessage).  Every    *)
(* message waits in localStorage until an ACK takes it off; the whole      *)
(* queue is sent again with every connection.  The server saves a message  *)
(* under its id, so a repeat changes nothing, but a save can fail, and one *)
(* the handler has stopped waiting for can still succeed.                  *)
(***************************************************************************)
EXTENDS Integers, Sequences, FiniteSets

CONSTANTS
    Ids,         \* the messages the sender writes
    Refused,     \* those the server rejects: too long, no such user or group
    Sockets,     \* bound: the connections the sender's device makes
    MaxFails,    \* bound: saves that fail or time out
    MaxRestarts  \* bound: server restarts

ASSUME OutboxAssumption ==
    /\ Refused \subseteq Ids
    /\ MaxFails \in Nat /\ MaxRestarts \in Nat

NoSocket == "none"
ASSUME NoSocketAssumption == NoSocket \notin Sockets

VARIABLES
    pending,  \* hc_pending_*: the unconfirmed messages, oldest first
    chat,     \* chat[m]: "none", "sending", "sent", or "gone": told "not sent"
    cur,      \* the connection the client has open, or NoSocket
    wire,     \* wire[c]: the messages sent on c and not yet read
    hpc,      \* hpc[c]: c's handler: "none", "read", "save" or "over"
    job,      \* job[c]: what it has read: a set of at most one message
    down,     \* down[c]: the ACKs the server has put into c's buffer
    stored,   \* the messages in the table
    limbo,    \* those whose save timed out and may still happen
    fails,    \* saves that failed or timed out
    restarts  \* server restarts

clientVars == <<pending, chat, cur>>
handlerVars == <<hpc, job>>
outboxVars == <<clientVars, wire, handlerVars, down, stored, limbo, fails, restarts>>

Elems(s) == {s[i] : i \in DOMAIN s}

\* ackPending's filter, of a queue that holds a message once (queueMessage).
Without(s, m) ==
    IF m \notin Elems(s) THEN s
    ELSE LET i == CHOOSE i \in DOMAIN s : s[i] = m
         IN  [k \in 1 .. Len(s) - 1 |-> IF k < i THEN s[k] ELSE s[k + 1]]

Ack == [id : Ids, ok : BOOLEAN]
-----------------------------------------------------------------------------
OutboxInit ==
    /\ pending = << >>
    /\ chat = [m \in Ids |-> "none"]
    /\ cur = NoSocket
    /\ wire = [c \in Sockets |-> << >>]
    /\ hpc = [c \in Sockets |-> "none"]
    /\ job = [c \in Sockets |-> {}]
    /\ down = [c \in Sockets |-> << >>]
    /\ stored = {} /\ limbo = {} /\ fails = 0 /\ restarts = 0
-----------------------------------------------------------------------------
(* The client *)

\* sendMessage, queueMessage: into the queue first, then onto an open socket.
Compose(m) ==
    /\ chat[m] = "none"
    /\ chat' = [chat EXCEPT ![m] = "sending"]
    /\ pending' = Append(pending, m)
    /\ wire' = [c \in Sockets |-> IF c = cur THEN Append(wire[c], m) ELSE wire[c]]
    /\ UNCHANGED <<cur, handlerVars, down, stored, limbo, fails, restarts>>

\* Mutant: a new connection does not send the queue again.
OpenSocketOnly(c) ==
    /\ cur = NoSocket
    /\ hpc[c] = "none"
    /\ cur' = c
    /\ hpc' = [hpc EXCEPT ![c] = "read"]
    /\ UNCHANGED <<pending, chat, wire, job, down, stored, limbo, fails, restarts>>

\* ws.onopen: _flushOutbox sends the queue, and onopen then does so again.
OpenSocket(c) ==
    /\ cur = NoSocket
    /\ hpc[c] = "none"
    /\ cur' = c
    /\ hpc' = [hpc EXCEPT ![c] = "read"]
    /\ wire' = [wire EXCEPT ![c] = pending \o pending]
    /\ UNCHANGED <<pending, chat, job, down, stored, limbo, fails, restarts>>

\* The client's end is gone; what it has sent may still be read.
LoseSocket ==
    /\ cur # NoSocket
    /\ cur' = NoSocket
    /\ UNCHANGED <<pending, chat, wire, handlerVars, down, stored, limbo, fails,
                   restarts>>

\* Mutant: an ACK takes the oldest message off the queue, whatever its id.
GetAckInOrder ==
    /\ cur # NoSocket
    /\ down[cur] # << >>
    /\ LET a == Head(down[cur])
       IN  /\ pending' = IF pending = << >> THEN pending ELSE Tail(pending)
           /\ chat' = [chat EXCEPT ![a.id] = IF a.ok THEN "sent" ELSE "gone"]
    /\ down' = [down EXCEPT ![cur] = Tail(@)]
    /\ UNCHANGED <<cur, wire, handlerVars, stored, limbo, fails, restarts>>

\* The ACK handler: any ACK takes the message off the queue, a failed one takes
\* it out of the chat as well.
GetAck ==
    /\ cur # NoSocket
    /\ down[cur] # << >>
    /\ LET a == Head(down[cur])
       IN  /\ pending' = Without(pending, a.id)
           /\ chat' = [chat EXCEPT ![a.id] =
                          CASE ~a.ok -> "gone"
                            [] a.ok /\ @ = "sending" -> "sent"
                            [] OTHER -> @]
    /\ down' = [down EXCEPT ![cur] = Tail(@)]
    /\ UNCHANGED <<cur, wire, handlerVars, stored, limbo, fails, restarts>>

\* A reload: the queue and the chat are in localStorage, the socket is not, and
\* loadHistory takes "sending" for "sent" (the feed shows queued ones apart).
Reload ==
    /\ cur' = NoSocket
    /\ chat' = [m \in Ids |-> IF chat[m] = "sending" THEN "sent" ELSE chat[m]]
    /\ UNCHANGED <<pending, wire, handlerVars, down, stored, limbo, fails, restarts>>
-----------------------------------------------------------------------------
(* The server *)

\* sendACKToAll reaches every connection with a handler, sendACK only one.
ToAll(a) == down' = [c \in Sockets |-> IF hpc[c] \in {"read", "save"}
                                     THEN Append(down[c], a) ELSE down[c]]
ToOne(c, a) == down' = [down EXCEPT ![c] = Append(@, a)]

\* Mutant: the checks of the content are dropped.
ReadUnchecked(c) ==
    /\ hpc[c] = "read"
    /\ wire[c] # << >>
    /\ wire' = [wire EXCEPT ![c] = Tail(@)]
    /\ hpc' = [hpc EXCEPT ![c] = "save"]
    /\ job' = [job EXCEPT ![c] = {Head(wire[c])}]
    /\ UNCHANGED <<clientVars, down, stored, limbo, fails, restarts>>

\* The read loop takes a frame; what is invalid is refused at once.
Read(c) ==
    /\ hpc[c] = "read"
    /\ wire[c] # << >>
    /\ wire' = [wire EXCEPT ![c] = Tail(@)]
    /\ LET m == Head(wire[c])
       IN  IF m \in Refused
           THEN ToOne(c, [id |-> m, ok |-> FALSE]) /\ UNCHANGED handlerVars
           ELSE /\ hpc' = [hpc EXCEPT ![c] = "save"]
                /\ job' = [job EXCEPT ![c] = {m}]
                /\ UNCHANGED down
    /\ UNCHANGED <<clientVars, stored, limbo, fails, restarts>>

EndJob(c) ==
    /\ hpc' = [hpc EXCEPT ![c] = "read"]
    /\ job' = [job EXCEPT ![c] = {}]

Save(c) ==
    /\ hpc[c] = "save"
    /\ stored' = stored \cup job[c]
    /\ \E m \in job[c] : ToOne(c, [id |-> m, ok |-> TRUE])
    /\ EndJob(c)
    /\ UNCHANGED <<clientVars, wire, limbo, fails, restarts>>

\* Mutant: a message whose save timed out counts as accepted.
SaveFailsAccepted(c) ==
    /\ hpc[c] = "save"
    /\ fails < MaxFails
    /\ fails' = fails + 1
    /\ limbo' \in {limbo, limbo \cup job[c]}
    /\ \E m \in job[c] : ToAll([id |-> m, ok |-> m \in limbo'])
    /\ EndJob(c)
    /\ UNCHANGED <<clientVars, wire, stored, restarts>>

\* saveMessage returns an error: nothing was written, or, after a time-out, the
\* request is still with the writers.
SaveFails(c) ==
    /\ hpc[c] = "save"
    /\ fails < MaxFails
    /\ fails' = fails + 1
    /\ limbo' \in {limbo, limbo \cup job[c]}
    /\ \E m \in job[c] : ToAll([id |-> m, ok |-> FALSE])
    /\ EndJob(c)
    /\ UNCHANGED <<clientVars, wire, stored, restarts>>

LateSave(m) ==
    /\ m \in limbo
    /\ limbo' = limbo \ {m}
    /\ stored' = stored \cup {m}
    /\ UNCHANGED <<clientVars, wire, handlerVars, down, fails, restarts>>

\* The read loop finds the socket dead, with or without the frames on it.
HangUp(c) ==
    /\ hpc[c] = "read"
    /\ cur # c
    /\ hpc' = [hpc EXCEPT ![c] = "over"]
    /\ wire' = [wire EXCEPT ![c] = << >>]
    /\ down' = [down EXCEPT ![c] = << >>]
    /\ UNCHANGED <<clientVars, job, stored, limbo, fails, restarts>>

\* A restart breaks every connection; a save under way was in time or was not.
ServerRestart ==
    /\ restarts < MaxRestarts
    /\ restarts' = restarts + 1
    /\ \E S \in SUBSET (limbo \cup UNION {job[c] : c \in Sockets}) :
          stored' = stored \cup S
    /\ limbo' = {}
    /\ cur' = NoSocket
    /\ hpc' = [c \in Sockets |-> IF hpc[c] = "none" THEN "none" ELSE "over"]
    /\ job' = [c \in Sockets |-> {}]
    /\ wire' = [c \in Sockets |-> << >>]
    /\ down' = [c \in Sockets |-> << >>]
    /\ UNCHANGED <<pending, chat, fails>>
-----------------------------------------------------------------------------
Handler(c) == Read(c) \/ Save(c) \/ SaveFails(c)

OutboxNext ==
    \/ \E m \in Ids : Compose(m) \/ LateSave(m)
    \/ \E c \in Sockets : OpenSocket(c) \/ Handler(c) \/ HangUp(c)
    \/ LoseSocket \/ GetAck \/ Reload \/ ServerRestart

OutboxSpec == OutboxInit /\ [][OutboxNext]_outboxVars

\* A handler goes on with its loop, and an open tab reads its socket.
OutboxFairSpec ==
    /\ OutboxSpec
    /\ WF_outboxVars(GetAck)
    /\ \A c \in Sockets : WF_outboxVars(Handler(c))
-----------------------------------------------------------------------------
(* Properties *)

\* Every variable holds values of its type.
OutboxTypeOK ==
    /\ pending \in Seq(Ids)
    /\ chat \in [Ids -> {"none", "sending", "sent", "gone"}]
    /\ cur \in Sockets \cup {NoSocket}
    /\ wire \in [Sockets -> Seq(Ids)] /\ down \in [Sockets -> Seq(Ack)]
    /\ hpc \in [Sockets -> {"none", "read", "save", "over"}]
    /\ job \in [Sockets -> SUBSET Ids]
    /\ stored \subseteq Ids \ Refused /\ limbo \subseteq Ids \ Refused
    /\ fails \in 0 .. MaxFails /\ restarts \in 0 .. MaxRestarts

\* A message the sender still sees in the chat is in the queue or in the table:
\* no loss of a socket, of a tab or of the server loses one in silence.
NoSilentLoss ==
    \A m \in Ids : chat[m] \in {"sending", "sent"} => m \in Elems(pending) \cup stored

\* An ACK of success is only under way for what is in the table, on whatever
\* connection and after whatever repeat.
AcksAreTrue ==
    \A c \in Sockets : \A i \in DOMAIN down[c] : down[c][i].ok => down[c][i].id \in stored

\* While a connection holds, everything in the queue is settled over it.
QueueDrains ==
    \A m \in Ids, c \in Sockets : m \in Elems(pending) /\ cur = c
                                    ~> m \notin Elems(pending) \/ cur # c

\* server/ws.go:560-563: the sender of a save that timed out "retries with the
\* same id", so that the time-out causes no loss.  A valid message is then always
\* in the queue or in the table.
TimeoutLosesNothing ==
    \A m \in Ids \ Refused : chat[m] # "none" => m \in Elems(pending) \cup stored
=============================================================================
