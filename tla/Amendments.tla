----------------------------- MODULE Amendments -----------------------------
(***************************************************************************)
(* What happens to one message of a conversation of two people after it    *)
(* was stored: its author edits and deletes it (messages.go), the other    *)
(* reads it and puts a reaction on it (ws.go), and every device keeps a    *)
(* copy of it from pages of /history, from /reactions (history.go,         *)
(* web/js/history.js) and from live frames (web/js/transport.js).          *)
(*                                                                         *)
(* The message has seq 1; a second one of the conversation, seq 2, may be  *)
(* committed before it.  A text is its number, 0 the one it was sent with. *)
(* The reader's preferences and ClearedSeqs are in ChatPrefs.              *)
(***************************************************************************)
EXTENDS Integers, Sequences, FiniteSetsExt

CONSTANTS
    Authors,      \* devices of the author
    Peers,        \* devices of the other
    NoDevice,     \* none of them
    Procs,        \* HTTP handlers at once
    MaxChanges,   \* bound: what people do
    MaxDrops,     \* bound: connections that break, restarts
    MaxRefusals,  \* bound: requests refused by a limiter or lost on the way
    Loads         \* bound: the operations and devices that behaviours mix,
                  \* and which of these have the message from the start

ASSUME AmendmentsAssumption ==
    /\ Authors \cap Peers = {} /\ Procs \cap (Authors \cup Peers) = {}
    /\ {MaxChanges, MaxDrops, MaxRefusals} \subseteq Nat
    /\ \A l \in Loads : /\ l.synced \subseteq Authors \cup Peers
                        /\ "send" \in l.ops => l.synced = {}

VARIABLES
    seqs,      \* the committed messages
    row,       \* the row of message 1
    mark,      \* the row of reactions of the peer's reaction
    req,       \* the HTTP handlers and the read loops of the connections
    posts,     \* the requests that have left a device
    conn,      \* the devices with a WebSocket
    inbox,     \* the frames on their way to a device
    wire,      \* the frames on their way from it
    copy,      \* its copy of the message
    cursor,    \* hc_globalsince
    rcursor,   \* hc_rseq
    sync,      \* its loadHistory
    changes, drops, refusals, load,
    \* History, for the properties:
    told,      \* what was sent to a device, or would have been had it been there
    base,      \* the reactions.rseq its copy was last set from
    top,       \* the greatest rseq it was told of one by one
    amiss      \* what one of the known ways has left wrong in its copy

roads == <<posts, conn, inbox, wire>>
device == <<copy, cursor, rcursor, sync>>
bounds == <<changes, drops, refusals, load>>
history == <<told, base, top, amiss>>
amendmentVars == <<seqs, row, mark, req, roads, device, bounds, history>>

Devices == Authors \cup Peers
Gone == -1                         \* the body "[deleted]"
NoCopy == [there |-> FALSE, body |-> 0, deleted |-> FALSE, read |-> FALSE, on |-> FALSE]
Idle == [op |-> "none", at |-> "idle", body |-> 0, ver |-> 0, dev |-> NoDevice, left |-> {}]
NoSync == [at |-> "idle", has |-> FALSE, top |-> 0, bound |-> 0,
           body |-> 0, deleted |-> FALSE, read |-> FALSE, ver |-> 0, on |-> FALSE, seq |-> 0]
Fine == [text |-> FALSE, gone |-> FALSE, read |-> FALSE, on |-> FALSE]

Max2(m, n) == Max({m, n})
Highest(S) == Max(S \cup {0})
Frames(d) == {inbox[d][i] : i \in 1..Len(inbox[d])}
Holds(d, kind) == \E f \in Frames(d) : f.kind = kind
Coming(d, v) == \E f \in Frames(d) : f.kind \in {"edit", "delete"} /\ f.ver = v
MarksIn(d) == {f.seq : f \in {g \in Frames(d) : g.kind = "react"}}
Unserved(d) == \E i \in 1..Len(wire[d]) : wire[d][i] = "react"

AmendmentsInit ==
    /\ load \in Loads
    /\ seqs = IF "send" \in load.ops THEN {} ELSE {1}
    /\ row = [body |-> 0, deleted |-> FALSE, read |-> FALSE, ver |-> 0]
    /\ mark = [on |-> FALSE, seq |-> 0]
    /\ req = [p \in Procs \cup Devices |-> Idle]
    /\ posts = {} /\ conn = load.synced
    /\ inbox = [d \in Devices |-> <<>>] /\ wire = [d \in Devices |-> <<>>]
    /\ copy = [d \in Devices |-> [NoCopy EXCEPT !.there = d \in load.synced]]
    /\ cursor = [d \in Devices |-> IF d \in load.synced THEN 1 ELSE 0]
    /\ rcursor = [d \in Devices |-> 0]
    /\ sync = [d \in Devices |-> NoSync]
    /\ changes = 0 /\ drops = 0 /\ refusals = 0
    /\ told = [d \in Devices |-> [text |-> 0, gone |-> FALSE, read |-> FALSE]]
    /\ base = [d \in Devices |-> 0] /\ top = [d \in Devices |-> 0]
    /\ amiss = [d \in Devices |-> Fine]

Change(op) ==
    /\ op \in load.ops
    /\ changes < MaxChanges /\ changes' = changes + 1
    /\ UNCHANGED <<drops, refusals, load>>

Refuse ==
    /\ "refuse" \in load.ops
    /\ refusals < MaxRefusals /\ refusals' = refusals + 1
    /\ UNCHANGED <<changes, drops, load>>

Break ==
    /\ "drop" \in load.ops
    /\ drops < MaxDrops /\ drops' = drops + 1
    /\ UNCHANGED <<changes, refusals, load>>

\* Whether what a device misses now will come with a page it has not read yet.
Rereads(d) == cursor[d] < 1 /\ sync[d].at \in {"idle", "rows"}
\* A page that holds the message is under way to it.
PageComing(d) == sync[d].at \in {"marks", "page"} /\ sync[d].has
\* It will not learn of what it misses now.
Loses(d) == copy[d].there /\ ~Rereads(d) /\ ~PageComing(d)
\* Of a reaction it will, unless its /reactions has just been answered.
LosesMark(d, n) == sync[d].at = "events" /\ sync[d].seq < n

----------------------------------------------------------------------------
(* Sending, editing and deleting *)

\* The INSERT of a message commits and its frame goes out to whoever is there.
Commit(s) ==
    /\ "send" \in load.ops /\ s \notin seqs
    /\ seqs' = seqs \cup {s}
    /\ inbox' = IF s = 2 THEN inbox
                ELSE [d \in Devices |-> IF d \in conn THEN Append(inbox[d], [kind |-> "new"])
                                        ELSE inbox[d]]
    /\ UNCHANGED <<row, mark, req, posts, conn, wire, device, bounds, history>>

\* submitEdit: shown at once, sent and not looked after.
SubmitEdit(d) ==
    /\ d \in Authors \cap load.devs
    /\ copy[d].there /\ ~copy[d].deleted
    /\ Change("edit")
    /\ copy' = [copy EXCEPT ![d].body = changes + 1]
    /\ posts' = posts \cup {[op |-> "edit", body |-> changes + 1, dev |-> d]}
    /\ UNCHANGED <<seqs, row, mark, req, conn, inbox, wire, cursor, rcursor, sync, history>>

\* deleteMessage: sent; the answer is waited for.
SubmitDelete(d) ==
    /\ d \in Authors \cap load.devs
    /\ copy[d].there /\ ~copy[d].deleted
    /\ Change("delete")
    /\ posts' = posts \cup {[op |-> "delete", body |-> Gone, dev |-> d]}
    /\ UNCHANGED <<seqs, row, mark, req, conn, inbox, wire, device, history>>

\* Refused by msgMutateLimiter, or lost on the way: nobody tells the text.
LosePost(q) ==
    /\ q \in posts /\ Refuse
    /\ posts' = posts \ {q}
    /\ amiss' = IF q.op = "edit" THEN [amiss EXCEPT ![q.dev].text = TRUE] ELSE amiss
    /\ UNCHANGED <<seqs, row, mark, req, conn, inbox, wire, device, told, base, top>>

\* editMessageHandler and deleteMessageHandler up to their UPDATE: neither asks
\* whether the message is deleted already.
Amend(p, q) ==
    /\ q \in posts /\ req[p].at = "idle"
    /\ posts' = posts \ {q}
    /\ row' = [row EXCEPT !.body = q.body, !.deleted = @ \/ q.op = "delete", !.ver = @ + 1]
    /\ req' = [req EXCEPT ![p] = [Idle EXCEPT !.op = q.op, !.at = "tell", !.body = q.body,
                                              !.ver = row.ver + 1, !.dev = q.dev]]
    /\ UNCHANGED <<seqs, mark, conn, inbox, wire, device, bounds, history>>

\* Mutant: the author's own devices are left out.
broadcastToPeers == conn \cap Peers

\* broadcastToConversation takes mu for reading: no device comes or goes
\* until it is done, but another broadcast may run beside it.
Recipients == conn

ToldOf(d, r) == [told[d] EXCEPT !.text = Max2(@, r.ver), !.gone = @ \/ r.op = "delete"]

Tell(p) ==
    LET r == req[p]
        absent == Devices \ conn IN
    /\ r.at = "tell"
    /\ req' = [req EXCEPT ![p] = [@ EXCEPT !.at = "telling", !.left = Recipients]]
    /\ told' = [d \in Devices |-> IF d \in absent THEN ToldOf(d, r) ELSE told[d]]
    /\ amiss' = [d \in Devices |->
                    IF d \in absent /\ Loses(d)
                    THEN [amiss[d] EXCEPT !.text = @ \/ r.ver > told[d].text,
                                          !.gone = @ \/ r.op = "delete"]
                    ELSE amiss[d]]
    /\ UNCHANGED <<seqs, row, mark, roads, device, bounds, base, top>>

\* One send of it; the recipient's connections come first.
TellOne(p, d) ==
    LET r == req[p] IN
    /\ r.at = "telling" /\ d \in r.left
    /\ d \in Authors => r.left \subseteq Authors
    /\ req' = [req EXCEPT ![p].left = @ \ {d}]
    /\ inbox' = [inbox EXCEPT ![d] =
                    Append(@, [kind |-> r.op, body |-> r.body, ver |-> r.ver,
                               crossed |-> r.ver < told[d].text])]
    /\ told' = [told EXCEPT ![d] = ToldOf(d, r)]
    /\ UNCHANGED <<seqs, row, mark, posts, conn, wire, device, bounds, base, top, amiss>>

\* The answer: deleteMessage now marks its own copy. It may be lost too.
Answer(p) ==
    LET r == req[p] IN
    /\ r.at = "telling" /\ r.left = {}
    /\ req' = [req EXCEPT ![p] = Idle]
    /\ \/ UNCHANGED copy
       \/ /\ r.op = "delete" /\ copy[r.dev].there
          /\ copy' = [copy EXCEPT ![r.dev] = [@ EXCEPT !.deleted = TRUE, !.body = Gone]]
    /\ UNCHANGED <<seqs, row, mark, roads, cursor, rcursor, sync, bounds, history>>

----------------------------------------------------------------------------
(* Reading and reacting: frames to the read loop of a connection *)

SendFrame(d, op) ==
    /\ d \in Peers \cap load.devs \cap conn
    /\ copy[d].there /\ ~copy[d].deleted
    /\ Change(op)
    /\ wire' = [wire EXCEPT ![d] = Append(@, op)]

SendRead(d) ==
    /\ SendFrame(d, "read")
    /\ UNCHANGED <<seqs, row, mark, req, posts, conn, inbox, device, history>>

\* toggleReaction: toggled at once, sent and not looked after.
SendReaction(d) ==
    /\ SendFrame(d, "react")
    /\ copy' = [copy EXCEPT ![d].on = ~@]
    /\ UNCHANGED <<seqs, row, mark, req, posts, conn, inbox, cursor, rcursor, sync, history>>

\* The read loop of a connection takes its next frame when it is done with the
\* last.
TakeFrame(d, op) ==
    /\ req[d].at = "idle"
    /\ wire[d] # <<>> /\ Head(wire[d]) = op
    /\ wire' = [wire EXCEPT ![d] = Tail(@)]

\* handleRead up to its UPDATE, which returns what it has changed.
ServeRead(d) ==
    /\ TakeFrame(d, "read")
    /\ IF row.read THEN UNCHANGED <<row, req>>
       ELSE /\ row' = [row EXCEPT !.read = TRUE]
            /\ req' = [req EXCEPT ![d].at = "ack"]
    /\ UNCHANGED <<seqs, mark, posts, conn, inbox, device, bounds, history>>

\* The rest of it: the author's devices that are there now.
TellRead(d) ==
    /\ req[d].at = "ack"
    /\ req' = [req EXCEPT ![d] = Idle]
    /\ inbox' = [e \in Devices |-> IF e \in Authors \cap conn
                                   THEN Append(inbox[e], [kind |-> "read"]) ELSE inbox[e]]
    /\ told' = [e \in Devices |-> [told[e] EXCEPT !.read = @ \/ e \in Authors]]
    /\ amiss' = [e \in Devices |-> IF e \in Authors \ conn /\ Loses(e) /\ ~copy[e].read
                                   THEN [amiss[e] EXCEPT !.read = TRUE] ELSE amiss[e]]
    /\ UNCHANGED <<seqs, row, mark, posts, conn, wire, device, bounds, base, top>>

\* Over reactionLimiter it is dropped without a word.
DropReaction(d) ==
    /\ TakeFrame(d, "react") /\ Refuse
    /\ amiss' = [amiss EXCEPT ![d].on = TRUE]
    /\ UNCHANGED <<seqs, row, mark, req, posts, conn, inbox, device, told, base, top>>

\* The upsert of "reaction" in wsHandler: the same again takes it off.
ServeReaction(d) ==
    /\ TakeFrame(d, "react")
    /\ mark' = [on |-> ~mark.on, seq |-> mark.seq + 1]
    /\ req' = [req EXCEPT ![d] = [@ EXCEPT !.at = "echo", !.ver = mark.seq + 1]]
    /\ top' = [top EXCEPT ![d] = mark.seq + 1]
    /\ UNCHANGED <<seqs, row, posts, conn, inbox, device, bounds, told, base, amiss>>

\* The frame of reaction n goes to those of S that are there.
MarkTo(S, n) ==
    /\ inbox' = [e \in Devices |-> IF e \in S \cap conn
                                   THEN Append(inbox[e], [kind |-> "react", seq |-> n])
                                   ELSE inbox[e]]
    /\ top' = [e \in Devices |-> IF e \in S \ conn THEN Max2(top[e], n) ELSE top[e]]
    /\ amiss' = [e \in Devices |-> IF e \in S \ conn /\ LosesMark(e, n)
                                   THEN [amiss[e] EXCEPT !.on = TRUE] ELSE amiss[e]]

\* The echo to the other devices of whoever reacted.
EchoReaction(d) ==
    /\ req[d].at = "echo"
    /\ req' = [req EXCEPT ![d].at = "relay"]
    /\ MarkTo(Peers \ {d}, req[d].ver)
    /\ UNCHANGED <<seqs, row, mark, posts, conn, wire, device, bounds, told, base>>

\* routeMessageNoSave
RelayReaction(d) ==
    /\ req[d].at = "relay"
    /\ req' = [req EXCEPT ![d] = Idle]
    /\ MarkTo(Authors, req[d].ver)
    /\ UNCHANGED <<seqs, row, mark, posts, conn, wire, device, bounds, told, base>>

----------------------------------------------------------------------------
(* A device takes a frame *)

\* ws.onmessage on the copy c; a frame of a message it does not have is dropped.
Shown(c, f) ==
    IF ~c.there THEN IF f.kind = "new" THEN [NoCopy EXCEPT !.there = TRUE] ELSE c
    ELSE CASE f.kind = "new"    -> c
           [] f.kind = "edit"   -> [c EXCEPT !.body = f.body]
           [] f.kind = "delete" -> [c EXCEPT !.body = Gone, !.deleted = TRUE]
           [] f.kind = "read"   -> [c EXCEPT !.read = TRUE]
           [] f.kind = "react"  -> [c EXCEPT !.on = ~@]

\* A copy is set from the row of reaction s. Wrong is then what the device has
\* been told of it since, and what it has sent and is not in it yet.
Overtaken(d, s) == s < top[d] \/ Unserved(d)

\* A message that comes in anew has no reactions; those that /reactions has
\* brought before are not brought again.
ComesBare(d) == Overtaken(d, 0) \/ rcursor[d] > 0

Receive(d) ==
    LET f == Head(inbox[d])
        wrong == amiss[d]
        comes == f.kind = "new" /\ ~copy[d].there IN
    /\ inbox[d] # <<>>
    /\ inbox' = [inbox EXCEPT ![d] = Tail(@)]
    /\ copy' = [copy EXCEPT ![d] = Shown(@, f)]
    /\ base' = IF comes THEN [base EXCEPT ![d] = 0] ELSE base
    /\ top' = IF f.kind = "react" THEN [top EXCEPT ![d] = Max2(@, f.seq)] ELSE top
    /\ amiss' = [amiss EXCEPT ![d] =
                    [text |-> IF f.kind \in {"edit", "delete"} THEN f.crossed ELSE wrong.text,
                     gone |-> wrong.gone /\ f.kind # "delete",
                     read |-> wrong.read /\ f.kind # "read",
                     on   |-> IF comes THEN ComesBare(d)
                              ELSE wrong.on \/ (f.kind = "react" /\ f.seq <= base[d])]]
    /\ UNCHANGED <<seqs, row, mark, req, posts, conn, wire, cursor, rcursor, sync, bounds,
                   told>>

----------------------------------------------------------------------------
(* A device pulls: loadHistory *)

\* historyHandler's SELECT: what is above the cursor, deleted text masked.
SyncRows(d) ==
    /\ sync[d].at = "rows"
    /\ sync' = [sync EXCEPT ![d] =
                  [NoSync EXCEPT !.at = "marks", !.has = (1 \in seqs /\ cursor[d] < 1),
                                 !.top = Highest({s \in seqs : s > cursor[d]}),
                                 !.body = IF row.deleted THEN Gone ELSE row.body,
                                 !.deleted = row.deleted, !.read = row.read, !.ver = row.ver]]
    /\ UNCHANGED <<seqs, row, mark, req, roads, copy, cursor, rcursor, bounds, history>>

\* Its two further SELECTs: what the user has cleared is left out, the
\* reactions are added. A copy that was not cleared is then not renewed.
SyncMarks(d, cleared) ==
    LET s == sync[d]
        withheld == s.has /\ cleared >= 1 /\ copy[d].there IN
    /\ s.at = "marks"
    /\ sync' = [sync EXCEPT ![d] =
                  [s EXCEPT !.at = "page", !.bound = cleared, !.has = s.has /\ cleared < 1,
                            !.top = IF s.top <= cleared THEN 0 ELSE s.top,
                            !.on = mark.on, !.seq = mark.seq]]
    /\ amiss' = IF withheld
                THEN [amiss EXCEPT ![d].text = TRUE, ![d].gone = TRUE, ![d].read = TRUE]
                ELSE amiss
    /\ UNCHANGED <<seqs, row, mark, req, roads, copy, cursor, rcursor, bounds, told, base, top>>

\* The page overwrites the copy (Object.assign), and the cursor moves.
SyncMerge(d) ==
    LET s == sync[d] IN
    /\ s.at = "page"
    /\ sync' = [sync EXCEPT ![d] = [NoSync EXCEPT !.at = "reacts"]]
    /\ cursor' = [cursor EXCEPT ![d] = Max2(@, s.top)]
    /\ IF s.has
       THEN /\ copy' = [copy EXCEPT ![d] = [there |-> TRUE, body |-> s.body,
                                            deleted |-> s.deleted, read |-> s.read, on |-> s.on]]
            /\ base' = [base EXCEPT ![d] = s.seq]
            /\ amiss' = [amiss EXCEPT ![d] =
                 [text |-> s.ver < told[d].text /\ ~Coming(d, told[d].text),
                  gone |-> ~s.deleted /\ told[d].gone /\ ~Holds(d, "delete"),
                  read |-> ~s.read /\ told[d].read /\ ~Holds(d, "read"),
                  on   |-> Overtaken(d, s.seq)]]
       ELSE UNCHANGED <<copy, base, amiss>>
    /\ UNCHANGED <<seqs, row, mark, req, roads, rcursor, bounds, told, top>>

\* reactionsHandler: what has changed since hc_rseq.
SyncReactions(d) ==
    /\ sync[d].at = "reacts"
    /\ sync' = [sync EXCEPT ![d] =
                  [@ EXCEPT !.at = "events", !.on = mark.on,
                            !.seq = IF mark.seq > rcursor[d] THEN mark.seq ELSE 0]]
    /\ UNCHANGED <<seqs, row, mark, req, roads, copy, cursor, rcursor, bounds, history>>

\* A refusal of it is passed over.
SyncRefused(d) ==
    /\ sync[d].at = "reacts" /\ Refuse
    /\ sync' = [sync EXCEPT ![d] = NoSync]
    /\ amiss' = [amiss EXCEPT ![d].on = TRUE]
    /\ UNCHANGED <<seqs, row, mark, req, roads, copy, cursor, rcursor, told, base, top>>

\* The events are set, not toggled.
SyncEvents(d) ==
    LET s == sync[d] IN
    /\ s.at = "events"
    /\ sync' = [sync EXCEPT ![d] = NoSync]
    /\ IF s.seq = 0 THEN UNCHANGED <<copy, rcursor, base, amiss>>
       ELSE /\ rcursor' = [rcursor EXCEPT ![d] = s.seq]
            /\ IF copy[d].there
               THEN /\ copy' = [copy EXCEPT ![d].on = s.on]
                    /\ base' = [base EXCEPT ![d] = s.seq]
                    /\ amiss' = [amiss EXCEPT ![d].on = Overtaken(d, s.seq)]
               ELSE UNCHANGED <<copy, base, amiss>>
    /\ UNCHANGED <<seqs, row, mark, req, roads, cursor, bounds, told, top>>

----------------------------------------------------------------------------
(* Connections and restarts *)

Free == \A p \in Procs : req[p].left = {}

\* Registered under mu; ws.onopen pulls, unless a loadHistory is under way.
\* What its last connection had left in the server is through by then.
Connect(d) ==
    /\ d \in load.devs \ conn /\ Free /\ req[d].at = "idle"
    /\ conn' = conn \cup {d}
    /\ sync' = IF sync[d].at = "idle" THEN [sync EXCEPT ![d].at = "rows"] ELSE sync
    /\ UNCHANGED <<seqs, row, mark, req, posts, inbox, wire, copy, cursor, rcursor, bounds,
                   history>>

\* What is amiss with d's copy once its frames are lost.
AmissWithout(d) ==
    [text |-> amiss[d].text \/ (Loses(d) /\ Coming(d, told[d].text)),
     gone |-> amiss[d].gone \/ (Loses(d) /\ Holds(d, "delete")),
     read |-> amiss[d].read \/ (Loses(d) /\ Holds(d, "read")),
     on   |-> amiss[d].on \/ Unserved(d) \/ \E n \in MarksIn(d) : LosesMark(d, n)]

Disconnect(d) ==
    /\ d \in conn /\ Free
    /\ Break
    /\ conn' = conn \ {d}
    /\ inbox' = [inbox EXCEPT ![d] = <<>>] /\ wire' = [wire EXCEPT ![d] = <<>>]
    /\ amiss' = [amiss EXCEPT ![d] = AmissWithout(d)]
    /\ top' = [top EXCEPT ![d] = IF MarksIn(d) = {} THEN @ ELSE Max2(@, Max(MarksIn(d)))]
    /\ UNCHANGED <<seqs, row, mark, req, posts, device, told, base>>

\* The server restarts: handlers, connections and requests are gone, and what
\* a handler had written and not told yet is told to nobody. A device asks
\* again for a page; what was answered still arrives.
Restart ==
    /\ Break
    /\ req' = [p \in Procs \cup Devices |-> Idle]
    /\ posts' = {} /\ conn' = {}
    /\ inbox' = [d \in Devices |-> <<>>] /\ wire' = [d \in Devices |-> <<>>]
    /\ sync' = [d \in Devices |->
                   IF sync[d].at \in {"rows", "marks"} THEN [NoSync EXCEPT !.at = "rows"]
                   ELSE IF sync[d].at = "reacts" THEN NoSync ELSE sync[d]]
    /\ told' = [d \in Devices |-> [text |-> row.ver, gone |-> row.deleted, read |-> row.read]]
    /\ top' = [d \in Devices |-> mark.seq]
    /\ amiss' = [d \in Devices |->
                   LET without == AmissWithout(d)
                       again == cursor[d] < 1 /\ sync[d].at \in {"idle", "rows", "marks"}
                       loses == copy[d].there /\ ~again /\ ~PageComing(d) IN
                   [text |-> \/ without.text
                             \/ (loses /\ row.ver > told[d].text)
                             \/ \E q \in posts : q.op = "edit" /\ q.dev = d,
                    gone |-> without.gone \/ (loses /\ row.deleted),
                    read |-> without.read \/ (loses /\ row.read),
                    on   |-> without.on \/ LosesMark(d, mark.seq)]]
    /\ UNCHANGED <<seqs, row, mark, copy, cursor, rcursor, base>>

AmendmentsNext(cleared) ==
    \/ \E s \in {1, 2} : Commit(s)
    \/ \E d \in Devices : \/ SubmitEdit(d) \/ SubmitDelete(d) \/ SendRead(d) \/ SendReaction(d)
                          \/ ServeRead(d) \/ TellRead(d)
                          \/ DropReaction(d) \/ ServeReaction(d) \/ EchoReaction(d)
                          \/ RelayReaction(d)
                          \/ Receive(d)
                          \/ SyncRows(d) \/ SyncMarks(d, cleared[d]) \/ SyncMerge(d)
                          \/ SyncReactions(d) \/ SyncRefused(d) \/ SyncEvents(d)
                          \/ Connect(d) \/ Disconnect(d)
    \/ \E q \in posts : LosePost(q) \/ \E p \in Procs : Amend(p, q)
    \/ \E p \in Procs : Tell(p) \/ Answer(p) \/ \E d \in Devices : TellOne(p, d)

----------------------------------------------------------------------------
(* Properties *)

Resting(d) ==
    /\ posts = {} /\ \A p \in Procs \cup Devices : req[p].at = "idle"
    /\ \A e \in Devices : wire[e] = <<>>
    /\ d \in conn /\ inbox[d] = <<>> /\ sync[d].at = "idle" /\ copy[d].there

GoneAgrees(d) == copy[d].deleted = row.deleted
TextAgrees(d) == row.deleted \/ copy[d].body = row.body
ReadAgrees(d) == d \in Authors => copy[d].read = row.read
MarkAgrees(d) == copy[d].on = mark.on

\* Once nothing is under way, a device that is connected shows the message as
\* the database has it: text or deletion, whether it was read, the reaction.
\* amiss holds the ways the code is known to leave a copy wrong, each for the
\* field it is about.
CopiesAgree ==
    \A d \in Devices : Resting(d) =>
        /\ GoneAgrees(d) \/ amiss[d].gone
        /\ TextAgrees(d) \/ amiss[d].text
        /\ ReadAgrees(d) \/ amiss[d].read
        /\ MarkAgrees(d) \/ amiss[d].on
=============================================================================
