----------------------------- MODULE MsgWriter -----------------------------
(***************************************************************************)
(* The save pipeline of the server (server/msgwriter.go, saveMessage of    *)
(* server/ws.go).  Every connection's handler goroutine puts a request     *)
(* into one bounded queue and waits, with a time limit, on a reply channel *)
(* of its own; a few writers drain the queue into batches, write a batch   *)
(* with one INSERT ... ON CONFLICT(id) DO UPDATE ... RETURNING and answer  *)
(* everybody who waits.  PostgreSQL allots a message's seq when the row is *)
(* inserted and shows the row when the statement commits.                  *)
(***************************************************************************)
EXTENDS Integers, Sequences, FiniteSets

CONSTANTS
    Conns,      \* the connections (one handler goroutine each)
    Ids,        \* the message ids, chosen by the clients
    Sends,      \* Sends[c]: the ids connection c may ask the server to save
    Bad,        \* ids whose row PostgreSQL refuses (error class 22 or 23)
    Writers,    \* the writer goroutines (msgWriters)
    MaxRows,    \* rows in a batch (msgBatchMaxRows)
    QueueCap,   \* capacity of the queue (msgQueueCap)
    MaxSaves    \* bound: calls of saveMessage one connection makes

NoId == "none"  \* "no call yet"

ASSUME MsgWriterAssumption ==
    /\ NoId \notin Ids
    /\ Sends \in [Conns -> SUBSET Ids]
    /\ Bad \subseteq Ids
    /\ MaxRows \in Nat \ {0}
    /\ QueueCap \in Nat \ {0}
    /\ MaxSaves \in Nat \ {0}

VARIABLES
    hpc,      \* where each handler is: "idle", "enqueue" or "wait"
    calls,    \* how many times each connection has called saveMessage
    asked,    \* asked[c][k]: the id of c's k-th call
    reply,    \* reply[c][k]: the reply channel of c's k-th call
    verdict,  \* verdict[c][k]: what saveMessage returned to c's k-th call
    queue,    \* msgQueue
    wpc,      \* where each writer is
    batch,    \* the requests each writer has taken
    todo,     \* the indices of the batch its present loop has yet to do
    got,      \* got[w][m]: the seq the statement returned for id m, or 0
    fresh,    \* the ids the writer's open statement has inserted
    row,      \* row[m]: the seq of the committed row of id m, or 0
    lastSeq,  \* the last value the messages.seq sequence has handed out
    faulted   \* history: an infrastructure error or a panic has happened

handlerVars == <<hpc, calls, asked, verdict>>
writerVars  == <<wpc, batch, todo, got, fresh>>
dbVars      == <<row, lastSeq>>
vars == <<hpc, calls, asked, reply, verdict, queue, wpc, batch, todo, got,
          fresh, row, lastSeq, faulted>>

\* Values of a reply channel and of a verdict, next to the seqs 1, 2, ...
NoReply == -1
Failed  == 0

Calls   == 1 .. MaxSaves
Request == [conn : Conns, call : Calls, id : Ids]
-----------------------------------------------------------------------------
(***************************************************************************)
(* Batches.  Firsts(b) are the rows of the statement: one per id, in the   *)
(* order of the batch.  Repeats wait for the same result.                  *)
(***************************************************************************)
Firsts(b) == {i \in DOMAIN b : \A j \in DOMAIN b : b[j].id = b[i].id => i <= j}

IsNext(w, i) == i \in todo[w] /\ \A j \in todo[w] : i <= j

\* Some other writer's open statement has inserted m: PostgreSQL makes this
\* one wait until that statement commits or rolls back.
Locked(w, m) == \E v \in Writers \ {w} : m \in fresh[v]

\* The calls whose requests writer w has in its batch, and those among them
\* that ask for id m (the entry of the map "waiters").
InBatch(w) == {<<batch[w][i].conn, batch[w][i].call>> : i \in DOMAIN batch[w]}
Waiters(w, m) == {a \in InBatch(w) : asked[a[1]][a[2]] = m}

\* The reply channels of the calls in S after each was sent f[its id].
Answer(S, f) ==
    [c \in Conns |-> [k \in Calls |->
        IF <<c, k>> \in S THEN f[asked[c][k]] ELSE reply[c][k]]]

\* Mutant: "no result" is not told apart from "no reply".
NoResultNoReply == [m \in Ids |-> NoReply]

NoResult == [m \in Ids |-> Failed]
-----------------------------------------------------------------------------
Init ==
    /\ hpc = [c \in Conns |-> "idle"]
    /\ calls = [c \in Conns |-> 0]
    /\ asked = [c \in Conns |-> [k \in Calls |-> NoId]]
    /\ reply = [c \in Conns |-> [k \in Calls |-> NoReply]]
    /\ verdict = [c \in Conns |-> [k \in Calls |-> NoReply]]
    /\ queue = << >>
    /\ wpc = [w \in Writers |-> "idle"]
    /\ batch = [w \in Writers |-> << >>]
    /\ todo = [w \in Writers |-> {}]
    /\ got = [w \in Writers |-> NoResult]
    /\ fresh = [w \in Writers |-> {}]
    /\ row = [m \in Ids |-> 0]
    /\ lastSeq = 0
    /\ faulted = FALSE
-----------------------------------------------------------------------------
(* The handler: saveMessage. *)

Call(c, m) ==
    /\ hpc[c] = "idle"
    /\ calls[c] < MaxSaves
    /\ calls' = [calls EXCEPT ![c] = @ + 1]
    /\ asked' = [asked EXCEPT ![c][calls[c] + 1] = m]
    /\ hpc' = [hpc EXCEPT ![c] = "enqueue"]
    /\ UNCHANGED <<reply, verdict, queue, writerVars, dbVars, faulted>>

Enqueue(c) ==
    /\ hpc[c] = "enqueue"
    /\ Len(queue) < QueueCap
    /\ queue' = Append(queue, [conn |-> c, call |-> calls[c],
                               id |-> asked[c][calls[c]]])
    /\ hpc' = [hpc EXCEPT ![c] = "wait"]
    /\ UNCHANGED <<calls, asked, reply, verdict, writerVars, dbVars, faulted>>

Return(c, v) ==
    /\ verdict' = [verdict EXCEPT ![c][calls[c]] = v]
    /\ hpc' = [hpc EXCEPT ![c] = "idle"]
    /\ UNCHANGED <<calls, asked, reply, queue, writerVars, dbVars, faulted>>

\* saveEnqueueTimeout: a select with room in the queue never times out.
EnqueueTimeout(c) ==
    /\ hpc[c] = "enqueue"
    /\ Len(queue) >= QueueCap
    /\ Return(c, Failed)

ReceiveReply(c) ==
    /\ hpc[c] = "wait"
    /\ reply[c][calls[c]] # NoReply
    /\ Return(c, reply[c][calls[c]])

\* saveReplyTimeout: the request stays in the queue or in its batch.
ReplyTimeout(c) ==
    /\ hpc[c] = "wait"
    /\ reply[c][calls[c]] = NoReply
    /\ Return(c, Failed)
-----------------------------------------------------------------------------
(* The writer: runMessageWriter, safeFlush and flushMessageBatch. *)

TakeFirst(w) ==
    /\ wpc[w] = "idle"
    /\ queue # << >>
    /\ batch' = [batch EXCEPT ![w] = <<Head(queue)>>]
    /\ queue' = Tail(queue)
    /\ wpc' = [wpc EXCEPT ![w] = "drain"]
    /\ UNCHANGED <<handlerVars, reply, todo, got, fresh, dbVars, faulted>>

Drain(w) ==
    /\ wpc[w] = "drain"
    /\ Len(batch[w]) < MaxRows
    /\ queue # << >>
    /\ batch' = [batch EXCEPT ![w] = Append(@, Head(queue))]
    /\ queue' = Tail(queue)
    /\ UNCHANGED <<handlerVars, reply, wpc, todo, got, fresh, dbVars, faulted>>

BeginInsert(w) ==
    /\ wpc[w] = "drain"
    /\ Len(batch[w]) = MaxRows \/ queue = << >>
    /\ wpc' = [wpc EXCEPT ![w] = "insert"]
    /\ todo' = [todo EXCEPT ![w] = Firsts(batch[w])]
    /\ UNCHANGED <<handlerVars, reply, queue, batch, got, fresh, dbVars,
                   faulted>>

\* Mutant: the statement returns the value it allotted, not the row's.
InsertRowFreshSeq(w) ==
    /\ wpc[w] = "insert"
    /\ \E i \in todo[w] : LET m == batch[w][i].id IN
          /\ IsNext(w, i)
          /\ m \notin Bad
          /\ ~ Locked(w, m)
          /\ lastSeq' = lastSeq + 1
          /\ got' = [got EXCEPT ![w][m] = lastSeq + 1]
          /\ fresh' = [fresh EXCEPT ![w] = IF row[m] = 0 THEN @ \cup {m} ELSE @]
          /\ todo' = [todo EXCEPT ![w] = @ \ {i}]
    /\ UNCHANGED <<handlerVars, reply, queue, wpc, batch, row, faulted>>

\* Mutant: a sequence with a cache, of which every session draws a block.
InsertRowCached(w) ==
    /\ wpc[w] = "insert"
    /\ \E i \in todo[w] : LET m == batch[w][i].id IN
          /\ IsNext(w, i)
          /\ m \notin Bad
          /\ ~ Locked(w, m)
          /\ lastSeq' = lastSeq + 1
          /\ got' = [got EXCEPT ![w][m] = IF row[m] # 0 THEN row[m]
                     ELSE lastSeq + 1 + IF w = (CHOOSE v \in Writers : TRUE)
                                        THEN 0 ELSE 32]
          /\ fresh' = [fresh EXCEPT ![w] = IF row[m] = 0 THEN @ \cup {m} ELSE @]
          /\ todo' = [todo EXCEPT ![w] = @ \ {i}]
    /\ UNCHANGED <<handlerVars, reply, queue, wpc, batch, row, faulted>>

\* One row of the statement.  The sequence moves on even when the id is
\* there already; the row that is there keeps its seq.
InsertRow(w) ==
    /\ wpc[w] = "insert"
    /\ \E i \in todo[w] : LET m == batch[w][i].id IN
          /\ IsNext(w, i)
          /\ m \notin Bad
          /\ ~ Locked(w, m)
          /\ lastSeq' = lastSeq + 1
          /\ got' = [got EXCEPT ![w][m] = IF row[m] = 0 THEN lastSeq + 1
                                                        ELSE row[m]]
          /\ fresh' = [fresh EXCEPT ![w] = IF row[m] = 0 THEN @ \cup {m} ELSE @]
          /\ todo' = [todo EXCEPT ![w] = @ \ {i}]
    /\ UNCHANGED <<handlerVars, reply, queue, wpc, batch, row, faulted>>

\* The rows after writer w's statement has committed.
Committed(w) == [m \in Ids |-> IF m \in fresh[w] THEN got[w][m] ELSE row[m]]

Commit(w) ==
    /\ wpc[w] = "insert"
    /\ todo[w] = {}
    /\ row' = Committed(w)
    /\ fresh' = [fresh EXCEPT ![w] = {}]
    /\ wpc' = [wpc EXCEPT ![w] = "reply"]
    /\ todo' = [todo EXCEPT ![w] = Firsts(batch[w])]
    /\ UNCHANGED <<handlerVars, reply, queue, batch, got, lastSeq, faulted>>

\* Mutant: one refused row fails its whole batch.
RowLevelFailureForAll(w) ==
    /\ wpc[w] = "insert"
    /\ \E i \in todo[w] : batch[w][i].id \in Bad
    /\ fresh' = [fresh EXCEPT ![w] = {}]
    /\ got' = [got EXCEPT ![w] = NoResult]
    /\ wpc' = [wpc EXCEPT ![w] = "reply"]
    /\ todo' = [todo EXCEPT ![w] = Firsts(batch[w])]
    /\ UNCHANGED <<handlerVars, reply, queue, batch, dbVars, faulted>>

\* rowLevelFailure: the statement is rolled back, the rows are tried singly.
RowLevelFailure(w) ==
    /\ wpc[w] = "insert"
    /\ \E i \in todo[w] : batch[w][i].id \in Bad
    /\ fresh' = [fresh EXCEPT ![w] = {}]
    /\ got' = [got EXCEPT ![w] = NoResult]
    /\ wpc' = [wpc EXCEPT ![w] = "single"]
    /\ todo' = [todo EXCEPT ![w] = Firsts(batch[w])]
    /\ UNCHANGED <<handlerVars, reply, queue, batch, dbVars, faulted>>

\* Mutant: the results collected before the failure are delivered.
InfrastructureFailureKeepsResults(w) ==
    /\ wpc[w] = "insert"
    /\ fresh' = [fresh EXCEPT ![w] = {}]
    /\ wpc' = [wpc EXCEPT ![w] = "reply"]
    /\ todo' = [todo EXCEPT ![w] = Firsts(batch[w])]
    /\ faulted' = TRUE
    /\ UNCHANGED <<handlerVars, reply, queue, batch, got, dbVars>>

\* Anything else that goes wrong (connection, statement_timeout, a lock
\* cycle): everybody is told at once.  When all rows were in, the statement
\* may have committed although the server saw an error.
InfrastructureFailure(w) ==
    /\ wpc[w] = "insert"
    /\ \/ row' = row
       \/ todo[w] = {} /\ row' = Committed(w)
    /\ fresh' = [fresh EXCEPT ![w] = {}]
    /\ got' = [got EXCEPT ![w] = NoResult]
    /\ wpc' = [wpc EXCEPT ![w] = "reply"]
    /\ todo' = [todo EXCEPT ![w] = Firsts(batch[w])]
    /\ faulted' = TRUE
    /\ UNCHANGED <<handlerVars, reply, queue, batch, lastSeq>>

\* The loop over the unique rows goes on after index i, or is over.
Advance(w, i) ==
    /\ todo' = [todo EXCEPT ![w] = @ \ {i}]
    /\ IF todo[w] = {i}
       THEN /\ wpc' = [wpc EXCEPT ![w] = "idle"]
            /\ batch' = [batch EXCEPT ![w] = << >>]
            /\ got' = [got EXCEPT ![w] = NoResult]
       ELSE UNCHANGED <<wpc, batch, got>>

\* deliverSaveResult: everybody who waits for the id at index i.  A reply
\* channel holds one value; a second send would block the writer.
Deliver(w, i, f) ==
    LET S == Waiters(w, batch[w][i].id) IN
    /\ \A a \in S : reply[a[1]][a[2]] = NoReply
    /\ reply' = Answer(S, f)

DeliverResult(w) ==
    /\ wpc[w] = "reply"
    /\ \E i \in todo[w] : /\ IsNext(w, i)
                          /\ Deliver(w, i, got[w])
                          /\ Advance(w, i)
    /\ UNCHANGED <<handlerVars, queue, fresh, dbVars, faulted>>

\* Mutant: a resent id is given a new seq.
SingleRowRenumbers(w) ==
    /\ wpc[w] = "single"
    /\ \E i \in todo[w] : LET m == batch[w][i].id IN
          /\ IsNext(w, i)
          /\ m \notin Bad => ~ Locked(w, m)
          /\ row' = IF m \in Bad THEN row ELSE [row EXCEPT ![m] = lastSeq + 1]
          /\ lastSeq' = IF m \in Bad THEN lastSeq ELSE lastSeq + 1
          /\ Deliver(w, i, row')
          /\ Advance(w, i)
    /\ UNCHANGED <<handlerVars, queue, fresh, faulted>>

\* One row on its own: a statement that commits by itself.
SingleRow(w) ==
    /\ wpc[w] = "single"
    /\ \E i \in todo[w] : LET m == batch[w][i].id IN
          /\ IsNext(w, i)
          /\ m \notin Bad => ~ Locked(w, m)
          /\ row' = IF m \in Bad \/ row[m] # 0 THEN row
                    ELSE [row EXCEPT ![m] = lastSeq + 1]
          /\ lastSeq' = IF m \in Bad THEN lastSeq ELSE lastSeq + 1
          /\ Deliver(w, i, row')
          /\ Advance(w, i)
    /\ UNCHANGED <<handlerVars, queue, fresh, faulted>>

\* The single statement meets an infrastructure error; it may have committed.
SingleRowFailure(w) ==
    /\ wpc[w] = "single"
    /\ \E i \in todo[w] : LET m == batch[w][i].id IN
          /\ IsNext(w, i)
          /\ m \notin Bad
          /\ \/ UNCHANGED dbVars
             \/ /\ row[m] = 0 /\ ~ Locked(w, m)
                /\ lastSeq' = lastSeq + 1
                /\ row' = [row EXCEPT ![m] = lastSeq + 1]
          /\ Deliver(w, i, NoResult)
          /\ Advance(w, i)
    /\ faulted' = TRUE
    /\ UNCHANGED <<handlerVars, queue, fresh>>

\* Mutant: the panic is recovered from, and nobody is told.
PanicSilently(w) ==
    /\ wpc[w] \in {"insert", "reply", "single"}
    /\ wpc' = [wpc EXCEPT ![w] = "idle"]
    /\ batch' = [batch EXCEPT ![w] = << >>]
    /\ todo' = [todo EXCEPT ![w] = {}]
    /\ got' = [got EXCEPT ![w] = NoResult]
    /\ fresh' = [fresh EXCEPT ![w] = {}]
    /\ faulted' = TRUE
    /\ UNCHANGED <<handlerVars, reply, queue, dbVars>>

\* safeFlush: a panic inside the flush answers whoever has no answer yet and
\* leaves the writer alive.
Panic(w) ==
    /\ wpc[w] \in {"insert", "reply", "single"}
    /\ reply' = Answer({a \in InBatch(w) : reply[a[1]][a[2]] = NoReply}, NoResult)
    /\ wpc' = [wpc EXCEPT ![w] = "idle"]
    /\ batch' = [batch EXCEPT ![w] = << >>]
    /\ todo' = [todo EXCEPT ![w] = {}]
    /\ got' = [got EXCEPT ![w] = NoResult]
    /\ fresh' = [fresh EXCEPT ![w] = {}]
    /\ faulted' = TRUE
    /\ UNCHANGED <<handlerVars, queue, dbVars>>
-----------------------------------------------------------------------------
Handler(c) ==
    \/ \E m \in Sends[c] : Call(c, m)
    \/ Enqueue(c)
    \/ EnqueueTimeout(c)
    \/ ReceiveReply(c)
    \/ ReplyTimeout(c)

Writer(w) ==
    \/ TakeFirst(w)
    \/ Drain(w)
    \/ BeginInsert(w)
    \/ InsertRow(w)
    \/ Commit(w)
    \/ RowLevelFailure(w)
    \/ InfrastructureFailure(w)
    \/ DeliverResult(w)
    \/ SingleRow(w)
    \/ SingleRowFailure(w)
    \/ Panic(w)

Next == (\E c \in Conns : Handler(c)) \/ (\E w \in Writers : Writer(w))

Spec == Init /\ [][Next]_vars

\* A writer goroutine is scheduled, and PostgreSQL ends every statement
\* (statement_timeout, deadlock_timeout) one way or the other.
FairSpec == Spec /\ \A w \in Writers : WF_vars(Writer(w))
-----------------------------------------------------------------------------
\* Every variable holds values of its type.
TypeOK ==
    /\ hpc \in [Conns -> {"idle", "enqueue", "wait"}]
    /\ calls \in [Conns -> 0 .. MaxSaves]
    /\ asked \in [Conns -> [Calls -> Ids \cup {NoId}]]
    /\ reply \in [Conns -> [Calls -> Nat \cup {NoReply}]]
    /\ verdict \in [Conns -> [Calls -> Nat \cup {NoReply}]]
    /\ queue \in Seq(Request)
    /\ wpc \in [Writers -> {"idle", "drain", "insert", "single", "reply"}]
    /\ batch \in [Writers -> Seq(Request)]
    /\ todo \in [Writers -> SUBSET Nat]
    /\ got \in [Writers -> [Ids -> Nat]]
    /\ fresh \in [Writers -> SUBSET Ids]
    /\ row \in [Ids -> Nat]
    /\ lastSeq \in Nat
    /\ faulted \in BOOLEAN

\* A seq that saveMessage returned is the seq of a committed row of that very
\* id: nothing is acknowledged that is not stored, and a resent id gets the
\* seq of the first (insertMessageRows), whatever failed in between.
AckedIsStored ==
    \A c \in Conns, k \in Calls :
        verdict[c][k] > 0 => row[asked[c][k]] = verdict[c][k]

\* The calls, of any connection, that asked for id m.
AskedFor(m) == {a \in Conns \X Calls : asked[a[1]][a[2]] = m}

\* Two messages a connection saved one after the other, neither of them ever
\* resent, have seqs in that order although different writers may have stored
\* them (the comment at the head of msgwriter.go).
SenderOrder ==
    \A c \in Conns, j, k \in Calls :
        /\ j < k
        /\ verdict[c][j] > 0 /\ verdict[c][k] > 0
        /\ AskedFor(asked[c][j]) = {<<c, j>>}
        /\ AskedFor(asked[c][k]) = {<<c, k>>}
        => verdict[c][j] < verdict[c][k]

\* One bad row does not take the rest of its batch with it: without an
\* infrastructure error or a panic, a reply is an error exactly when the row
\* itself is refused.
OnlyBadRowsFail ==
    ~ faulted => \A c \in Conns, k \in Calls :
        reply[c][k] # NoReply => (reply[c][k] = Failed <=> asked[c][k] \in Bad)

\* A committed row keeps its seq, through resends, retries and failures.
RowsAreStable ==
    [][\A m \in Ids : row[m] # 0 => row'[m] = row[m]]_row

\* Every request a writer can take is answered, though writers fail and panic
\* and though nobody may be waiting any more (safeFlush, property 2).
EveryRequestAnswered ==
    \A c \in Conns, k \in Calls :
        (\E i \in DOMAIN queue : queue[i].conn = c /\ queue[i].call = k)
            ~> (reply[c][k] # NoReply)

\* The pipeline keeps the promise of MessageStore: every step either does one
\* of the things that module lets happen or is invisible to the callers.
Store == INSTANCE MessageStore WITH
    asked <- asked, verdict <- verdict, row <- row
StoreSpec == Store!Spec
=============================================================================
