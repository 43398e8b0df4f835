-------------------------- MODULE MsgWriterProofs --------------------------
(***************************************************************************)
(* Proofs about the save pipeline, for any number of connections, writers  *)
(* and ids, any batch size, queue capacity and number of calls.            *)
(***************************************************************************)
EXTENDS MsgWriter, TLAPS

\* The requests that wait in the queue or in a batch are the calls they say
\* they are, and a writer's loop stays inside its batch.
RequestInv ==
    /\ \A i \in DOMAIN queue : asked[queue[i].conn][queue[i].call] = queue[i].id
    /\ \A w \in Writers : \A i \in DOMAIN batch[w] :
          asked[batch[w][i].conn][batch[w][i].call] = batch[w][i].id
    /\ \A w \in Writers : /\ todo[w] \subseteq DOMAIN batch[w]
                          /\ wpc[w] \in {"idle", "drain"} => todo[w] = {}

\* A handler inside saveMessage is in its last call, and the calls it has not
\* made have neither an id nor an answer.
HandlerInv ==
    /\ \A c \in Conns : hpc[c] # "idle" =>
          /\ calls[c] \in Calls
          /\ asked[c][calls[c]] \in Ids
          /\ verdict[c][calls[c]] = NoReply
    /\ \A c \in Conns, k \in Calls :
          k > calls[c] => asked[c][k] = NoId /\ verdict[c][k] = NoReply

\* The three together are inductive.
TypeInv == TypeOK /\ RequestInv /\ HandlerInv
-----------------------------------------------------------------------------
\* The calls in a writer's batch are calls that asked for an id.
LEMMA BatchCalls ==
    ASSUME TypeInv, NEW w \in Writers
    PROVE  \A a \in InBatch(w) :
              a[1] \in Conns /\ a[2] \in Calls /\ asked[a[1]][a[2]] \in Ids
<1> SUFFICES ASSUME NEW i \in DOMAIN batch[w]
             PROVE  /\ batch[w][i].conn \in Conns
                    /\ batch[w][i].call \in Calls
                    /\ asked[batch[w][i].conn][batch[w][i].call] \in Ids
  BY DEF InBatch
<1>1. batch[w][i] \in Request
  BY DEF TypeInv, TypeOK
<1> QED
  BY <1>1 DEF TypeInv, RequestInv, Request

\* Sending results to calls of a batch keeps the type of the reply channels.
LEMMA AnswerType ==
    ASSUME TypeInv, NEW w \in Writers, NEW S \in SUBSET InBatch(w),
           NEW f \in [Ids -> Nat]
    PROVE  Answer(S, f) \in [Conns -> [Calls -> Nat \cup {NoReply}]]
BY BatchCalls DEF Answer, TypeInv, TypeOK

LEMMA WaitersInBatch ==
    \A w \in Writers, m \in Ids : Waiters(w, m) \subseteq InBatch(w)
BY DEF Waiters

LEMMA NoResultType == NoResult \in [Ids -> Nat]
BY DEF NoResult, Failed

\* The rows of a statement are indices of the batch.
LEMMA FirstsInBatch ==
    ASSUME TypeInv, NEW w \in Writers
    PROVE  Firsts(batch[w]) \subseteq DOMAIN batch[w] /\ DOMAIN batch[w] \subseteq Nat
BY DEF Firsts, TypeInv, TypeOK

LEMMA TodoRequest ==
    ASSUME TypeInv, NEW w \in Writers, NEW i \in todo[w]
    PROVE  batch[w][i] \in Request /\ batch[w][i].id \in Ids
<1>1. batch[w] \in Seq(Request) /\ i \in DOMAIN batch[w]
  BY DEF TypeInv, TypeOK, RequestInv
<1>2. batch[w][i] \in Request
  BY <1>1
<1> QED BY <1>2 DEF Request

\* The step of a reply loop keeps the writer's own types.
LEMMA AdvanceType ==
    ASSUME TypeInv, NEW w \in Writers, NEW i, Advance(w, i)
    PROVE  /\ wpc' \in [Writers -> {"idle", "drain", "insert", "single", "reply"}]
           /\ batch' \in [Writers -> Seq(Request)]
           /\ todo' \in [Writers -> SUBSET Nat]
           /\ got' \in [Writers -> [Ids -> Nat]]
           /\ \A v \in Writers : batch'[v] = batch[v] \/ batch'[v] = << >>
           /\ \A v \in Writers :
                 /\ todo'[v] \subseteq DOMAIN batch'[v]
                 /\ wpc'[v] \in {"idle", "drain"} => todo'[v] = {}
<1>1. todo' \in [Writers -> SUBSET Nat]
  BY DEF Advance, TypeInv, TypeOK
<1>2. CASE todo[w] = {i}
  <2>1. wpc' \in [Writers -> {"idle", "drain", "insert", "single", "reply"}]
    BY <1>2 DEF Advance, TypeInv, TypeOK
  <2>2. batch' \in [Writers -> Seq(Request)]
    <3>1. batch' = [batch EXCEPT ![w] = << >>]
      BY <1>2 DEF Advance
    <3>2. << >> \in Seq(Request) /\ batch \in [Writers -> Seq(Request)]
      BY DEF TypeInv, TypeOK
    <3> QED BY <3>1, <3>2
  <2>3. got' \in [Writers -> [Ids -> Nat]]
    BY <1>2, NoResultType DEF Advance, TypeInv, TypeOK
  <2>4. \A v \in Writers : batch'[v] = batch[v] \/ batch'[v] = << >>
    BY <1>2 DEF Advance, TypeInv, TypeOK
  <2>5. \A v \in Writers :
           /\ todo'[v] \subseteq DOMAIN batch'[v]
           /\ wpc'[v] \in {"idle", "drain"} => todo'[v] = {}
    BY <1>2 DEF Advance, TypeInv, TypeOK, RequestInv
  <2> QED BY <1>1, <2>1, <2>2, <2>3, <2>4, <2>5
<1>3. CASE todo[w] # {i}
  <2>1. UNCHANGED <<wpc, batch, got>>
    BY <1>3 DEF Advance
  <2>2. \A v \in Writers : todo'[v] \subseteq todo[v]
    BY DEF Advance, TypeInv, TypeOK
  <2> QED BY <1>1, <2>1, <2>2 DEF TypeInv, TypeOK, RequestInv
<1> QED BY <1>2, <1>3
-----------------------------------------------------------------------------
LEMMA InitType == Init => TypeInv
<1> SUFFICES ASSUME Init PROVE TypeInv
  OBVIOUS
<1>1. hpc \in [Conns -> {"idle", "enqueue", "wait"}] /\ calls \in [Conns -> 0 .. MaxSaves]
  BY MsgWriterAssumption DEF Init
<1>2. asked \in [Conns -> [Calls -> Ids \cup {NoId}]]
  BY DEF Init
<1>3. reply \in [Conns -> [Calls -> Nat \cup {NoReply}]] /\ verdict \in [Conns -> [Calls -> Nat \cup {NoReply}]]
  BY DEF Init, NoReply
<1>4. queue \in Seq(Request)
  BY DEF Init
<1>5. batch \in [Writers -> Seq(Request)]
  BY DEF Init
<1>6. got \in [Writers -> [Ids -> Nat]]
  BY NoResultType DEF Init
<1>7. row \in [Ids -> Nat] /\ lastSeq \in Nat /\ faulted \in BOOLEAN
  BY DEF Init
<1>8. TypeOK
  BY <1>1, <1>2, <1>3, <1>4, <1>5, <1>6, <1>7 DEF Init, TypeOK
<1>9. RequestInv
  BY DEF Init, RequestInv
<1>10. HandlerInv
  BY DEF Init, HandlerInv
<1> QED BY <1>8, <1>9, <1>10 DEF TypeInv

\* A handler's step.
LEMMA HandlerType ==
    ASSUME TypeInv, NEW c \in Conns, Handler(c)
    PROVE  TypeInv'
<1> USE DEF handlerVars, writerVars, dbVars
<1>1. ASSUME NEW m \in Sends[c], Call(c, m)
      PROVE  TypeInv'
  <2>1. m \in Ids
    BY MsgWriterAssumption
  <2>2. calls[c] + 1 \in Calls /\ calls' \in [Conns -> 0 .. MaxSaves]
    BY <1>1, MsgWriterAssumption DEF Call, Calls, TypeInv, TypeOK
  <2>3. asked' \in [Conns -> [Calls -> Ids \cup {NoId}]]
    BY <1>1, <2>1 DEF Call, TypeInv, TypeOK
  <2>4. TypeOK'
    BY <1>1, <2>2, <2>3 DEF Call, TypeInv, TypeOK
  <2>5. \A d \in Conns, k \in Calls : asked[d][k] # NoId => asked'[d][k] = asked[d][k]
    BY <1>1, <2>2 DEF Call, TypeInv, TypeOK, HandlerInv, Calls
  <2>6. \A r \in Request : asked[r.conn][r.call] = r.id => asked'[r.conn][r.call] = r.id
    BY <2>5, MsgWriterAssumption DEF Request
  <2>7. RequestInv'
    BY <1>1, <2>6 DEF Call, TypeInv, TypeOK, RequestInv
  <2>8. HandlerInv'
    <3>1. \A d \in Conns : hpc'[d] # "idle" =>
             /\ calls'[d] \in Calls
             /\ asked'[d][calls'[d]] \in Ids
             /\ verdict'[d][calls'[d]] = NoReply
      BY <1>1, <2>1, <2>2 DEF Call, TypeInv, TypeOK, HandlerInv
    <3>2. \A d \in Conns, k \in Calls :
             k > calls'[d] => asked'[d][k] = NoId /\ verdict'[d][k] = NoReply
      BY <1>1, <2>2 DEF Call, TypeInv, TypeOK, HandlerInv, Calls
    <3> QED BY <3>1, <3>2 DEF HandlerInv
  <2> QED BY <2>4, <2>7, <2>8 DEF TypeInv
<1>2. CASE Enqueue(c)
  <2>1. hpc' \in [Conns -> {"idle", "enqueue", "wait"}]
    BY <1>2 DEF Enqueue, TypeInv, TypeOK
  <2> DEFINE r == [conn |-> c, call |-> calls[c], id |-> asked[c][calls[c]]]
  <2>2. r \in Request
    BY <1>2 DEF Enqueue, TypeInv, HandlerInv, Request
  <2>3. queue' = Append(queue, r) /\ queue' \in Seq(Request)
    BY <1>2, <2>2 DEF Enqueue, TypeInv, TypeOK
  <2>4. TypeOK'
    BY <1>2, <2>1, <2>3 DEF Enqueue, TypeInv, TypeOK
  <2>5. \A i \in DOMAIN queue' : asked[queue'[i].conn][queue'[i].call] = queue'[i].id
    <3> SUFFICES ASSUME NEW i \in DOMAIN queue'
                 PROVE  asked[queue'[i].conn][queue'[i].call] = queue'[i].id
      OBVIOUS
    <3>1. CASE i \in DOMAIN queue
      BY <2>3, <3>1 DEF TypeInv, TypeOK, RequestInv
    <3>2. CASE i \notin DOMAIN queue
      <4>1. queue'[i] = r
        BY <2>3, <3>2 DEF TypeInv, TypeOK
      <4> QED BY <4>1
    <3> QED BY <3>1, <3>2
  <2>6. RequestInv'
    BY <1>2, <2>5 DEF Enqueue, TypeInv, RequestInv
  <2>7. HandlerInv'
    BY <1>2 DEF Enqueue, TypeInv, TypeOK, HandlerInv
  <2> QED BY <2>4, <2>6, <2>7 DEF TypeInv
<1>3. ASSUME NEW v \in Nat, Return(c, v), hpc[c] # "idle"
      PROVE  TypeInv'
  <2>1. TypeOK'
    BY <1>3 DEF Return, TypeInv, TypeOK
  <2>2. RequestInv'
    BY <1>3 DEF Return, TypeInv, RequestInv
  <2>3. HandlerInv'
    BY <1>3 DEF Return, TypeInv, TypeOK, HandlerInv, Calls
  <2> QED BY <2>1, <2>2, <2>3 DEF TypeInv
<1>4. CASE EnqueueTimeout(c) \/ ReplyTimeout(c)
  BY <1>3, <1>4 DEF EnqueueTimeout, ReplyTimeout, Failed
<1>5. CASE ReceiveReply(c)
  <2>1. reply[c][calls[c]] \in Nat
    BY <1>5 DEF ReceiveReply, TypeInv, TypeOK, HandlerInv
  <2> QED BY <1>3, <1>5, <2>1 DEF ReceiveReply
<1> QED BY <1>1, <1>2, <1>4, <1>5 DEF Handler

\* A writer's step.
LEMMA WriterType ==
    ASSUME TypeInv, NEW w \in Writers, Writer(w)
    PROVE  TypeInv'
<1> USE DEF handlerVars, writerVars, dbVars
<1>0. /\ \A v \in Writers : todo[v] \subseteq DOMAIN batch[v]
      /\ Firsts(batch[w]) \subseteq DOMAIN batch[w]
      /\ Firsts(batch[w]) \in SUBSET Nat
  BY FirstsInBatch DEF TypeInv, RequestInv
<1>1. CASE TakeFirst(w)
  <2>1. Head(queue) \in Request /\ Tail(queue) \in Seq(Request)
    BY <1>1 DEF TakeFirst, TypeInv, TypeOK
  <2>2. batch' \in [Writers -> Seq(Request)] /\ queue' \in Seq(Request)
    BY <1>1, <2>1 DEF TakeFirst, TypeInv, TypeOK
  <2>3. wpc' \in [Writers -> {"idle", "drain", "insert", "single", "reply"}]
    BY <1>1 DEF TakeFirst, TypeInv, TypeOK
  <2>4. TypeOK'
    BY <1>1, <2>2, <2>3 DEF TakeFirst, TypeInv, TypeOK
  <2>5. \A i \in DOMAIN queue' : i + 1 \in DOMAIN queue /\ queue'[i] = queue[i + 1]
    BY <1>1 DEF TakeFirst, TypeInv, TypeOK
  <2>6. asked[Head(queue).conn][Head(queue).call] = Head(queue).id
    BY <1>1 DEF TakeFirst, TypeInv, TypeOK, RequestInv
  <2>7. batch'[w] = <<Head(queue)>> /\ \A v \in Writers \ {w} : batch'[v] = batch[v]
    BY <1>1 DEF TakeFirst, TypeInv, TypeOK
  <2>8. RequestInv'
    <3>1. \A v \in Writers : \A i \in DOMAIN batch'[v] :
             asked[batch'[v][i].conn][batch'[v][i].call] = batch'[v][i].id
      BY <2>6, <2>7 DEF TypeInv, RequestInv
    <3>2. \A v \in Writers : /\ todo[v] \subseteq DOMAIN batch'[v]
                             /\ wpc'[v] \in {"idle", "drain"} => todo[v] = {}
      BY <1>1, <2>7 DEF TakeFirst, TypeInv, TypeOK, RequestInv
    <3> QED BY SMTT(30), <1>1, <2>5, <3>1, <3>2 DEF TakeFirst, TypeInv, RequestInv
  <2>9. HandlerInv'
    BY <1>1 DEF TakeFirst, TypeInv, HandlerInv
  <2> QED BY <2>4, <2>8, <2>9 DEF TypeInv
<1>2. CASE Drain(w)
  <2>1. Head(queue) \in Request /\ Tail(queue) \in Seq(Request)
    BY <1>2 DEF Drain, TypeInv, TypeOK
  <2>2. batch' \in [Writers -> Seq(Request)] /\ queue' \in Seq(Request)
    BY <1>2, <2>1 DEF Drain, TypeInv, TypeOK
  <2>3. TypeOK'
    BY <1>2, <2>2 DEF Drain, TypeInv, TypeOK
  <2>4. \A i \in DOMAIN queue' : i + 1 \in DOMAIN queue /\ queue'[i] = queue[i + 1]
    BY <1>2 DEF Drain, TypeInv, TypeOK
  <2>5. asked[Head(queue).conn][Head(queue).call] = Head(queue).id
    BY <1>2 DEF Drain, TypeInv, TypeOK, RequestInv
  <2>6. \A v \in Writers : \A i \in DOMAIN batch'[v] :
           asked[batch'[v][i].conn][batch'[v][i].call] = batch'[v][i].id
    <3> SUFFICES ASSUME NEW v \in Writers, NEW i \in DOMAIN batch'[v]
                 PROVE  asked[batch'[v][i].conn][batch'[v][i].call] = batch'[v][i].id
      OBVIOUS
    <3>1. CASE i \in DOMAIN batch[v]
      <4>1. batch'[v][i] = batch[v][i]
        BY <1>2, <2>1, <3>1 DEF Drain, TypeInv, TypeOK
      <4> QED BY <3>1, <4>1 DEF TypeInv, RequestInv
    <3>2. CASE i \notin DOMAIN batch[v]
      <4>1. batch'[v][i] = Head(queue)
        BY <1>2, <2>1, <3>2 DEF Drain, TypeInv, TypeOK
      <4> QED BY <2>5, <4>1
    <3> QED BY <3>1, <3>2
  <2>7. \A v \in Writers : /\ todo[v] \subseteq DOMAIN batch'[v]
                           /\ wpc[v] \in {"idle", "drain"} => todo[v] = {}
    BY <1>2, <2>1 DEF Drain, TypeInv, TypeOK, RequestInv
  <2>8. RequestInv'
    BY SMTT(30), <1>2, <2>4, <2>6, <2>7 DEF Drain, TypeInv, RequestInv
  <2>9. HandlerInv'
    BY <1>2 DEF Drain, TypeInv, HandlerInv
  <2> QED BY <2>3, <2>8, <2>9 DEF TypeInv
<1>3. CASE BeginInsert(w)
  <2>1. TypeOK'
    BY <1>0, <1>3 DEF BeginInsert, TypeInv, TypeOK
  <2>2. RequestInv'
    BY <1>0, <1>3 DEF BeginInsert, TypeInv, TypeOK, RequestInv
  <2>3. HandlerInv'
    BY <1>3 DEF BeginInsert, TypeInv, HandlerInv
  <2> QED BY <2>1, <2>2, <2>3 DEF TypeInv
<1>4. CASE InsertRow(w)
  <2>1. PICK i \in todo[w] :
           /\ lastSeq' = lastSeq + 1
           /\ got' = [got EXCEPT ![w][batch[w][i].id] =
                         IF row[batch[w][i].id] = 0 THEN lastSeq + 1
                                                    ELSE row[batch[w][i].id]]
           /\ fresh' = [fresh EXCEPT ![w] = IF row[batch[w][i].id] = 0
                                            THEN @ \cup {batch[w][i].id} ELSE @]
           /\ todo' = [todo EXCEPT ![w] = @ \ {i}]
    BY <1>4 DEF InsertRow
  <2>2. batch[w][i].id \in Ids
    BY TodoRequest
  <2>3. got' \in [Writers -> [Ids -> Nat]]
    BY <2>1, <2>2 DEF TypeInv, TypeOK
  <2>4. fresh' \in [Writers -> SUBSET Ids]
    BY <2>1, <2>2 DEF TypeInv, TypeOK
  <2>5. todo' \in [Writers -> SUBSET Nat] /\ lastSeq' \in Nat
    BY <2>1 DEF TypeInv, TypeOK
  <2>6. TypeOK'
    BY <1>4, <2>3, <2>4, <2>5 DEF InsertRow, TypeInv, TypeOK
  <2>7. RequestInv'
    BY <1>4, <2>1 DEF InsertRow, TypeInv, TypeOK, RequestInv
  <2>8. HandlerInv'
    BY <1>4 DEF InsertRow, TypeInv, HandlerInv
  <2> QED BY <2>6, <2>7, <2>8 DEF TypeInv
<1>5. Committed(w) \in [Ids -> Nat]
  BY DEF Committed, TypeInv, TypeOK
<1>6. CASE Commit(w) \/ RowLevelFailure(w) \/ InfrastructureFailure(w)
  <2>1. /\ UNCHANGED <<hpc, calls, asked, verdict, reply, queue, batch, lastSeq>>
        /\ todo' = [todo EXCEPT ![w] = Firsts(batch[w])]
        /\ fresh' = [fresh EXCEPT ![w] = {}]
        /\ \E l \in {"single", "reply"} : wpc' = [wpc EXCEPT ![w] = l]
        /\ got' = got \/ got' = [got EXCEPT ![w] = NoResult]
        /\ row' = row \/ row' = Committed(w)
        /\ faulted' \in BOOLEAN
    BY <1>6 DEF Commit, RowLevelFailure, InfrastructureFailure, TypeInv, TypeOK
  <2>2. row' \in [Ids -> Nat] /\ got' \in [Writers -> [Ids -> Nat]]
    <3>1. row \in [Ids -> Nat] /\ got \in [Writers -> [Ids -> Nat]]
      BY DEF TypeInv, TypeOK
    <3>2. row' \in [Ids -> Nat]
      BY <1>5, <2>1, <3>1
    <3>3. got' \in [Writers -> [Ids -> Nat]]
      BY <2>1, <3>1, NoResultType
    <3> QED BY <3>2, <3>3
  <2>3. /\ wpc' \in [Writers -> {"idle", "drain", "insert", "single", "reply"}]
        /\ todo' \in [Writers -> SUBSET Nat]
        /\ fresh' \in [Writers -> SUBSET Ids]
    BY <1>0, <2>1 DEF TypeInv, TypeOK
  <2>4. TypeOK'
    BY <2>1, <2>2, <2>3 DEF TypeInv, TypeOK
  <2>5. RequestInv'
    BY <1>0, <2>1 DEF TypeInv, TypeOK, RequestInv
  <2>6. HandlerInv'
    BY <2>1 DEF TypeInv, HandlerInv
  <2> QED BY <2>4, <2>5, <2>6 DEF TypeInv
<1>7. ASSUME NEW i \in todo[w], NEW f \in [Ids -> Nat],
             Deliver(w, i, f), Advance(w, i),
             UNCHANGED <<handlerVars, queue, fresh>>,
             row' \in [Ids -> Nat], lastSeq' \in Nat, faulted' \in BOOLEAN
      PROVE  TypeInv'
  <2>1. batch[w][i].id \in Ids
    BY TodoRequest
  <2>2. reply' \in [Conns -> [Calls -> Nat \cup {NoReply}]]
    BY <1>7, <2>1, WaitersInBatch, AnswerType DEF Deliver
  <2>3. TypeOK'
    BY <1>7, <2>2, AdvanceType DEF TypeInv, TypeOK
  <2>4. RequestInv'
    <3>1. \A v \in Writers : \A j \in DOMAIN batch'[v] :
             asked[batch'[v][j].conn][batch'[v][j].call] = batch'[v][j].id
      <4>1. \A v \in Writers : batch'[v] = batch[v] \/ batch'[v] = << >>
        BY <1>7, AdvanceType
      <4> QED BY <4>1 DEF TypeInv, RequestInv
    <3>2. \A v \in Writers : /\ todo'[v] \subseteq DOMAIN batch'[v]
                             /\ wpc'[v] \in {"idle", "drain"} => todo'[v] = {}
      BY <1>7, AdvanceType
    <3> QED BY <1>7, <3>1, <3>2 DEF TypeInv, RequestInv
  <2>5. HandlerInv'
    BY <1>7 DEF TypeInv, HandlerInv
  <2> QED BY <2>3, <2>4, <2>5 DEF TypeInv
<1>8. CASE DeliverResult(w)
  <2>1. PICK i \in todo[w] : Deliver(w, i, got[w]) /\ Advance(w, i)
    BY <1>8 DEF DeliverResult
  <2>2. UNCHANGED <<handlerVars, queue, fresh, dbVars, faulted>>
    BY <1>8 DEF DeliverResult
  <2>3. /\ row' \in [Ids -> Nat] /\ lastSeq' \in Nat /\ faulted' \in BOOLEAN
        /\ got[w] \in [Ids -> Nat]
    BY <2>2 DEF TypeInv, TypeOK
  <2> QED BY <1>7, <2>1, <2>2, <2>3
<1>9. CASE SingleRow(w)
  <2>1. PICK i \in todo[w] :
           /\ row' = IF batch[w][i].id \in Bad \/ row[batch[w][i].id] # 0 THEN row
                     ELSE [row EXCEPT ![batch[w][i].id] = lastSeq + 1]
           /\ lastSeq' = IF batch[w][i].id \in Bad THEN lastSeq ELSE lastSeq + 1
           /\ Deliver(w, i, row')
           /\ Advance(w, i)
    BY <1>9 DEF SingleRow
  <2>2. UNCHANGED <<handlerVars, queue, fresh, faulted>>
    BY <1>9 DEF SingleRow
  <2>3. row' \in [Ids -> Nat] /\ lastSeq' \in Nat /\ faulted' \in BOOLEAN
    <3>1. lastSeq + 1 \in Nat /\ row \in [Ids -> Nat] /\ lastSeq \in Nat
      BY DEF TypeInv, TypeOK
    <3> QED BY <2>1, <2>2, <3>1 DEF TypeInv, TypeOK
  <2> QED BY <1>7, <2>1, <2>2, <2>3
<1>10. CASE SingleRowFailure(w)
  <2>1. PICK i \in todo[w] :
           /\ \/ UNCHANGED dbVars
              \/ /\ lastSeq' = lastSeq + 1
                 /\ row' = [row EXCEPT ![batch[w][i].id] = lastSeq + 1]
           /\ Deliver(w, i, NoResult)
           /\ Advance(w, i)
    BY <1>10 DEF SingleRowFailure
  <2>2. UNCHANGED <<handlerVars, queue, fresh>> /\ faulted' = TRUE
    BY <1>10 DEF SingleRowFailure
  <2>3. row' \in [Ids -> Nat] /\ lastSeq' \in Nat /\ faulted' \in BOOLEAN
    <3>1. lastSeq + 1 \in Nat /\ row \in [Ids -> Nat] /\ lastSeq \in Nat
      BY DEF TypeInv, TypeOK
    <3>2. faulted' \in BOOLEAN
      BY <2>2
    <3>3. CASE UNCHANGED dbVars
      BY <3>1, <3>2, <3>3
    <3>4. CASE /\ lastSeq' = lastSeq + 1
               /\ row' = [row EXCEPT ![batch[w][i].id] = lastSeq + 1]
      BY <3>1, <3>2, <3>4
    <3> QED BY <2>1, <3>3, <3>4
  <2> QED BY <1>7, <2>1, <2>2, <2>3, NoResultType
<1>11. CASE Panic(w)
  <2>1. reply' \in [Conns -> [Calls -> Nat \cup {NoReply}]]
    <3> DEFINE S == {a \in InBatch(w) : reply[a[1]][a[2]] = NoReply}
    <3>1. reply' = Answer(S, NoResult) /\ S \in SUBSET InBatch(w)
      BY <1>11 DEF Panic
    <3> QED BY <3>1, AnswerType, NoResultType
  <2>2. batch' \in [Writers -> Seq(Request)]
    <3>1. batch' = [batch EXCEPT ![w] = << >>]
      BY <1>11 DEF Panic
    <3>2. << >> \in Seq(Request) /\ batch \in [Writers -> Seq(Request)]
      BY DEF TypeInv, TypeOK
    <3> QED BY <3>1, <3>2
  <2>3. /\ wpc' \in [Writers -> {"idle", "drain", "insert", "single", "reply"}]
        /\ todo' \in [Writers -> SUBSET Nat]
        /\ fresh' \in [Writers -> SUBSET Ids]
        /\ got' \in [Writers -> [Ids -> Nat]]
    BY <1>11, NoResultType DEF Panic, TypeInv, TypeOK
  <2>4. TypeOK'
    BY <1>11, <2>1, <2>2, <2>3 DEF Panic, TypeInv, TypeOK
  <2>5. RequestInv'
    BY <1>11 DEF Panic, TypeInv, TypeOK, RequestInv
  <2>6. HandlerInv'
    BY <1>11 DEF Panic, TypeInv, HandlerInv
  <2> QED BY <2>4, <2>5, <2>6 DEF TypeInv
<1> QED BY <1>1, <1>2, <1>3, <1>4, <1>6, <1>8, <1>9, <1>10, <1>11 DEF Writer

LEMMA TypeStep == TypeInv /\ [Next]_vars => TypeInv'
<1>1. TypeInv /\ UNCHANGED vars => TypeInv'
  BY DEF vars, TypeInv, TypeOK, RequestInv, HandlerInv
<1> QED BY <1>1, HandlerType, WriterType DEF Next

\* Every variable of the pipeline keeps its type, and the requests that are
\* on their way stay the calls they were made for.
THEOREM TypeInvHolds == Spec => []TypeInv
BY InitType, TypeStep, PTL DEF Spec

\* Every variable holds values of its type (TypeOK).
THEOREM TypeCorrect == Spec => []TypeOK
<1>1. TypeInv => TypeOK
  BY DEF TypeInv
<1> QED BY <1>1, TypeInvHolds, PTL
-----------------------------------------------------------------------------
(***************************************************************************)
(* Seqs.  A seq is handed out once: to a committed row or to a row of an   *)
(* open statement, and no two open statements hold the same id.            *)
(***************************************************************************)
Asked(m) == \E c \in Conns, k \in Calls : asked[c][k] = m

\* The rows that are there.
RowInv ==
    /\ \A m \in Ids : row[m] <= lastSeq
    /\ \A m, o \in Ids : row[m] = row[o] /\ row[m] > 0 => m = o

\* The rows of an open statement, and those of two open statements.
FreshOf(w) ==
    /\ wpc[w] # "insert" => fresh[w] = {}
    /\ \A m \in fresh[w] :
          /\ row[m] = 0 /\ m \notin Bad /\ Asked(m)
          /\ 0 < got[w][m] /\ got[w][m] <= lastSeq
          /\ \A o \in Ids : row[o] # got[w][m]
          /\ \A o \in fresh[w] : got[w][o] = got[w][m] => o = m

Apart(v, w) ==
    \A m \in fresh[v], o \in fresh[w] : m # o /\ got[v][m] # got[w][o]

FreshInv ==
    /\ \A w \in Writers : FreshOf(w)
    /\ \A v, w \in Writers : v # w => Apart(v, w)

\* What a statement has returned for an id is the seq of its row, present or
\* about to be.
GotInv ==
    \A w \in Writers, m \in Ids :
        got[w][m] > 0 => m \in fresh[w] \/ row[m] = got[w][m]

SeqInv == RowInv /\ FreshInv /\ GotInv

\* A step adds rows only: of ids that were asked for, and good ones.
NewRows ==
    \A m \in Ids : row'[m] # row[m] => row[m] = 0 /\ m \notin Bad /\ Asked(m)

\* Steps that touch neither rows nor statements.
LEMMA QuietStep ==
    ASSUME TypeInv, SeqInv, UNCHANGED <<row, lastSeq, got, fresh>>,
           \A v \in Writers : wpc[v] = "insert" => wpc'[v] = "insert",
           \A m \in Ids : Asked(m) => Asked(m)'
    PROVE  SeqInv'
<1>1. RowInv' /\ GotInv'
  BY DEF SeqInv, RowInv, GotInv
<1>2. ASSUME NEW w \in Writers PROVE FreshOf(w)'
  <2>1. fresh[w] \subseteq Ids
    BY DEF TypeInv, TypeOK
  <2> QED BY <2>1 DEF SeqInv, FreshInv, FreshOf
<1>3. ASSUME NEW v \in Writers, NEW w \in Writers, v # w PROVE Apart(v, w)'
  BY <1>3 DEF SeqInv, FreshInv, Apart
<1> QED BY <1>1, <1>2, <1>3 DEF SeqInv, FreshInv

\* The end of an open statement, be it a commit or a rollback; only after a
\* commit may the writer keep what the statement returned.
LEMMA EndOfStatement ==
    ASSUME TypeInv, SeqInv, NEW w \in Writers, NEW l,
           UNCHANGED <<asked, lastSeq>>,
           fresh' = [fresh EXCEPT ![w] = {}],
           wpc' = [wpc EXCEPT ![w] = l],
           \/ row' = Committed(w) /\ got' = got
           \/ row' \in {row, Committed(w)} /\ got' = [got EXCEPT ![w] = NoResult]
    PROVE  SeqInv' /\ NewRows
<1>1. \A v \in Writers \ {w} :
         got'[v] = got[v] /\ fresh'[v] = fresh[v] /\ wpc'[v] = wpc[v]
  BY DEF TypeInv, TypeOK
<1>2. fresh'[w] = {} /\ \A v \in Writers : fresh[v] \subseteq Ids
  BY DEF TypeInv, TypeOK
<1>3. \A m \in Ids : row'[m] = row[m] \/ (m \in fresh[w] /\ row'[m] = got[w][m])
  <2>1. row' = row \/ row' = Committed(w)
    OBVIOUS
  <2>2. \A m \in Ids : Committed(w)[m] = row[m] \/ (m \in fresh[w] /\ Committed(w)[m] = got[w][m])
    BY DEF Committed
  <2> QED BY <2>1, <2>2
<1>4. NewRows
  BY <1>3 DEF NewRows, SeqInv, FreshInv, FreshOf
<1>5. RowInv'
  <2>1. \A m \in Ids : row'[m] <= lastSeq
    BY <1>3 DEF SeqInv, RowInv, FreshInv, FreshOf
  <2>2. \A m, o \in Ids : row'[m] = row'[o] /\ row'[m] > 0 => m = o
    BY <1>3 DEF SeqInv, RowInv, FreshInv, FreshOf
  <2> QED BY <2>1, <2>2 DEF RowInv
<1>6. FreshInv'
  <2>1. ASSUME NEW v \in Writers PROVE FreshOf(v)'
    <3>1. CASE v = w
      BY <1>2, <3>1 DEF FreshOf
    <3>2. CASE v # w
      <4>1. FreshOf(v) /\ Apart(v, w) /\ fresh[v] \subseteq Ids
        BY <1>2, <3>2 DEF SeqInv, FreshInv
      <4>2. UNCHANGED <<fresh[v], got[v], wpc[v], lastSeq, asked>>
        BY <1>1, <3>2
      <4>3. \A m \in fresh[v] : row'[m] = 0 /\ \A o \in Ids : row'[o] # got[v][m]
        BY <1>3, <4>1 DEF FreshOf, Apart
      <4> QED BY <4>1, <4>2, <4>3 DEF FreshOf, Asked
    <3> QED BY <3>1, <3>2
  <2>2. ASSUME NEW u \in Writers, NEW v \in Writers, u # v PROVE Apart(u, v)'
    BY <1>1, <1>2, <2>2 DEF SeqInv, FreshInv, Apart
  <2> QED BY <2>1, <2>2 DEF FreshInv
<1>7. GotInv'
  <2> SUFFICES ASSUME NEW v \in Writers, NEW m \in Ids, got'[v][m] > 0
               PROVE  m \in fresh'[v] \/ row'[m] = got'[v][m]
    BY DEF GotInv
  <2>1. CASE v # w
    <3>1. got'[v] = got[v] /\ fresh'[v] = fresh[v] /\ got[v] \in [Ids -> Nat]
      BY <1>1, <2>1 DEF TypeInv, TypeOK
    <3> QED BY <1>4, <3>1 DEF NewRows, SeqInv, GotInv
  <2>2. CASE v = w /\ got' = got
    <3>1. row' = Committed(w)
      BY <2>2 DEF NoResult, Failed, TypeInv, TypeOK
    <3> QED BY <2>2, <3>1 DEF SeqInv, GotInv, Committed
  <2>3. CASE v = w /\ got' = [got EXCEPT ![w] = NoResult]
    BY <2>3 DEF NoResult, Failed, TypeInv, TypeOK
  <2> QED BY <2>1, <2>2, <2>3
<1> QED BY <1>4, <1>5, <1>6, <1>7 DEF SeqInv


\* A statement takes one more row.
LEMMA RowOfStatement ==
    ASSUME TypeInv, SeqInv, NEW w \in Writers, InsertRow(w)
    PROVE  SeqInv' /\ NewRows
<1>1. PICK i \in todo[w] :
         /\ batch[w][i].id \notin Bad
         /\ ~ Locked(w, batch[w][i].id)
         /\ lastSeq' = lastSeq + 1
         /\ got' = [got EXCEPT ![w][batch[w][i].id] =
                       IF row[batch[w][i].id] = 0 THEN lastSeq + 1
                                                  ELSE row[batch[w][i].id]]
         /\ fresh' = [fresh EXCEPT ![w] = IF row[batch[w][i].id] = 0
                                          THEN @ \cup {batch[w][i].id} ELSE @]
  BY DEF InsertRow
<1> DEFINE m == batch[w][i].id
<1>2. m \in Ids /\ Asked(m)
  <2>1. batch[w][i] \in Request /\ i \in DOMAIN batch[w]
    BY TodoRequest DEF TypeInv, RequestInv
  <2> QED BY <2>1, TodoRequest DEF TypeInv, RequestInv, Asked, Request
<1>3. /\ UNCHANGED <<asked, row, wpc>> /\ wpc[w] = "insert"
      /\ \A v \in Writers \ {w} : got'[v] = got[v] /\ fresh'[v] = fresh[v]
      /\ \A o \in Ids \ {m} : got'[w][o] = got[w][o]
      /\ \A v \in Writers : fresh[v] \subseteq Ids
  BY <1>1 DEF InsertRow, handlerVars, TypeInv, TypeOK
<1>4. lastSeq \in Nat /\ got[w][m] \in Nat /\ row[m] \in Nat
  BY <1>2 DEF TypeInv, TypeOK
<1>5. RowInv' /\ NewRows
  BY <1>1, <1>3, <1>4 DEF SeqInv, RowInv, NewRows, TypeInv, TypeOK
<1>6. CASE row[m] = 0
  <2>1. got'[w][m] = lastSeq + 1 /\ fresh'[w] = fresh[w] \cup {m}
    BY <1>1, <1>2, <1>6 DEF TypeInv, TypeOK
  <2>2. \A o \in Ids : row[o] <= lastSeq
    BY DEF SeqInv, RowInv
  <2>3. FreshOf(w)'
    <3>1. \A o \in fresh[w] : got[w][o] <= lastSeq
      BY DEF SeqInv, FreshInv, FreshOf
    <3>2. \A o \in fresh'[w] : /\ row[o] = 0 /\ o \notin Bad /\ Asked(o)
                               /\ 0 < got'[w][o] /\ got'[w][o] <= lastSeq + 1
                               /\ \A n \in Ids : row[n] # got'[w][o]
      BY <1>1, <1>2, <1>3, <1>4, <1>6, <2>1, <2>2
         DEF SeqInv, FreshInv, FreshOf, TypeInv, TypeOK
    <3>3. \A n, o \in fresh'[w] : got'[w][n] = got'[w][o] => n = o
      BY <1>3, <1>4, <2>1, <3>1 DEF SeqInv, FreshInv, FreshOf, TypeInv, TypeOK
    <3> QED BY SMTT(30), <1>1, <1>3, <3>2, <3>3 DEF FreshOf, Asked
  <2>4. ASSUME NEW v \in Writers \ {w}
        PROVE  FreshOf(v)' /\ Apart(v, w)' /\ Apart(w, v)'
    <3>1. FreshOf(v) /\ Apart(v, w) /\ Apart(w, v) /\ m \notin fresh[v]
      BY <1>1 DEF SeqInv, FreshInv, Locked
    <3>2. \A o \in fresh[v] : got[v][o] <= lastSeq /\ got[v][o] \in Nat
      BY <1>3, <3>1 DEF FreshOf, TypeInv, TypeOK
    <3>3. FreshOf(v)'
      BY <1>1, <1>3, <1>4, <3>1, <3>2 DEF FreshOf, Asked
    <3>4. \A o \in fresh'[w], n \in fresh[v] : o # n /\ got'[w][o] # got[v][n]
      BY <1>3, <1>4, <2>1, <3>1, <3>2 DEF Apart
    <3> QED BY <1>3, <3>3, <3>4 DEF Apart
  <2>5. FreshInv'
    BY <1>3, <2>3, <2>4 DEF FreshInv, SeqInv, Apart
  <2>6. GotInv'
    BY <1>2, <1>3, <2>1 DEF SeqInv, GotInv
  <2> QED BY <1>5, <2>5, <2>6 DEF SeqInv
<1>7. CASE row[m] # 0
  <2>1. got'[w][m] = row[m] /\ UNCHANGED fresh /\ \A v \in Writers : fresh'[v] = fresh[v]
    BY <1>1, <1>2, <1>7 DEF TypeInv, TypeOK
  <2>2. m \notin fresh[w]
    BY <1>7 DEF SeqInv, FreshInv, FreshOf
  <2>3. \A v \in Writers : \A o \in fresh[v] : got'[v][o] = got[v][o] /\ got[v][o] \in Nat
    BY <1>3, <2>2 DEF TypeInv, TypeOK
  <2>4. FreshInv'
    <3>1. ASSUME NEW v \in Writers PROVE FreshOf(v)'
      BY SMTT(30), <1>1, <1>3, <1>4, <2>1, <2>3 DEF SeqInv, FreshInv, FreshOf, Asked
    <3>2. ASSUME NEW u \in Writers, NEW v \in Writers, u # v PROVE Apart(u, v)'
      BY <2>1, <2>3, <3>2 DEF SeqInv, FreshInv, Apart
    <3> QED BY <3>1, <3>2 DEF FreshInv
  <2>5. GotInv'
    BY <1>2, <1>3, <2>1 DEF SeqInv, GotInv
  <2> QED BY <1>5, <2>4, <2>5 DEF SeqInv
<1> QED BY <1>6, <1>7

\* Outside a statement of its own, a writer answers, and may first have had
\* one row committed.
LEMMA RowOnItsOwn ==
    ASSUME TypeInv, SeqInv, NEW w \in Writers, NEW i, Advance(w, i),
           wpc[w] # "insert", UNCHANGED <<asked, fresh>>,
           NEW m \in Ids, m \notin Bad => Asked(m),
           \/ row' = row /\ lastSeq' \in {lastSeq, lastSeq + 1}
           \/ /\ m \notin Bad /\ row[m] = 0 /\ ~ Locked(w, m)
              /\ lastSeq' = lastSeq + 1
              /\ row' = [row EXCEPT ![m] = lastSeq + 1]
    PROVE  SeqInv' /\ NewRows
<1>1. /\ lastSeq \in Nat /\ lastSeq' \in Nat /\ lastSeq <= lastSeq'
      /\ \A o \in Ids : row[o] \in Nat
      /\ \A v \in Writers : fresh[v] \subseteq Ids
  BY DEF TypeInv, TypeOK
<1>2. /\ \A v \in Writers \ {w} : got'[v] = got[v] /\ wpc'[v] = wpc[v]
      /\ got'[w] = got[w] \/ got'[w] = NoResult
      /\ fresh[w] = {} /\ wpc'[w] # "insert"
  BY DEF Advance, TypeInv, TypeOK, SeqInv, FreshInv, FreshOf
<1>3. \A v \in Writers : m \in fresh[v] => row' = row
  BY <1>2 DEF Locked
<1>4. \A o \in Ids : \/ row'[o] = row[o]
                     \/ /\ o = m /\ m \notin Bad /\ row[o] = 0
                        /\ row'[o] = lastSeq + 1 /\ lastSeq' = lastSeq + 1
  BY DEF TypeInv, TypeOK
<1>5. NewRows
  BY <1>4 DEF NewRows
<1>6. RowInv'
  <2>1. \A o \in Ids : row'[o] <= lastSeq'
    BY <1>1, <1>4 DEF SeqInv, RowInv
  <2>2. \A n, o \in Ids : row'[n] = row'[o] /\ row'[n] > 0 => n = o
    BY <1>1, <1>4 DEF SeqInv, RowInv
  <2> QED BY <2>1, <2>2 DEF RowInv
<1>7. FreshInv'
  <2>1. ASSUME NEW v \in Writers PROVE FreshOf(v)'
    <3>1. CASE v = w
      BY <1>2, <3>1 DEF FreshOf
    <3>2. CASE v # w
      <4>1. FreshOf(v) /\ got'[v] = got[v] /\ wpc'[v] = wpc[v]
        BY <1>2, <3>2 DEF SeqInv, FreshInv
      <4>2. \A o \in fresh[v] : got[v][o] \in Nat /\ got[v][o] <= lastSeq
        BY <1>1, <4>1 DEF FreshOf, TypeInv, TypeOK
      <4>3. \A o \in fresh[v] : row'[o] = 0 /\ \A n \in Ids : row'[n] # got[v][o]
        BY <1>1, <1>3, <1>4, <4>1, <4>2 DEF FreshOf
      <4> QED BY <1>1, <4>1, <4>2, <4>3 DEF FreshOf, Asked
    <3> QED BY <3>1, <3>2
  <2>2. ASSUME NEW u \in Writers, NEW v \in Writers, u # v PROVE Apart(u, v)'
    BY <1>2, <2>2 DEF SeqInv, FreshInv, Apart
  <2> QED BY <2>1, <2>2 DEF FreshInv
<1>8. GotInv'
  <2> SUFFICES ASSUME NEW v \in Writers, NEW o \in Ids, got'[v][o] > 0
               PROVE  o \in fresh[v] \/ row'[o] = got'[v][o]
    BY DEF GotInv
  <2>1. got'[v][o] = got[v][o]
    BY <1>2 DEF NoResult, Failed
  <2>2. o \in fresh[v] \/ (row[o] = got[v][o] /\ row[o] > 0)
    BY <2>1 DEF SeqInv, GotInv
  <2> QED BY <1>1, <1>4, <2>1, <2>2
<1> QED BY <1>5, <1>6, <1>7, <1>8 DEF SeqInv


\* Nobody forgets what it asked for.
LEMMA AskedStays ==
    ASSUME TypeInv, [Next]_vars
    PROVE  \A c \in Conns, k \in Calls :
              asked[c][k] \in Ids => asked'[c][k] = asked[c][k]
<1>1. ASSUME NEW c \in Conns, NEW m \in Sends[c], Call(c, m)
      PROVE  \A d \in Conns, k \in Calls :
                asked[d][k] \in Ids => asked'[d][k] = asked[d][k]
  <2>1. calls[c] + 1 \in Calls /\ calls[c] + 1 > calls[c]
    BY <1>1, MsgWriterAssumption DEF Call, Calls, TypeInv, TypeOK
  <2>2. asked[c][calls[c] + 1] \notin Ids
    BY <2>1, MsgWriterAssumption DEF TypeInv, HandlerInv
  <2> QED BY <1>1, <2>1, <2>2 DEF Call, TypeInv, TypeOK
<1>2. ASSUME NEW c \in Conns, Handler(c), \A m \in Sends[c] : ~ Call(c, m)
      PROVE  asked' = asked
  BY <1>2 DEF Handler, Enqueue, EnqueueTimeout, ReceiveReply, ReplyTimeout, Return
<1>3. ASSUME NEW w \in Writers, Writer(w)
      PROVE  asked' = asked
  BY <1>3 DEF Writer, TakeFirst, Drain, BeginInsert, InsertRow, Commit,
       RowLevelFailure, InfrastructureFailure, DeliverResult, SingleRow,
       SingleRowFailure, Panic, handlerVars
<1> QED BY <1>1, <1>2, <1>3 DEF Next, vars

LEMMA SeqStep ==
    ASSUME TypeInv, SeqInv, [Next]_vars
    PROVE  SeqInv' /\ NewRows
<1> USE DEF handlerVars, writerVars, dbVars
<1>1. \A m \in Ids : Asked(m) => Asked(m)'
  BY AskedStays DEF Asked
<1>2. CASE UNCHANGED vars
  BY <1>1, <1>2, QuietStep DEF vars, NewRows
<1>3. ASSUME NEW c \in Conns, Handler(c)
      PROVE  SeqInv' /\ NewRows
  <2>1. UNCHANGED <<row, lastSeq, got, fresh, wpc>>
    BY <1>3 DEF Handler, Call, Enqueue, EnqueueTimeout, ReceiveReply,
         ReplyTimeout, Return
  <2> QED BY <1>1, <2>1, QuietStep DEF NewRows
<1>4. ASSUME NEW w \in Writers, Writer(w)
      PROVE  SeqInv' /\ NewRows
  <2>1. CASE TakeFirst(w) \/ Drain(w) \/ BeginInsert(w)
    <3>1. UNCHANGED <<row, lastSeq, got, fresh>>
      BY <2>1 DEF TakeFirst, Drain, BeginInsert
    <3>2. \A v \in Writers : wpc[v] = "insert" => wpc'[v] = "insert"
      BY <2>1 DEF TakeFirst, Drain, BeginInsert, TypeInv, TypeOK
    <3> QED BY <1>1, <3>1, <3>2, QuietStep DEF NewRows
  <2>2. CASE InsertRow(w)
    BY <2>2, RowOfStatement
  <2>3. CASE Commit(w)
    BY <2>3, EndOfStatement DEF Commit
  <2>4. CASE RowLevelFailure(w)
    BY <2>4, EndOfStatement DEF RowLevelFailure
  <2>5. CASE InfrastructureFailure(w)
    BY <2>5, EndOfStatement DEF InfrastructureFailure
  <2>6. CASE Panic(w)
    BY <2>6, EndOfStatement DEF Panic
  <2>7. \A i \in todo[w] : batch[w][i].id \in Ids /\ Asked(batch[w][i].id)
    <3> SUFFICES ASSUME NEW i \in todo[w]
                 PROVE  batch[w][i].id \in Ids /\ Asked(batch[w][i].id)
      OBVIOUS
    <3>1. batch[w][i] \in Request /\ i \in DOMAIN batch[w] /\ batch[w][i].id \in Ids
      BY TodoRequest DEF TypeInv, RequestInv
    <3> QED BY <3>1 DEF TypeInv, RequestInv, Asked, Request
  <2>8. CASE DeliverResult(w)
    <3>1. PICK i \in todo[w] : Advance(w, i)
      BY <2>8 DEF DeliverResult
    <3> QED BY <2>7, <2>8, <3>1, RowOnItsOwn DEF DeliverResult
  <2>9. CASE SingleRow(w)
    <3>1. PICK i \in todo[w] :
             /\ batch[w][i].id \notin Bad => ~ Locked(w, batch[w][i].id)
             /\ row' = IF batch[w][i].id \in Bad \/ row[batch[w][i].id] # 0 THEN row
                       ELSE [row EXCEPT ![batch[w][i].id] = lastSeq + 1]
             /\ lastSeq' = IF batch[w][i].id \in Bad THEN lastSeq ELSE lastSeq + 1
             /\ Advance(w, i)
      BY <2>9 DEF SingleRow
    <3> QED BY <2>7, <2>9, <3>1, RowOnItsOwn DEF SingleRow
  <2>10. CASE SingleRowFailure(w)
    <3>1. PICK i \in todo[w] :
             /\ batch[w][i].id \notin Bad
             /\ \/ UNCHANGED dbVars
                \/ /\ row[batch[w][i].id] = 0 /\ ~ Locked(w, batch[w][i].id)
                   /\ lastSeq' = lastSeq + 1
                   /\ row' = [row EXCEPT ![batch[w][i].id] = lastSeq + 1]
             /\ Advance(w, i)
      BY <2>10 DEF SingleRowFailure
    <3> QED BY <2>7, <2>10, <3>1, RowOnItsOwn DEF SingleRowFailure
  <2> QED BY <1>4, <2>1, <2>2, <2>3, <2>4, <2>5, <2>6, <2>8, <2>9, <2>10 DEF Writer
<1> QED BY <1>2, <1>3, <1>4 DEF Next

LEMMA InitSeq == Init => SeqInv
BY DEF Init, SeqInv, RowInv, FreshInv, FreshOf, Apart, GotInv, NoResult, Failed

\* A seq is handed out once, whatever fails (the UNIQUE seq of messages).
THEOREM SeqsAreUnique == Spec => []SeqInv
<1>1. TypeInv /\ SeqInv /\ [Next]_vars => SeqInv'
  BY SeqStep
<1> QED BY InitSeq, <1>1, TypeInvHolds, PTL DEF Spec

\* RowsAreStable: once committed, a row keeps its seq.
THEOREM RowsKeepTheirSeq == Spec => RowsAreStable
<1>1. TypeInv /\ SeqInv /\ [Next]_vars =>
         [\A m \in Ids : row[m] # 0 => row'[m] = row[m]]_row
  BY SeqStep DEF NewRows
<1> QED BY <1>1, TypeInvHolds, SeqsAreUnique, PTL DEF Spec, RowsAreStable
-----------------------------------------------------------------------------
(***************************************************************************)
(* Answers.  What was put into a reply channel, and what saveMessage       *)
(* returned, is the seq of the committed row.                              *)
(***************************************************************************)
AnswerOk(v, m) == v > 0 => m \in Ids /\ row[m] = v

AckInv ==
    \A c \in Conns, k \in Calls :
        AnswerOk(reply[c][k], asked[c][k]) /\ AnswerOk(verdict[c][k], asked[c][k])

\* An answer that was right stays right.
LEMMA AnswersStay ==
    ASSUME TypeInv, SeqInv, AckInv, [Next]_vars, NEW c \in Conns, NEW k \in Calls
    PROVE  /\ AnswerOk(reply[c][k], asked[c][k])'
              \/ reply'[c][k] # reply[c][k]
           /\ AnswerOk(verdict[c][k], asked[c][k])'
              \/ verdict'[c][k] # verdict[c][k]
BY AskedStays, SeqStep DEF AckInv, AnswerOk, NewRows

\* The new values of a round of answers are right when f is.
LEMMA NewAnswers ==
    ASSUME TypeInv, NEW w \in Writers, NEW S \in SUBSET InBatch(w), NEW f,
           asked' = asked, reply' = Answer(S, f),
           \A m \in Ids : f[m] > 0 => row'[m] = f[m],
           NEW c \in Conns, NEW k \in Calls, reply'[c][k] # reply[c][k]
    PROVE  AnswerOk(reply[c][k], asked[c][k])'
<1>1. <<c, k>> \in S /\ reply'[c][k] = f[asked[c][k]]
  BY DEF Answer
<1>2. asked[c][k] \in Ids
  BY <1>1, BatchCalls
<1> QED BY <1>1, <1>2 DEF AnswerOk

LEMMA AckStep ==
    ASSUME TypeInv, SeqInv, AckInv, [Next]_vars
    PROVE  AckInv'
<1> USE DEF handlerVars, writerVars, dbVars
<1>1. ASSUME UNCHANGED <<reply, verdict>>
      PROVE  AckInv'
  BY <1>1, AnswersStay DEF AckInv
<1>2. ASSUME NEW c \in Conns, NEW v, Return(c, v), hpc[c] # "idle",
             v = Failed \/ v = reply[c][calls[c]]
      PROVE  AckInv'
  <2>1. calls[c] \in Calls /\ UNCHANGED <<reply, asked, row>>
    BY <1>2 DEF Return, TypeInv, HandlerInv
  <2>2. \A d \in Conns, k \in Calls :
           verdict'[d][k] # verdict[d][k] => d = c /\ k = calls[c] /\ verdict'[d][k] = v
    BY <1>2, <2>1 DEF Return, TypeInv, TypeOK
  <2>3. AnswerOk(v, asked[c][calls[c]])
    BY <1>2, <2>1 DEF AckInv, AnswerOk, Failed
  <2> QED BY <2>1, <2>2, <2>3, AnswersStay DEF AckInv, AnswerOk
<1>3. ASSUME NEW c \in Conns, Handler(c)
      PROVE  AckInv'
  <2>1. CASE \E m \in Sends[c] : Call(c, m)
    BY <1>1, <2>1 DEF Call
  <2>2. CASE Enqueue(c)
    BY <1>1, <2>2 DEF Enqueue
  <2>3. CASE EnqueueTimeout(c) \/ ReceiveReply(c) \/ ReplyTimeout(c)
    BY <1>2, <2>3 DEF EnqueueTimeout, ReceiveReply, ReplyTimeout
  <2> QED BY <1>3, <2>1, <2>2, <2>3 DEF Handler
<1>4. ASSUME NEW w \in Writers, NEW S \in SUBSET InBatch(w), NEW f,
             UNCHANGED handlerVars, reply' = Answer(S, f),
             \A m \in Ids : f[m] > 0 => row'[m] = f[m]
      PROVE  AckInv'
  <2>1. \A c \in Conns, k \in Calls :
           reply'[c][k] # reply[c][k] => AnswerOk(reply[c][k], asked[c][k])'
    BY <1>4, NewAnswers
  <2> QED BY <1>4, <2>1, AnswersStay DEF AckInv
<1>5. ASSUME NEW w \in Writers, Writer(w)
      PROVE  AckInv'
  <2>1. CASE TakeFirst(w) \/ Drain(w) \/ BeginInsert(w) \/ InsertRow(w) \/ Commit(w)
             \/ RowLevelFailure(w) \/ InfrastructureFailure(w)
    BY <1>1, <2>1 DEF TakeFirst, Drain, BeginInsert, InsertRow, Commit,
         RowLevelFailure, InfrastructureFailure
  <2>2. CASE DeliverResult(w)
    <3>1. PICK i \in todo[w] : reply' = Answer(Waiters(w, batch[w][i].id), got[w])
      BY <2>2 DEF DeliverResult, Deliver
    <3>2. fresh[w] = {} /\ row' = row /\ UNCHANGED handlerVars
      BY <2>2 DEF DeliverResult, SeqInv, FreshInv, FreshOf
    <3>3. \A m \in Ids : got[w][m] > 0 => row'[m] = got[w][m]
      BY <3>2 DEF SeqInv, GotInv
    <3> QED BY <1>4, <3>1, <3>2, <3>3 DEF Waiters
  <2>3. CASE SingleRow(w)
    <3>1. PICK i \in todo[w] : reply' = Answer(Waiters(w, batch[w][i].id), row')
      BY <2>3 DEF SingleRow, Deliver
    <3> QED BY <1>4, <2>3, <3>1 DEF SingleRow, Waiters
  <2>4. CASE SingleRowFailure(w)
    <3>1. PICK i \in todo[w] : reply' = Answer(Waiters(w, batch[w][i].id), NoResult)
      BY <2>4 DEF SingleRowFailure, Deliver
    <3> QED BY <1>4, <2>4, <3>1 DEF SingleRowFailure, Waiters, NoResult, Failed
  <2>5. CASE Panic(w)
    BY <1>4, <2>5 DEF Panic, NoResult, Failed
  <2> QED BY <1>5, <2>1, <2>2, <2>3, <2>4, <2>5 DEF Writer
<1> QED BY <1>1, <1>3, <1>5 DEF Next, vars

LEMMA InitAck == Init => AckInv
BY DEF Init, AckInv, AnswerOk, NoReply

THEOREM AnswersAreRight == Spec => []AckInv
<1>1. TypeInv /\ SeqInv /\ AckInv /\ [Next]_vars => AckInv'
  BY AckStep
<1> QED BY InitAck, <1>1, TypeInvHolds, SeqsAreUnique, PTL DEF Spec

\* AckedIsStored: what saveMessage acknowledges is stored, under that seq.
THEOREM AcknowledgedIsStored == Spec => []AckedIsStored
<1>1. AckInv => AckedIsStored
  BY DEF AckInv, AnswerOk, AckedIsStored
<1> QED BY <1>1, AnswersAreRight, PTL

-----------------------------------------------------------------------------
\* Every step of the pipeline is a step MessageStore allows, or none.
LEMMA StoreStep ==
    ASSUME TypeInv, SeqInv, AckInv, [Next]_vars
    PROVE  [Store!Next]_(Store!vars)
<1> USE DEF handlerVars, writerVars, dbVars
<1>1. ASSUME NEW c \in Conns, NEW m \in Sends[c], Call(c, m)
      PROVE  Store!Next
  <2>1. m \in Ids
    BY MsgWriterAssumption
  <2>2. calls[c] + 1 \in Calls /\ asked[c][calls[c] + 1] = NoId
    BY <1>1, MsgWriterAssumption DEF Call, Calls, TypeInv, TypeOK, HandlerInv
  <2>3. Store!Call(c, calls[c] + 1, m)
    BY <1>1, <2>2 DEF Call, Store!Call
  <2> QED BY <2>1, <2>2, <2>3 DEF Store!Next
<1>2. ASSUME NEW c \in Conns,
             EnqueueTimeout(c) \/ ReceiveReply(c) \/ ReplyTimeout(c)
      PROVE  Store!Next
  <2>1. hpc[c] # "idle"
    BY <1>2 DEF EnqueueTimeout, ReceiveReply, ReplyTimeout
  <2> DEFINE k == calls[c]
  <2>2. k \in Calls /\ asked[c][k] \in Ids /\ verdict[c][k] = NoReply
    BY <2>1 DEF TypeInv, HandlerInv
  <2>3. \E v \in {Failed, row[asked[c][k]]} : Return(c, v)
    <3>1. CASE ReceiveReply(c)
      <4>1. reply[c][k] \in Nat
        BY <2>2, <3>1 DEF ReceiveReply, TypeInv, TypeOK
      <4>2. reply[c][k] \in {Failed, row[asked[c][k]]}
        BY <2>2, <4>1 DEF AckInv, AnswerOk, Failed
      <4> QED BY <3>1, <4>2 DEF ReceiveReply
    <3>2. CASE EnqueueTimeout(c) \/ ReplyTimeout(c)
      BY <3>2 DEF EnqueueTimeout, ReplyTimeout
    <3> QED BY <1>2, <3>1, <3>2
  <2>4. Store!Return(c, k)
    BY <2>2, <2>3, MsgWriterAssumption DEF Return, Store!Return
  <2> QED BY <2>2, <2>4 DEF Store!Next
<1>3. CASE UNCHANGED <<asked, verdict>>
  <2>1. SeqInv' /\ NewRows /\ row' \in [Ids -> Nat]
    <3>1. TypeInv'
      BY TypeStep
    <3> QED BY <3>1, SeqStep DEF TypeInv, TypeOK
  <2>2. \A m, o \in Ids : row'[m] # row[m] /\ o # m => row'[o] # row'[m]
    BY <2>1 DEF SeqInv, RowInv, NewRows, TypeInv, TypeOK
  <2>3. Store!Store
    BY <1>3, <2>1, <2>2 DEF NewRows, Asked, Store!Store
  <2> QED BY <2>3 DEF Store!Next
<1>4. ASSUME NEW c \in Conns, Enqueue(c)
      PROVE  UNCHANGED <<asked, verdict>>
  BY <1>4 DEF Enqueue
<1>5. ASSUME NEW w \in Writers, Writer(w)
      PROVE  UNCHANGED <<asked, verdict>>
  BY <1>5 DEF Writer, TakeFirst, Drain, BeginInsert, InsertRow, Commit,
       RowLevelFailure, InfrastructureFailure, DeliverResult, SingleRow,
       SingleRowFailure, Panic
<1> QED BY <1>1, <1>2, <1>3, <1>4, <1>5 DEF Next, Handler, vars

\* The pipeline implements MessageStore: whatever the writers, the database
\* and the clocks do, callers see a store that keeps its promises.
THEOREM PipelineImplementsStore == Spec => StoreSpec
<1>1. Init => Store!Init
  BY DEF Init, Store!Init
<1>2. TypeInv /\ SeqInv /\ AckInv /\ [Next]_vars => [Store!Next]_(Store!vars)
  BY StoreStep
<1> QED BY <1>1, <1>2, TypeInvHolds, SeqsAreUnique, AnswersAreRight, PTL
        DEF Spec, StoreSpec, Store!Spec
-----------------------------------------------------------------------------
(***************************************************************************)
(* Order.  When a connection asks for an id nobody has asked for before,   *)
(* the id has no row and no open statement has inserted it, so its seq     *)
(* will be above all that were handed out by then; the seqs of the calls   *)
(* the connection has had answered are among those.                        *)
(***************************************************************************)
Above(m, v) ==
    /\ row[m] # 0 => row[m] > v
    /\ \A w \in Writers : m \in fresh[w] => got[w][m] > v

Rooted == \A m \in Ids : row[m] # 0 => m \notin Bad /\ Asked(m)

InOrder ==
    \A c \in Conns, j, k \in Calls :
        j < k /\ verdict[c][j] > 0 /\ asked[c][k] \in Ids
            /\ AskedFor(asked[c][k]) = {<<c, k>>}
        => Above(asked[c][k], verdict[c][j])

OrderInv == Rooted /\ InOrder

\* A seq that is yet to be handed out is above every one that has been.
LEMMA AboveStays ==
    ASSUME TypeInv, SeqInv, [Next]_vars, NEW m \in Ids, NEW v \in Nat, v <= lastSeq, Above(m, v)
    PROVE  Above(m, v)'
<1> USE DEF handlerVars, writerVars, dbVars
<1>0. /\ row \in [Ids -> Nat] /\ got \in [Writers -> [Ids -> Nat]]
      /\ fresh \in [Writers -> SUBSET Ids] /\ lastSeq \in Nat
      /\ \A w \in Writers : wpc[w] # "insert" => fresh[w] = {}
      /\ \A w \in Writers : m \in fresh[w] => row[m] = 0
  BY DEF TypeInv, TypeOK, SeqInv, FreshInv, FreshOf
<1>1. ASSUME UNCHANGED <<row, got, fresh>> PROVE Above(m, v)'
  BY <1>1 DEF Above
<1>2. ASSUME NEW w \in Writers, fresh' = [fresh EXCEPT ![w] = {}],
             row' \in {row, Committed(w)}, \A u \in Writers \ {w} : got'[u] = got[u]
      PROVE  Above(m, v)'
  <2>1. row'[m] = row[m] \/ (m \in fresh[w] /\ row'[m] = got[w][m])
    BY <1>2 DEF Committed
  <2> QED
    BY <1>0, <1>2, <2>1 DEF Above
<1>3. ASSUME NEW w \in Writers, NEW i, wpc[w] # "insert", Advance(w, i), fresh' = fresh,
             row'[m] = row[m] \/ row'[m] = lastSeq + 1
      PROVE  Above(m, v)'
  <2>1. fresh[w] = {} /\ \A u \in Writers \ {w} : got'[u] = got[u]
    BY <1>0, <1>3 DEF Advance
  <2> QED
    BY <1>0, <1>3, <2>1 DEF Above
<1>4. ASSUME NEW w \in Writers, InsertRow(w) PROVE Above(m, v)'
  <2>1. PICK i \in todo[w] :
           /\ got' = [got EXCEPT ![w][batch[w][i].id] =
                         IF row[batch[w][i].id] = 0 THEN lastSeq + 1
                                                    ELSE row[batch[w][i].id]]
           /\ fresh' = [fresh EXCEPT ![w] = IF row[batch[w][i].id] = 0
                                            THEN @ \cup {batch[w][i].id} ELSE @]
    BY <1>4 DEF InsertRow
  <2> DEFINE o == batch[w][i].id
  <2>2. o \in Ids /\ row' = row
    BY <1>4, TodoRequest DEF InsertRow
  <2>3. got'[w][m] = IF m = o THEN (IF row[o] = 0 THEN lastSeq + 1 ELSE row[o]) ELSE got[w][m]
    BY <1>0, <2>1, <2>2
  <2>4. m \in fresh'[w] => m \in fresh[w] \/ (m = o /\ row[o] = 0)
    BY <1>0, <2>1, <2>2
  <2>5. \A u \in Writers \ {w} : got'[u] = got[u] /\ fresh'[u] = fresh[u]
    BY <1>0, <2>1
  <2> HIDE DEF o
  <2> QED
    BY <1>0, <2>2, <2>3, <2>4, <2>5 DEF Above
<1>5. ASSUME NEW c \in Conns, Handler(c) PROVE Above(m, v)'
  BY <1>1, <1>5 DEF Handler, Call, Enqueue, EnqueueTimeout, ReceiveReply, ReplyTimeout, Return
<1>6. ASSUME NEW w \in Writers, Writer(w) PROVE Above(m, v)'
  <2>1. CASE TakeFirst(w) \/ Drain(w) \/ BeginInsert(w)
    BY <1>1, <2>1 DEF TakeFirst, Drain, BeginInsert
  <2>2. CASE Commit(w) \/ RowLevelFailure(w) \/ InfrastructureFailure(w) \/ Panic(w)
    BY <1>0, <1>2, <2>2 DEF Commit, RowLevelFailure, InfrastructureFailure, Panic
  <2>3. CASE DeliverResult(w)
    BY <1>3, <2>3 DEF DeliverResult
  <2>4. CASE SingleRow(w)
    <3>1. PICK i \in todo[w] :
             /\ row' = IF batch[w][i].id \in Bad \/ row[batch[w][i].id] # 0 THEN row
                       ELSE [row EXCEPT ![batch[w][i].id] = lastSeq + 1]
             /\ Advance(w, i)
      BY <2>4 DEF SingleRow
    <3>2. row'[m] = row[m] \/ row'[m] = lastSeq + 1
      BY <1>0, <3>1
    <3> QED
      BY <1>3, <2>4, <3>1, <3>2 DEF SingleRow
  <2>5. CASE SingleRowFailure(w)
    <3>1. PICK i \in todo[w] :
             /\ UNCHANGED dbVars \/ row' = [row EXCEPT ![batch[w][i].id] = lastSeq + 1]
             /\ Advance(w, i)
      BY <2>5 DEF SingleRowFailure
    <3>2. row'[m] = row[m] \/ row'[m] = lastSeq + 1
      BY <1>0, <3>1
    <3> QED
      BY <1>3, <2>5, <3>1, <3>2 DEF SingleRowFailure
  <2> QED
    BY <1>4, <1>6, <2>1, <2>2, <2>3, <2>4, <2>5 DEF Writer
<1> QED
  BY <1>1, <1>5, <1>6 DEF Next, vars

\* What one step does to a connection's calls: it makes the next one, or its
\* last one returns.
LEMMA CallsStep ==
    ASSUME TypeInv, [Next]_vars, NEW c \in Conns, NEW j \in Calls, NEW k \in Calls, j < k,
           asked'[c][k] \in Ids
    PROVE  /\ verdict'[c][j] = verdict[c][j]
           /\ \/ asked'[c][k] = asked[c][k]
              \/ asked[c][k] = NoId /\ \E m \in Sends[c] : Call(c, m) /\ asked'[c][k] = m
<1> USE DEF handlerVars, writerVars, dbVars
<1>1. CASE UNCHANGED <<asked, verdict>>
  BY <1>1
<1>2. ASSUME NEW d \in Conns, NEW m \in Sends[d], Call(d, m)
      PROVE  /\ verdict'[c][j] = verdict[c][j]
             /\ \/ asked'[c][k] = asked[c][k]
                \/ asked[c][k] = NoId /\ Call(c, m) /\ asked'[c][k] = m
  <2>1. calls[d] \in Nat /\ calls[d] + 1 \in Calls /\ asked \in [Conns -> [Calls -> Ids \cup {NoId}]]
        /\ verdict' = verdict /\ asked' = [asked EXCEPT ![d][calls[d] + 1] = m]
    BY <1>2, MsgWriterAssumption DEF Call, Calls, TypeInv, TypeOK
  <2>2. asked[d][calls[d] + 1] = NoId
    BY <2>1 DEF TypeInv, HandlerInv
  <2>3. asked'[c][k] = asked[c][k] \/ (c = d /\ k = calls[d] + 1 /\ asked'[c][k] = m)
    BY <2>1
  <2> QED
    BY <1>2, <2>1, <2>2, <2>3
<1>3. ASSUME NEW d \in Conns, NEW v, Return(d, v)
      PROVE  verdict'[c][j] = verdict[c][j] /\ asked'[c][k] = asked[c][k]
  <2>1. asked' = asked /\ verdict' = [verdict EXCEPT ![d][calls[d]] = v]
        /\ verdict \in [Conns -> [Calls -> Nat \cup {NoReply}]] /\ calls[d] \in Nat
    BY <1>3 DEF Return, TypeInv, TypeOK
  <2>2. d = c => ~ (k > calls[c])
    BY <2>1, MsgWriterAssumption DEF TypeInv, HandlerInv
  <2>3. d = c => calls[d] # j
    BY <2>1, <2>2 DEF Calls
  <2> QED
    BY <2>1, <2>3
<1>4. ASSUME NEW d \in Conns, Enqueue(d) PROVE UNCHANGED <<asked, verdict>>
  BY <1>4 DEF Enqueue
<1>5. ASSUME NEW w \in Writers, Writer(w) PROVE UNCHANGED <<asked, verdict>>
  BY <1>5 DEF Writer, TakeFirst, Drain, BeginInsert, InsertRow, Commit,
       RowLevelFailure, InfrastructureFailure, DeliverResult, SingleRow,
       SingleRowFailure, Panic
<1>6. ASSUME NEW d \in Conns, Handler(d)
      PROVE  /\ verdict'[c][j] = verdict[c][j]
             /\ \/ asked'[c][k] = asked[c][k]
                \/ asked[c][k] = NoId /\ \E m \in Sends[c] : Call(c, m) /\ asked'[c][k] = m
  <2>1. CASE \E m \in Sends[d] : Call(d, m)
    <3>1. PICK m \in Sends[d] : Call(d, m)
      BY <2>1
    <3>2. verdict'[c][j] = verdict[c][j]
          /\ (asked'[c][k] = asked[c][k] \/ (asked[c][k] = NoId /\ Call(c, m) /\ asked'[c][k] = m))
      BY <1>2, <3>1
    <3>3. Call(c, m) => c = d
      BY <3>1 DEF Call, TypeInv, TypeOK
    <3> QED
      BY <3>2, <3>3
  <2>2. CASE Enqueue(d)
    BY <1>1, <1>4, <2>2
  <2>3. CASE EnqueueTimeout(d) \/ ReceiveReply(d) \/ ReplyTimeout(d)
    BY <1>3, <2>3 DEF EnqueueTimeout, ReceiveReply, ReplyTimeout
  <2> QED
    BY <1>6, <2>1, <2>2, <2>3 DEF Handler
<1> QED
  BY <1>1, <1>5, <1>6 DEF Next, vars
LEMMA OrderStep ==
    ASSUME TypeInv, SeqInv, AckInv, OrderInv, [Next]_vars
    PROVE  OrderInv'
<1>0. asked \in [Conns -> [Calls -> Ids \cup {NoId}]] /\ NoId \notin Ids
      /\ verdict \in [Conns -> [Calls -> Nat \cup {NoReply}]]
      /\ row \in [Ids -> Nat] /\ lastSeq \in Nat
  BY MsgWriterAssumption DEF TypeInv, TypeOK
<1>1. NewRows
  BY SeqStep
<1>2. \A m \in Ids : Asked(m) => Asked(m)'
  BY AskedStays DEF Asked
<1>3. Rooted'
  <2> SUFFICES ASSUME NEW m \in Ids, row'[m] # 0 PROVE m \notin Bad /\ Asked(m)'
    BY DEF Rooted
  <2>1. CASE row'[m] = row[m]
    BY <1>2, <2>1 DEF OrderInv, Rooted
  <2>2. CASE row'[m] # row[m]
    BY <1>1, <1>2, <2>2 DEF NewRows
  <2> QED
    BY <2>1, <2>2
<1>4. ASSUME NEW c \in Conns, NEW j \in Calls, NEW k \in Calls, j < k,
             verdict'[c][j] > 0, asked'[c][k] \in Ids,
             AskedFor(asked[c][k])' = {<<c, k>>}
      PROVE  Above(asked[c][k], verdict[c][j])'
  <2>1. PICK m \in Ids, v \in Nat :
           /\ m = asked'[c][k] /\ v = verdict'[c][j] /\ v = verdict[c][j]
           /\ (m = asked[c][k] \/ (asked[c][k] = NoId /\ \E o \in Sends[c] : Call(c, o) /\ m = o))
    BY <1>0, <1>4, CallsStep DEF NoReply
  <2>2. v <= lastSeq
    <3>1. asked[c][j] \in Ids /\ row[asked[c][j]] = v
      BY <1>4, <2>1 DEF AckInv, AnswerOk
    <3> QED
      BY <3>1 DEF SeqInv, RowInv
  <2>3. \A e \in Conns, i \in Calls : asked'[e][i] = m => e = c /\ i = k
    <3>1. {a \in Conns \X Calls : asked'[a[1]][a[2]] = m} = {<<c, k>>}
      BY <1>4, <2>1 DEF AskedFor
    <3>2. ASSUME NEW e \in Conns, NEW i \in Calls, asked'[e][i] = m
          PROVE  <<e, i>> \in {a \in Conns \X Calls : asked'[a[1]][a[2]] = m}
      BY <3>2
    <3> QED
      BY <3>1, <3>2
  <2>4. \A e \in Conns, i \in Calls : asked[e][i] = m => e = c /\ i = k
    BY <2>1, <2>3, AskedStays
  <2>5. Above(m, v)
    <3>1. CASE m = asked[c][k]
      <4>1. AskedFor(m) = {<<c, k>>}
        BY <2>4, <3>1 DEF AskedFor
      <4> QED
        BY <1>4, <2>1, <3>1, <4>1 DEF OrderInv, InOrder
    <3>2. CASE asked[c][k] = NoId
      <4>1. ~ Asked(m)
        <5> SUFFICES ASSUME NEW e \in Conns, NEW i \in Calls, asked[e][i] = m PROVE FALSE
          BY DEF Asked
        <5>1. e = c /\ i = k
          BY <2>4
        <5> QED
          BY <1>0, <2>1, <3>2, <5>1
      <4>2. row[m] = 0 /\ \A w \in Writers : m \notin fresh[w]
        BY <2>1, <4>1 DEF OrderInv, Rooted, SeqInv, FreshInv, FreshOf
      <4> QED
        BY <4>2 DEF Above
    <3> QED
      BY <2>1, <3>1, <3>2
  <2>6. Above(m, v)'
    BY <2>2, <2>5, AboveStays
  <2> QED
    BY <2>1, <2>6 DEF Above
<1> QED
  BY <1>3, <1>4 DEF OrderInv, InOrder
LEMMA InitOrder == Init => OrderInv
<1> SUFFICES ASSUME Init PROVE OrderInv
  OBVIOUS
<1>1. \A c \in Conns, k \in Calls : verdict[c][k] = NoReply
  BY DEF Init
<1> QED
  BY <1>1 DEF Init, OrderInv, Rooted, InOrder, NoReply

LEMMA OrderInvHolds == Spec => []OrderInv
<1>1. TypeInv /\ SeqInv /\ AckInv /\ OrderInv /\ [Next]_vars => OrderInv'
  BY OrderStep
<1> QED
  BY InitOrder, <1>1, TypeInvHolds, SeqsAreUnique, AnswersAreRight, PTL DEF Spec

\* SenderOrder: a connection's messages, none of them resent, have seqs in
\* the order in which they were saved, whichever writers stored them.
THEOREM SendersAreInOrder == Spec => []SenderOrder
<1>1. AckInv /\ OrderInv => SenderOrder
  <2> SUFFICES ASSUME AckInv, OrderInv, NEW c \in Conns, NEW j \in Calls, NEW k \in Calls,
                      j < k, verdict[c][j] > 0, verdict[c][k] > 0,
                      AskedFor(asked[c][k]) = {<<c, k>>}
               PROVE  verdict[c][j] < verdict[c][k]
    BY DEF SenderOrder
  <2>1. asked[c][k] \in Ids /\ row[asked[c][k]] = verdict[c][k]
    BY DEF AckInv, AnswerOk
  <2> QED
    BY <2>1 DEF OrderInv, InOrder, Above
<1> QED
  BY <1>1, AnswersAreRight, OrderInvHolds, PTL
-----------------------------------------------------------------------------
(***************************************************************************)
(* Failures.  As long as nothing but bad rows has gone wrong, the rows a   *)
(* statement has done, and all those a writer answers from a commit, are   *)
(* good ones with a seq.                                                   *)
(***************************************************************************)
DoneRow(w, i) == batch[w][i].id \notin Bad /\ got[w][batch[w][i].id] > 0

WorkInv ==
    \A w \in Writers :
        /\ wpc[w] = "insert" => \A i \in Firsts(batch[w]) \ todo[w] : DoneRow(w, i)
        /\ wpc[w] = "reply" => \A i \in todo[w] : DoneRow(w, i)

RepliesOk ==
    \A c \in Conns, k \in Calls :
        reply[c][k] # NoReply =>
            asked[c][k] \in Ids /\ (reply[c][k] = Failed <=> asked[c][k] \in Bad)

FailInv == ~ faulted => WorkInv /\ RepliesOk

\* A round of answers that fails exactly the bad row.
LEMMA RoundOk ==
    ASSUME TypeInv, RepliesOk, asked' = asked, NEW w \in Writers, NEW i \in todo[w],
           NEW f, reply' = Answer(Waiters(w, batch[w][i].id), f),
           f[batch[w][i].id] = Failed <=> batch[w][i].id \in Bad
    PROVE  RepliesOk'
<1>1. ASSUME NEW c \in Conns, NEW k \in Calls
      PROVE  \/ reply'[c][k] = reply[c][k]
             \/ asked[c][k] = batch[w][i].id /\ reply'[c][k] = f[asked[c][k]]
  BY DEF Answer, Waiters
<1>2. batch[w][i].id \in Ids
  BY TodoRequest
<1> QED
  BY <1>1, <1>2 DEF RepliesOk

LEMMA WorkStep ==
    ASSUME TypeInv, SeqInv, OrderInv, WorkInv, NEW w \in Writers, Writer(w), ~ faulted'
    PROVE  WorkInv'
<1> USE DEF handlerVars, writerVars, dbVars
<1>0. /\ batch \in [Writers -> Seq(Request)] /\ got \in [Writers -> [Ids -> Nat]]
      /\ wpc \in [Writers -> {"idle", "drain", "insert", "single", "reply"}]
      /\ todo \in [Writers -> SUBSET Nat] /\ row \in [Ids -> Nat] /\ lastSeq \in Nat
  BY DEF TypeInv, TypeOK
<1>1. ASSUME NEW l \in {"idle", "drain", "single"}, wpc' = [wpc EXCEPT ![w] = l],
             \A v \in Writers \ {w} : batch'[v] = batch[v] /\ got'[v] = got[v] /\ todo'[v] = todo[v]
      PROVE  WorkInv'
  BY <1>0, <1>1 DEF WorkInv, DoneRow
<1>2. CASE TakeFirst(w)
  <2>1. wpc' = [wpc EXCEPT ![w] = "drain"] /\ UNCHANGED <<todo, got>>
        /\ \A v \in Writers \ {w} : batch'[v] = batch[v]
    BY <1>0, <1>2 DEF TakeFirst
  <2> QED
    BY <1>1, <2>1
<1>3. CASE Drain(w)
  BY <1>0, <1>3 DEF Drain, WorkInv, DoneRow
<1>4. CASE BeginInsert(w)
  BY <1>0, <1>4 DEF BeginInsert, WorkInv, DoneRow
<1>5. CASE InsertRow(w)
  <2>1. PICK i \in todo[w] :
           /\ batch[w][i].id \notin Bad
           /\ got' = [got EXCEPT ![w][batch[w][i].id] =
                         IF row[batch[w][i].id] = 0 THEN lastSeq + 1
                                                    ELSE row[batch[w][i].id]]
           /\ todo' = [todo EXCEPT ![w] = @ \ {i}]
    BY <1>5 DEF InsertRow
  <2> DEFINE o == batch[w][i].id
             s == IF row[o] = 0 THEN lastSeq + 1 ELSE row[o]
  <2>2. o \in Ids /\ s > 0 /\ s \in Nat /\ UNCHANGED <<batch, wpc>> /\ wpc[w] = "insert"
    BY <1>0, <1>5, TodoRequest DEF InsertRow
  <2>3. got' = [got EXCEPT ![w][o] = s]
    BY <2>1
  <2> HIDE DEF o, s
  <2>4. \A v \in Writers, m \in Ids : got[v][m] > 0 => got'[v][m] > 0
    BY <1>0, <2>2, <2>3
  <2>5. got'[w][o] > 0
    BY <1>0, <2>2, <2>3
  <2>6. \A v \in Writers : \A j \in DOMAIN batch[v] : batch[v][j].id \in Ids
    <3>1. \A v \in Writers : \A j \in DOMAIN batch[v] : batch[v][j] \in Request
      BY <1>0
    <3> QED
      BY <3>1 DEF Request
  <2>7. \A v \in Writers : \A j \in DOMAIN batch[v] : DoneRow(v, j) => DoneRow(v, j)'
    BY <2>2, <2>4, <2>6 DEF DoneRow
  <2>8. DoneRow(w, i)'
    BY <2>1, <2>2, <2>5 DEF DoneRow, o
  <2>9. \A v \in Writers : Firsts(batch[v]) \subseteq DOMAIN batch[v] /\ todo[v] \subseteq DOMAIN batch[v]
    BY DEF Firsts, TypeInv, RequestInv
  <2>10. \A v \in Writers \ {w} : todo'[v] = todo[v]
    BY <1>0, <2>1
  <2>11. todo'[w] = todo[w] \ {i}
    BY <1>0, <2>1
  <2> QED
    BY <2>2, <2>7, <2>8, <2>9, <2>10, <2>11 DEF WorkInv
<1>6. CASE Commit(w)
  BY <1>0, <1>6 DEF Commit, WorkInv, DoneRow
<1>7. CASE RowLevelFailure(w)
  <2>1. wpc' = [wpc EXCEPT ![w] = "single"] /\ batch' = batch
        /\ \A v \in Writers \ {w} : got'[v] = got[v] /\ todo'[v] = todo[v]
    BY <1>0, <1>7 DEF RowLevelFailure
  <2> QED
    BY <1>1, <2>1
<1>8. ASSUME NEW i, Advance(w, i), wpc[w] \in {"reply", "single"} PROVE WorkInv'
  <2>1. CASE todo[w] = {i}
    BY <1>0, <1>1, <1>8, <2>1 DEF Advance
  <2>2. CASE todo[w] # {i}
    BY <1>0, <1>8, <2>2 DEF Advance, WorkInv, DoneRow
  <2> QED
    BY <2>1, <2>2
<1>9. CASE DeliverResult(w) \/ SingleRow(w)
  BY <1>8, <1>9 DEF DeliverResult, SingleRow
<1> QED
  BY <1>2, <1>3, <1>4, <1>5, <1>6, <1>7, <1>9
     DEF Writer, InfrastructureFailure, SingleRowFailure, Panic

LEMMA FailStep ==
    ASSUME TypeInv, SeqInv, OrderInv, FailInv, [Next]_vars
    PROVE  FailInv'
<1> USE DEF handlerVars, writerVars, dbVars
<1> SUFFICES ASSUME ~ faulted' PROVE WorkInv' /\ RepliesOk'
  BY DEF FailInv
<1>1. ~ faulted
  BY DEF Next, vars, Handler, Call, Enqueue, EnqueueTimeout, ReceiveReply, ReplyTimeout, Return,
         Writer, TakeFirst, Drain, BeginInsert, InsertRow, Commit, RowLevelFailure,
         InfrastructureFailure, DeliverResult, SingleRow, SingleRowFailure, Panic
<1>2. WorkInv /\ RepliesOk
  BY <1>1 DEF FailInv
<1>3. ASSUME reply' = reply PROVE RepliesOk'
  <2>1. \A c \in Conns, k \in Calls : asked[c][k] \in Ids => asked'[c][k] = asked[c][k]
    BY AskedStays
  <2> QED
    BY <1>2, <1>3, <2>1 DEF RepliesOk
<1>4. CASE UNCHANGED vars
  BY <1>2, <1>3, <1>4 DEF vars, WorkInv, DoneRow
<1>5. ASSUME NEW c \in Conns, Handler(c) PROVE WorkInv' /\ RepliesOk'
  <2>1. UNCHANGED <<reply, writerVars>>
    BY <1>5 DEF Handler, Call, Enqueue, EnqueueTimeout, ReceiveReply, ReplyTimeout, Return
  <2> QED
    BY <1>2, <1>3, <2>1 DEF WorkInv, DoneRow
<1>6. ASSUME NEW w \in Writers, Writer(w) PROVE WorkInv' /\ RepliesOk'
  <2>1. WorkInv'
    BY <1>2, <1>6, WorkStep
  <2>2. CASE TakeFirst(w) \/ Drain(w) \/ BeginInsert(w) \/ InsertRow(w) \/ Commit(w)
             \/ RowLevelFailure(w)
    BY <1>3, <2>1, <2>2 DEF TakeFirst, Drain, BeginInsert, InsertRow, Commit, RowLevelFailure
  <2>3. CASE DeliverResult(w)
    <3>1. PICK i \in todo[w] : reply' = Answer(Waiters(w, batch[w][i].id), got[w])
      BY <2>3 DEF DeliverResult, Deliver
    <3>2. DoneRow(w, i)
      BY <1>2, <2>3 DEF WorkInv, DeliverResult
    <3> QED
      BY <1>2, <2>1, <2>3, <3>1, <3>2, RoundOk DEF DeliverResult, DoneRow, Failed
  <2>4. CASE SingleRow(w)
    <3>1. PICK i \in todo[w] :
             /\ row' = IF batch[w][i].id \in Bad \/ row[batch[w][i].id] # 0 THEN row
                       ELSE [row EXCEPT ![batch[w][i].id] = lastSeq + 1]
             /\ reply' = Answer(Waiters(w, batch[w][i].id), row')
      BY <2>4 DEF SingleRow, Deliver
    <3>2. batch[w][i].id \in Ids /\ row \in [Ids -> Nat] /\ lastSeq \in Nat
      BY TodoRequest DEF TypeInv, TypeOK
    <3>3. row'[batch[w][i].id] = Failed <=> batch[w][i].id \in Bad
      BY <3>1, <3>2 DEF OrderInv, Rooted, Failed
    <3> QED
      BY <1>2, <2>1, <2>4, <3>1, <3>3, RoundOk DEF SingleRow
  <2> QED
    BY <1>6, <2>1, <2>2, <2>3, <2>4
       DEF Writer, InfrastructureFailure, SingleRowFailure, Panic
<1> QED
  BY <1>4, <1>5, <1>6 DEF Next

\* OnlyBadRowsFail: without an infrastructure error or a panic, exactly the
\* refused rows are answered with an error.
THEOREM BadRowsFailAlone == Spec => []OnlyBadRowsFail
<1>1. Init => FailInv
  <2> SUFFICES ASSUME Init PROVE FailInv
    OBVIOUS
  <2>1. \A c \in Conns, k \in Calls : reply[c][k] = NoReply
    BY DEF Init
  <2>2. \A w \in Writers : wpc[w] = "idle"
    BY DEF Init
  <2> QED
    BY <2>1, <2>2 DEF FailInv, WorkInv, RepliesOk
<1>2. TypeInv /\ SeqInv /\ OrderInv /\ FailInv /\ [Next]_vars => FailInv'
  BY FailStep
<1>3. FailInv => OnlyBadRowsFail
  BY DEF FailInv, RepliesOk, OnlyBadRowsFail
<1> QED
  BY <1>1, <1>2, <1>3, TypeInvHolds, SeqsAreUnique, OrderInvHolds, PTL DEF Spec
=============================================================================
