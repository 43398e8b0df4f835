--------------------------- MODULE LiveDelivery ---------------------------
(***************************************************************************)
(* How the server hands the messages addressed to one account to its live  *)
(* connections: routeMessage and routeGroupMessage send a new message to   *)
(* the connections in the clients map, deliverPending sends a newly        *)
(* registered connection what is still undelivered, Client.send puts a     *)
(* frame into a bounded buffer or closes the connection, writeLoop writes  *)
(* it.  The delivered flag of a row is set in batches.  A connection that  *)
(* lost its client stays in the map until a read or a write fails.         *)
(* A message is its seq.                                                   *)
(***************************************************************************)
EXTENDS Integers, Sequences, FiniteSets

CONSTANTS
    Incoming,        \* the messages addressed to the account, by seq
    Direct,      \* those of direct conversations; the others are of groups
    Conns,       \* bound: the account's connections, each made at most once
    OutCap,      \* clientSendBuffer
    PendingCap,  \* maxPendingPerConnect
    MaxCrashes   \* bound: server restarts

ASSUME LiveDeliveryAssumption ==
    /\ Incoming \subseteq Nat /\ IsFiniteSet(Incoming) /\ Direct \subseteq Incoming
    /\ OutCap \in Nat \ {0} /\ PendingCap \in Nat \ {0} /\ MaxCrashes \in Nat

VARIABLES
    stage,    \* stage[m]: "new", "stored", "sending", "done", or "stray": in
              \* the table, but nobody will route it
    flag,     \* the rows with delivered = true
    marks,    \* the marks that wait in deliveredCh or in the batcher
    targets,  \* targets[m]: the snapshot's connections m has yet to be sent to
    ok,       \* the messages a connection accepted from routeMessage
    srv,      \* srv[c]: "new", "accepted", "up", "closed" or "removed"
    cli,      \* cli[c]: the client's end is alive
    out,      \* out[c]: Client.out, the frames accepted and not yet written
    dp,       \* dp[c]: deliverPending: "none", "query", "send", "done", "failed"
    pend,     \* pend[c]: the rows it has yet to send, lowest seq first
    sent,     \* sent[c]: the rows it has sent and not yet marked
    crashes,  \* how often the server was restarted
    took      \* history: took[c]: the messages c has accepted

flagVars == <<flag, marks>>
hubVars  == <<srv, out, took>>
pendVars == <<dp, pend, sent>>
liveVars == <<stage, flagVars, targets, ok, hubVars, cli, pendVars, crashes>>

Rows      == {m \in Incoming : stage[m] # "new"}
InClients == {c \in Conns : srv[c] \in {"up", "closed"}}
Handed    == UNION {took[c] : c \in Conns}

\* The first n rows of S in the order of their seq.
Oldest(S, n) == {m \in S : Cardinality({k \in S : k <= m}) <= n}
-----------------------------------------------------------------------------
LiveInit ==
    /\ stage = [m \in Incoming |-> "new"]
    /\ flag = {} /\ marks = {} /\ ok = {}
    /\ targets = [m \in Incoming |-> {}]
    /\ srv = [c \in Conns |-> "new"]
    /\ cli = [c \in Conns |-> FALSE]
    /\ out = [c \in Conns |-> << >>]
    /\ dp = [c \in Conns |-> "none"]
    /\ pend = [c \in Conns |-> {}]
    /\ sent = [c \in Conns |-> {}]
    /\ took = [c \in Conns |-> {}]
    /\ crashes = 0
-----------------------------------------------------------------------------
(* A message on its way to the live connections *)

\* A row appears, in whatever order the statements commit.  The sender's handler
\* routes it ("stored"), or has given up on saveMessage and never will ("stray").
Insert(m) ==
    /\ stage[m] = "new"
    /\ \E s \in {"stored", "stray"} : stage' = [stage EXCEPT ![m] = s]
    /\ UNCHANGED <<flagVars, targets, ok, hubVars, cli, pendVars, crashes>>

\* markDelivered: into deliveredCh, or, when that is full, straight into the row.
Mark(m) ==
    \/ marks' = marks \cup {m} /\ flag' = flag
    \/ flag' = flag \cup {m} /\ marks' = marks

\* Mutant: a connection still busy with its offline queue is passed over.
SnapshotReady(m) ==
    /\ stage[m] = "stored"
    /\ stage' = [stage EXCEPT ![m] = "sending"]
    /\ targets' = [targets EXCEPT ![m] = {c \in InClients : dp[c] = "done"}]
    /\ IF m \in Direct THEN UNCHANGED flagVars ELSE Mark(m)
    /\ UNCHANGED <<ok, hubVars, cli, pendVars, crashes>>

\* snapshotClients.  A group message is marked before it is sent to anybody.
Snapshot(m) ==
    /\ stage[m] = "stored"
    /\ stage' = [stage EXCEPT ![m] = "sending"]
    /\ targets' = [targets EXCEPT ![m] = InClients]
    /\ IF m \in Direct THEN UNCHANGED flagVars ELSE Mark(m)
    /\ UNCHANGED <<ok, hubVars, cli, pendVars, crashes>>

\* Mutant: no limit on what waits for a slow reader.
AcceptsAnyLength(c) == srv[c] = "up"

\* Client.send: a closed connection refuses, a full buffer closes it.
Accepts(c) == srv[c] = "up" /\ Len(out[c]) < OutCap

Send(c, m) ==
    IF Accepts(c)
    THEN /\ out' = [out EXCEPT ![c] = Append(@, m)]
         /\ took' = [took EXCEPT ![c] = @ \cup {m}]
         /\ srv' = srv
    ELSE /\ srv' = [srv EXCEPT ![c] = IF @ = "up" THEN "closed" ELSE @]
         /\ out' = [out EXCEPT ![c] = << >>]
         /\ took' = took

SendLive(m, c) ==
    /\ stage[m] = "sending"
    /\ c \in targets[m]
    /\ targets' = [targets EXCEPT ![m] = @ \ {c}]
    /\ Send(c, m)
    /\ ok' = IF Accepts(c) THEN ok \cup {m} ELSE ok
    /\ UNCHANGED <<stage, flagVars, cli, pendVars, crashes>>

\* Mutant: delivered means routed, whoever took it.
RoutedAlwaysMarks(m) ==
    /\ stage[m] = "sending"
    /\ targets[m] = {}
    /\ stage' = [stage EXCEPT ![m] = "done"]
    /\ IF m \in Direct THEN Mark(m) ELSE UNCHANGED flagVars
    /\ UNCHANGED <<targets, ok, hubVars, cli, pendVars, crashes>>

Routed(m) ==
    /\ stage[m] = "sending"
    /\ targets[m] = {}
    /\ stage' = [stage EXCEPT ![m] = "done"]
    /\ IF m \in Direct /\ m \in ok THEN Mark(m) ELSE UNCHANGED flagVars
    /\ UNCHANGED <<targets, ok, hubVars, cli, pendVars, crashes>>

\* The delivery batcher writes its batch; a failed UPDATE drops it.
FlushMarks ==
    /\ marks # {}
    /\ flag' \in {flag, flag \cup marks}
    /\ marks' = {}
    /\ UNCHANGED <<stage, targets, ok, hubVars, cli, pendVars, crashes>>
-----------------------------------------------------------------------------
(* A connection: wsHandler, deliverPending, writeLoop *)

Upgrade(c) ==
    /\ srv[c] = "new"
    /\ srv' = [srv EXCEPT ![c] = "accepted"]
    /\ cli' = [cli EXCEPT ![c] = TRUE]
    /\ UNCHANGED <<stage, flagVars, targets, ok, out, took, pendVars, crashes>>

Register(c) ==
    /\ srv[c] = "accepted"
    /\ srv' = [srv EXCEPT ![c] = "up"]
    /\ dp' = [dp EXCEPT ![c] = "query"]
    /\ UNCHANGED <<stage, flagVars, targets, ok, out, took, cli, pend, sent,
                   crashes>>

\* The oldest undelivered rows; a failed query ends deliverPending.
QueryPending(c) ==
    /\ dp[c] = "query"
    /\ \/ /\ dp' = [dp EXCEPT ![c] = "send"]
          /\ pend' = [pend EXCEPT ![c] =
                         Oldest((Rows \cap Direct) \ flag, PendingCap)]
       \/ dp' = [dp EXCEPT ![c] = "failed"] /\ pend' = pend
    /\ UNCHANGED <<stage, flagVars, targets, ok, hubVars, cli, sent, crashes>>

\* Mutant: the loop is left after its first row.
SendPendingOnce(c, m) ==
    /\ dp[c] = "send"
    /\ m \in pend[c]
    /\ Send(c, m)
    /\ pend' = [pend EXCEPT ![c] = {}]
    /\ sent' = [sent EXCEPT ![c] = IF Accepts(c) THEN @ \cup {m} ELSE @]
    /\ UNCHANGED <<stage, flagVars, targets, ok, dp, cli, crashes>>

\* One row of the loop; a refused frame leaves it.
SendPending(c, m) ==
    /\ dp[c] = "send"
    /\ m \in pend[c]
    /\ \A k \in pend[c] : m <= k
    /\ Send(c, m)
    /\ pend' = [pend EXCEPT ![c] = IF Accepts(c) THEN @ \ {m} ELSE {}]
    /\ sent' = [sent EXCEPT ![c] = IF Accepts(c) THEN @ \cup {m} ELSE @]
    /\ UNCHANGED <<stage, flagVars, targets, ok, dp, cli, crashes>>

\* The one UPDATE at the end, whose error nobody looks at.
MarkPending(c) ==
    /\ dp[c] = "send"
    /\ pend[c] = {}
    /\ flag' \in {flag, flag \cup sent[c]}
    /\ sent' = [sent EXCEPT ![c] = {}]
    /\ dp' = [dp EXCEPT ![c] = "done"]
    /\ UNCHANGED <<stage, marks, targets, ok, hubVars, cli, pend, crashes>>

\* writeLoop.  With the client gone a frame vanishes, or its write fails.
Write(c) ==
    /\ srv[c] = "up"
    /\ out[c] # << >>
    /\ \/ out' = [out EXCEPT ![c] = Tail(@)] /\ srv' = srv
       \/ /\ ~cli[c]
          /\ out' = [out EXCEPT ![c] = << >>]
          /\ srv' = [srv EXCEPT ![c] = "closed"]
    /\ UNCHANGED <<stage, flagVars, targets, ok, took, cli, pendVars, crashes>>

\* The client's end dies: the network is gone, or it has seen the server close.
Drop(c) ==
    /\ cli[c]
    /\ cli' = [cli EXCEPT ![c] = FALSE]
    /\ UNCHANGED <<stage, flagVars, targets, ok, hubVars, pendVars, crashes>>

\* The read loop, which starts after deliverPending, ends, and the deferred
\* function takes the connection out of the map.
Remove(c) ==
    /\ dp[c] \in {"done", "failed"}
    /\ srv[c] = "closed" \/ (srv[c] = "up" /\ ~cli[c])
    /\ srv' = [srv EXCEPT ![c] = "removed"]
    /\ out' = [out EXCEPT ![c] = << >>]
    /\ UNCHANGED <<stage, flagVars, targets, ok, took, cli, pendVars, crashes>>

\* A restart: connections, routing under way and marks are gone.
Restart ==
    /\ crashes < MaxCrashes
    /\ crashes' = crashes + 1
    /\ stage' = [m \in Incoming |-> IF stage[m] \in {"stored", "sending"}
                                THEN "stray" ELSE stage[m]]
    /\ marks' = {}
    /\ targets' = [m \in Incoming |-> {}]
    /\ srv' = [c \in Conns |-> IF srv[c] = "new" THEN "new" ELSE "removed"]
    /\ out' = [c \in Conns |-> << >>]
    /\ dp' = [c \in Conns |-> IF srv[c] = "new" THEN "none" ELSE "done"]
    /\ pend' = [c \in Conns |-> {}]
    /\ sent' = [c \in Conns |-> {}]
    /\ UNCHANGED <<flag, ok, cli, took>>
-----------------------------------------------------------------------------
Router(m) == Snapshot(m) \/ (\E c \in Conns : SendLive(m, c)) \/ Routed(m)

Pending(c) ==
    QueryPending(c) \/ (\E m \in Incoming : SendPending(c, m)) \/ MarkPending(c)

LiveNext ==
    \/ \E m \in Incoming : Insert(m) \/ Router(m)
    \/ FlushMarks
    \/ \E c \in Conns : \/ Upgrade(c) \/ Register(c) \/ Pending(c)
                        \/ Write(c) \/ Drop(c) \/ Remove(c)
    \/ Restart

LiveSpec == LiveInit /\ [][LiveNext]_liveVars

\* The server's goroutines run.  Nothing is owed to the clients' coming and
\* going, to senders, or to a restart.
LiveFairSpec ==
    /\ LiveSpec
    /\ \A m \in Incoming : WF_liveVars(Router(m))
    /\ \A c \in Conns : WF_liveVars(Register(c)) /\ WF_liveVars(Pending(c))
                        /\ WF_liveVars(Write(c)) /\ WF_liveVars(Remove(c))
-----------------------------------------------------------------------------
(* Properties *)

\* Every variable holds values of its type.
LiveTypeOK ==
    /\ stage \in [Incoming -> {"new", "stored", "sending", "done", "stray"}]
    /\ flag \subseteq Rows /\ marks \subseteq Rows /\ ok \subseteq Rows
    /\ targets \in [Incoming -> SUBSET Conns]
    /\ srv \in [Conns -> {"new", "accepted", "up", "closed", "removed"}]
    /\ cli \in [Conns -> BOOLEAN]
    /\ out \in [Conns -> Seq(Rows)] /\ \A c \in Conns : Len(out[c]) <= OutCap
    /\ dp \in [Conns -> {"none", "query", "send", "done", "failed"}]
    /\ pend \in [Conns -> SUBSET Rows] /\ sent \in [Conns -> SUBSET Rows]
    /\ took \in [Conns -> SUBSET Rows]
    /\ crashes \in 0 .. MaxCrashes

\* What a delivered flag, or a mark under way, claims of a direct message: some
\* live connection took it into its buffer.  What only closed or full connections
\* were offered stays in the offline queue.
FlaggedWasHanded == (flag \cup marks) \cap Direct \subseteq Handed

\* A connection is put into the map before its offline queue is read, so that no
\* direct message falls between the two: once the queue was sent, whatever was
\* routed has been taken by a connection.
NoGapAfterPending ==
    Cardinality(Direct) <= PendingCap =>
        \A c \in Conns, m \in Direct :
            srv[c] = "up" /\ dp[c] = "done" /\ stage[m] = "done" => m \in Handed

\* A direct message that is undelivered when a connection's queue is read is
\* sent to that connection, flagged for another, or the connection is lost:
\* neither the batcher nor a slow reader holds deliverPending up.
PendingIsSent ==
    \A c \in Conns, m \in Direct :
        Cardinality(Direct) <= PendingCap /\ dp[c] = "query" /\ m \in Rows
            ~> m \in took[c] \cup flag \/ dp[c] = "failed" \/ srv[c] # "up"
=============================================================================
