--------------------------- MODULE DeliveryProofs ---------------------------
(***************************************************************************)
(* Theorems about the three ways of a message to a device.  HistorySync:   *)
(* what the device pulls; LiveDelivery: what the server hands to the       *)
(* connections of an account; Outbox: what a sender has yet to see         *)
(* acknowledged.  Each theorem is about the specification of one of them,  *)
(* for every number of messages, page size, buffer, queue, connection and  *)
(* interruption.                                                           *)
(***************************************************************************)
EXTENDS HistorySync, LiveDelivery, Outbox, FiniteSetTheorems, TLAPS

(* Pages *)

\* A non-empty finite set of naturals has a least element.
LEMMA LeastElement ==
    ASSUME NEW S \in SUBSET Nat, IsFiniteSet(S), S # {}
    PROVE  \E m \in S : \A k \in S : m <= k
<1> DEFINE Below(m) == {k \in S : k <= m}
           R == StrictSubsetOrdering(S)
<1>1. IsWellFoundedOn(R, SUBSET S)
  BY FS_StrictSubsetOrderingWellFounded, FS_FiniteSubsetsOfFinite
<1>2. PICK T \in {Below(m) : m \in S} : \A U \in {Below(m) : m \in S} : <<U, T>> \notin R
  <2>1. {Below(m) : m \in S} \subseteq SUBSET S
    OBVIOUS
  <2>2. {Below(m) : m \in S} # {}
    OBVIOUS
  <2> HIDE DEF Below, R
  <2> QED BY <1>1, <2>1, <2>2, WFMin
<1>3. PICK m \in S : T = Below(m)
  BY <1>2
<1>4. ASSUME NEW k \in S, k < m PROVE FALSE
  <2>1. Below(k) \subseteq Below(m)
    <3>1. ASSUME NEW j \in S, j <= k PROVE j <= m
      BY <1>4, <3>1
    <3> QED BY <3>1
  <2>0. m \in Below(m) /\ m \notin Below(k)
    BY <1>4
  <2>2. <<Below(k), Below(m)>> \in R
    BY <2>0, <2>1 DEF StrictSubsetOrdering
  <2> QED BY <1>2, <1>3, <2>2
<1> QED BY <1>4

\* A page has no holes: what lies below one of its rows is in it.
LEMMA PageIsDownwardClosed ==
    ASSUME NEW S \in SUBSET Nat, IsFiniteSet(S), NEW n \in Nat,
           NEW m \in First(S, n), NEW k \in S, k <= m
    PROVE  k \in First(S, n)
<1> DEFINE Below(i) == {j \in S : j <= i}
<1>1. Below(k) \subseteq Below(m) /\ Below(m) \subseteq S
  <2>1. k \in Nat /\ m \in Nat
    BY DEF First
  <2>2. ASSUME NEW j \in S, j <= k PROVE j <= m
    BY <2>1, <2>2
  <2> QED BY <2>2
<1>2. IsFiniteSet(Below(m)) /\ IsFiniteSet(Below(k))
  BY <1>1, FS_Subset
<1>3. Cardinality(Below(k)) <= Cardinality(Below(m))
  BY <1>1, <1>2, FS_Subset
<1>4. Cardinality(Below(m)) \in Nat /\ Cardinality(Below(k)) \in Nat
  BY <1>2, FS_CardinalityType
<1>5. Cardinality(Below(m)) <= n
  BY DEF First
<1> QED BY <1>3, <1>4, <1>5 DEF First

\* A page that is not full holds every row there was.
LEMMA ShortPageIsLast ==
    ASSUME NEW S \in SUBSET Nat, IsFiniteSet(S), NEW n \in Nat,
           Cardinality(First(S, n)) < n
    PROVE  First(S, n) = S
<1> DEFINE F == First(S, n)
<1>0. F \subseteq S
  BY DEF First
<1> SUFFICES ASSUME S \ F # {} PROVE FALSE
  BY <1>0
<1>1. IsFiniteSet(F) /\ IsFiniteSet(S \ F) /\ S \ F \in SUBSET Nat
  BY <1>0, FS_Subset
<1>2. PICK m \in S \ F : \A k \in S \ F : m <= k
  BY <1>1, LeastElement
<1>3. {k \in S : k <= m} \subseteq F \cup {m}
  <2>1. ASSUME NEW k \in S, k <= m, k \notin F PROVE k = m
    <3>1. m <= k /\ k \in Nat /\ m \in Nat
      BY <1>2, <2>1
    <3> QED BY <2>1, <3>1
  <2> QED BY <2>1
<1>4. IsFiniteSet(F \cup {m}) /\ Cardinality(F \cup {m}) = Cardinality(F) + 1
  BY <1>1, <1>2, FS_AddElement
<1>5. IsFiniteSet({k \in S : k <= m}) /\ Cardinality({k \in S : k <= m}) <= Cardinality(F) + 1
  BY <1>3, <1>4, FS_Subset
<1>6. Cardinality(F) \in Nat /\ Cardinality({k \in S : k <= m}) \in Nat
  BY <1>1, <1>5, FS_CardinalityType
<1>7. Cardinality({k \in S : k <= m}) <= n
  BY <1>5, <1>6
<1> QED BY <1>2, <1>7 DEF First
-----------------------------------------------------------------------------
(* Type correctness *)

LEMMA StartSyncType ==
    ASSUME TypeOK, StartSync
    PROVE  mem' \subseteq rows /\ touched' \subseteq rows /\ phase' = "pull"
BY DEF TypeOK, StartSync

\* TypeOK in three parts: the provers deal with each better than with all.
Flags == tab \in BOOLEAN /\ conn \in BOOLEAN /\ armed \in BOOLEAN
Sets  == /\ rows \subseteq 1 .. lastSeq /\ lost \subseteq 1 .. lastSeq
         /\ mem \subseteq rows /\ disk \subseteq rows /\ touched \subseteq rows
         /\ late \subseteq rows /\ torn \subseteq rows
Nums  == /\ lastSeq \in 0 .. MaxSeq /\ tabs \in 0 .. MaxTabs
         /\ conns \in 0 .. MaxConns /\ cursor \in 0 .. lastSeq
         /\ tries \in 0 .. MaxTries
         /\ phase \in {"idle", "pull", "save", "saveShort"}

LEMMA TypeParts == TypeOK <=> Flags /\ Sets /\ Nums
BY DEF TypeOK, Flags, Sets, Nums

LEMMA FlagsStep ==
    ASSUME Flags, [Next]_vars
    PROVE  Flags'
<1>1. CASE UNCHANGED vars
  BY <1>1 DEF Flags, vars, tabVars, connVars, retryVars
<1>2. CASE OpenTab \/ CloseTab \/ Connect \/ Disconnect
  BY <1>2 DEF Flags, OpenTab, CloseTab, Connect, Disconnect, tabVars, connVars, retryVars
<1>3. CASE BeginInsert \/ (\E m \in Msgs : Commit(m) \/ Rollback(m) \/ Receive(m))
  BY <1>3 DEF Flags, BeginInsert, Commit, Rollback, Receive, tabVars, connVars, retryVars
<1>4. CASE Pull \/ PullFails \/ RetrySync
  BY <1>4 DEF Flags, Pull, PullFails, RetrySync, tabVars, connVars, retryVars
<1>5. CASE PullThrows \/ SaveSync
  <2>1. \E i : EndSync(i)
    BY <1>5 DEF PullThrows, SaveSync
  <2> QED BY <2>1 DEF Flags, EndSync, tabVars, connVars, retryVars
<1> QED BY <1>1, <1>2, <1>3, <1>4, <1>5 DEF Next

LEMMA TypeStep ==
    ASSUME HistorySyncAssumption, TypeOK, [Next]_vars
    PROVE  TypeOK'
<1>0. Flags'
  BY FlagsStep DEF TypeOK, Flags
<1> USE HistorySyncAssumption DEF HistorySyncAssumption
<1>1. CASE BeginInsert
  BY <1>1 DEF TypeOK, BeginInsert, tabVars, connVars, retryVars
<1>2. ASSUME NEW m \in Msgs, Commit(m) PROVE TypeOK'
  <2>1. m \in 1 .. lastSeq
    BY <1>2 DEF Commit, Open
  <2> QED BY <1>2, <2>1 DEF TypeOK, Commit, tabVars, connVars, retryVars
<1>3. ASSUME NEW m \in Msgs, Rollback(m) PROVE TypeOK'
  <2>1. m \in 1 .. lastSeq
    BY <1>3 DEF Rollback, Open
  <2> QED BY <1>3, <2>1 DEF TypeOK, Rollback, tabVars, connVars, retryVars
<1>4. ASSUME NEW m \in Msgs, Receive(m) PROVE TypeOK'
  BY <1>4 DEF TypeOK, Receive, tableVars, tabVars, connVars, retryVars
<1>5. CASE OpenTab
  <2>1. Nums'
    BY <1>5, TypeParts DEF Nums, OpenTab, tableVars, connVars, retryVars
  <2>2. Sets'
    BY <1>5, TypeParts DEF Sets, OpenTab, tableVars, connVars, retryVars
  <2> QED BY <1>0, <2>1, <2>2 DEF TypeOK, Flags, Sets, Nums
<1>6. CASE CloseTab
  <2>1. Nums'
    BY <1>6, TypeParts DEF Nums, CloseTab, tableVars
  <2>2. Sets'
    BY <1>6, TypeParts DEF Sets, CloseTab, tableVars
  <2> QED BY <1>0, <2>1, <2>2 DEF TypeOK, Flags, Sets, Nums
<1>7. CASE Connect
  <2>1. Nums'
    BY <1>7, TypeParts, StartSyncType DEF Nums, Connect, tableVars, tabVars, retryVars
  <2>2. Sets'
    BY <1>7, TypeParts, StartSyncType DEF Sets, Connect, tableVars, tabVars, retryVars
  <2> QED BY <1>0, <2>1, <2>2 DEF TypeOK, Flags, Sets, Nums
<1>8. CASE Disconnect
  BY <1>8 DEF TypeOK, Disconnect, tableVars, tabVars, retryVars
<1>9. CASE Pull
  <2> DEFINE page == First({m \in rows : m > cursor}, PageSize)
  <2>1. page \subseteq rows
    BY DEF First
  <2>2. cursor' \in 0 .. lastSeq
    <3>0. rows \subseteq 1 .. lastSeq /\ cursor \in 0 .. lastSeq /\ lastSeq \in Nat
      BY TypeParts DEF Sets, Nums
    <3>1. page \subseteq 0 .. lastSeq /\ cursor \in 0 .. lastSeq
      <4> HIDE DEF page
      <4> QED BY <2>1, <3>0
    <3>2. cursor' = cursor \/ cursor' \in page
      BY <1>9 DEF Pull
    <3> QED BY <3>1, <3>2
  <2> QED BY <1>9, <2>1, <2>2 DEF TypeOK, Pull, tableVars, tabVars, connVars, retryVars
<1>10. CASE PullFails
  BY <1>10 DEF TypeOK, PullFails, tableVars, tabVars, connVars, retryVars
<1>11. CASE PullThrows
  <2>1. Nums'
    BY <1>11, TypeParts DEF Nums, PullThrows, EndSync, tableVars, tabVars, connVars, retryVars
  <2>2. Sets'
    BY <1>11, TypeParts DEF Sets, PullThrows, EndSync, tableVars, tabVars, connVars, retryVars
  <2> QED BY <1>0, <2>1, <2>2 DEF TypeOK, Flags, Sets, Nums
<1>12. CASE SaveSync
  <2>1. Nums'
    BY <1>12, TypeParts DEF Nums, SaveSync, EndSync, tableVars, tabVars, connVars, retryVars
  <2>2. Sets'
    BY <1>12, TypeParts DEF Sets, SaveSync, EndSync, tableVars, tabVars, connVars, retryVars
  <2> QED BY <1>0, <2>1, <2>2 DEF TypeOK, Flags, Sets, Nums
<1>13. CASE RetrySync
  BY <1>13, StartSyncType DEF TypeOK, RetrySync, tableVars, tabVars, connVars
<1>14. CASE UNCHANGED vars
  BY <1>14 DEF TypeOK, vars, tableVars, tabVars, connVars, retryVars
<1> QED
  BY <1>1, <1>2, <1>3, <1>4, <1>5, <1>6, <1>7, <1>8, <1>9, <1>10, <1>11,
     <1>12, <1>13, <1>14 DEF Next

\* Every reachable state has its types.
THEOREM TypeCorrect == Spec => []TypeOK
<1> USE HistorySyncAssumption
<1>1. Init => TypeOK
  <2> SUFFICES ASSUME Init PROVE Flags /\ Sets /\ Nums
    BY TypeParts
  <2>1. Flags /\ Sets
    BY DEF Init, Flags, Sets
  <2>2. Nums
    BY DEF HistorySyncAssumption, Init, Nums
  <2> QED BY <2>1, <2>2
<1> QED BY <1>1, TypeStep, PTL DEF Spec
-----------------------------------------------------------------------------
(* Nothing gets out of reach *)

\* While loadHistory runs, memory holds all that localStorage does.
SyncHoldsDisk == phase # "idle" => disk \subseteq mem

IInv == SyncHoldsDisk /\ RecoverableUnlessLateOrTorn

\* How a step may change what the device has and still lose nothing.
LEMMA ReachKept ==
    ASSUME RecoverableUnlessLateOrTorn, rows' = rows, cursor' = cursor,
           late' = late, torn \subseteq torn',
           \A m \in mem \cup disk : m <= cursor => m \in mem' \cup disk' \cup torn',
           rows \subseteq Nat, cursor \in Nat
    PROVE  RecoverableUnlessLateOrTorn'
BY DEF RecoverableUnlessLateOrTorn, Recoverable

LEMMA ReachStep ==
    ASSUME HistorySyncAssumption, TypeOK, IInv, [Next]_vars
    PROVE  IInv'
<1> USE DEF IInv
<1>0. rows \subseteq Nat /\ cursor \in Nat /\ disk \subseteq rows /\ mem \subseteq rows
  BY DEF TypeOK
<1>1. CASE BeginInsert
  BY <1>1, <1>0, ReachKept DEF BeginInsert, SyncHoldsDisk, tabVars, connVars
<1>2. ASSUME NEW m \in Msgs, Commit(m) PROVE IInv'
  <2>1. SyncHoldsDisk'
    BY <1>2 DEF Commit, SyncHoldsDisk
  <2>2. m \in Nat
    BY <1>2, HistorySyncAssumption DEF Msgs, HistorySyncAssumption
  <2>3. RecoverableUnlessLateOrTorn'
    BY <1>0, <1>2, <2>2 DEF Commit, RecoverableUnlessLateOrTorn, Recoverable, tabVars
  <2> QED BY <2>1, <2>3
<1>3. ASSUME NEW m \in Msgs, Rollback(m) PROVE IInv'
  BY <1>3, <1>0, ReachKept DEF Rollback, SyncHoldsDisk, tabVars
<1>4. ASSUME NEW m \in Msgs, Receive(m) PROVE IInv'
  BY <1>4, <1>0, ReachKept DEF Receive, SyncHoldsDisk, tableVars, tabVars
<1>5. CASE OpenTab
  BY <1>5, <1>0, ReachKept DEF OpenTab, SyncHoldsDisk, tableVars
<1>6. CASE CloseTab
  BY <1>6, <1>0, ReachKept DEF CloseTab, SyncHoldsDisk, tableVars
<1>7. CASE Connect
  BY <1>7, <1>0, ReachKept DEF Connect, StartSync, SyncHoldsDisk, tableVars, tabVars
<1>8. CASE Disconnect
  BY <1>8, <1>0, ReachKept DEF Disconnect, SyncHoldsDisk, tableVars, tabVars
<1>9. CASE Pull
  <2> DEFINE new == {m \in rows : m > cursor}
             page == First(new, PageSize)
  <2>1. SyncHoldsDisk'
    BY <1>9 DEF Pull, SyncHoldsDisk
  <2>2. new \in SUBSET Nat /\ IsFiniteSet(new)
    <3>1. rows \subseteq 1 .. lastSeq /\ lastSeq \in Nat
      BY HistorySyncAssumption DEF TypeOK, HistorySyncAssumption
    <3>2. IsFiniteSet(1 .. lastSeq)
      BY <3>1, FS_Interval
    <3> QED BY <1>0, <3>1, <3>2, FS_Subset
  <2>3. page \subseteq rows /\ page \subseteq Nat /\ PageSize \in Nat
    BY <1>0, HistorySyncAssumption DEF First, HistorySyncAssumption
  <2>4. rows' = rows /\ late' = late /\ torn' = torn /\ disk' = disk /\ mem' = mem \cup page
    BY <1>9 DEF Pull, tableVars, tabVars
  <2>5. SUFFICES ASSUME NEW m \in rows
                 PROVE  m \in mem' \cup disk \/ m > cursor' \/ m \in late \cup torn
    BY <2>1, <2>4 DEF RecoverableUnlessLateOrTorn, Recoverable
  <2>6. CASE m <= cursor
    BY <1>0, <2>4, <2>6 DEF RecoverableUnlessLateOrTorn, Recoverable
  <2>7. CASE m > cursor /\ page = {} /\ cursor' = cursor
    BY <2>7
  <2>8. CASE m > cursor /\ cursor' \in page
    <3>1. CASE m > cursor'
      BY <3>1
    <3>2. CASE m <= cursor'
      <4>1. m \in page
        BY <2>2, <2>3, <2>8, <3>2, PageIsDownwardClosed
      <4> QED BY <2>4, <4>1
    <3> QED BY <1>0, <2>3, <2>8, <3>1, <3>2
  <2> QED BY <1>0, <1>9, <2>6, <2>7, <2>8 DEF Pull
<1>10. CASE PullFails
  BY <1>10, <1>0, ReachKept DEF PullFails, SyncHoldsDisk, tableVars, tabVars
<1>11. CASE PullThrows
  BY <1>11, <1>0, ReachKept DEF PullThrows, EndSync, SyncHoldsDisk, tableVars, tabVars
<1>12. CASE SaveSync
  <2>1. mem' = mem /\ phase' = "idle" /\ disk \subseteq mem
    BY <1>12 DEF SaveSync, EndSync, SyncHoldsDisk
  <2>2. disk \subseteq disk'
    BY <1>12, <2>1 DEF SaveSync
  <2>3. rows' = rows /\ cursor' = cursor /\ late' = late /\ torn' = torn
    BY <1>12 DEF SaveSync, EndSync, tableVars, tabVars
  <2> QED BY <1>0, <2>1, <2>2, <2>3, ReachKept DEF SyncHoldsDisk
<1>13. CASE RetrySync
  BY <1>13, <1>0, ReachKept DEF RetrySync, StartSync, SyncHoldsDisk, tableVars, tabVars
<1>14. CASE UNCHANGED vars
  BY <1>14, <1>0, ReachKept DEF SyncHoldsDisk, vars, tableVars, tabVars
<1> QED
  BY <1>1, <1>2, <1>3, <1>4, <1>5, <1>6, <1>7, <1>8, <1>9, <1>10, <1>11,
     <1>12, <1>13, <1>14 DEF Next

LEMMA ReachInvariant == Spec => [](TypeOK /\ IInv)
<1>1. Init => IInv
  BY DEF Init, IInv, SyncHoldsDisk, RecoverableUnlessLateOrTorn, Recoverable
<1> USE HistorySyncAssumption
<1> QED BY <1>1, TypeCorrect, ReachStep, PTL DEF Spec

\* However syncs are interrupted, retried and mixed with live frames, a row the
\* device has not got is above its cursor, unless it appeared there late or a
\* closing tab took it.
THEOREM NothingGetsOutOfReach == Spec => []RecoverableUnlessLateOrTorn
BY ReachInvariant, PTL DEF IInv

\* Nothing ever drops a message from the device's localStorage.
THEOREM DiskOnlyGrows == Spec => DiskKeepsMessages
<1>1. ASSUME IInv, [Next]_vars PROVE disk \subseteq disk'
  <2>1. CASE SaveSync
    BY <1>1, <2>1 DEF SaveSync, IInv, SyncHoldsDisk
  <2>2. ASSUME NEW m \in Msgs, Receive(m) PROVE disk \subseteq disk'
    BY <2>2 DEF Receive
  <2>3. CASE ~SaveSync /\ ~(\E m \in Msgs : Receive(m))
    BY <1>1, <2>3 DEF Next, BeginInsert, Commit, Rollback, OpenTab, CloseTab, Connect,
       Disconnect, Pull, PullFails, PullThrows, RetrySync, vars
  <2> QED BY <2>1, <2>2, <2>3
<1> QED BY <1>1, ReachInvariant, PTL DEF Spec, DiskKeepsMessages

\* A sync that reached its last page has brought every row the table held.
THEOREM FullSyncsAreFull == Spec => CompleteSyncIsComplete
<1> USE HistorySyncAssumption
<1>1. ASSUME TypeOK, IInv, [Next]_vars, phase = "pull", phase' = "save", NEW m \in rows
      PROVE  m \in mem' \/ m \in late \cup torn
  <2> DEFINE new == {k \in rows : k > cursor}
  <2>1. Pull
    BY <1>1 DEF Next, BeginInsert, Commit, Rollback, Receive, OpenTab, CloseTab, Connect,
       Disconnect, Pull, PullFails, PullThrows, SaveSync, RetrySync, EndSync, StartSync, vars
  <2>2. new \in SUBSET Nat /\ IsFiniteSet(new) /\ m \in Nat /\ cursor \in Nat
    <3>1. rows \subseteq 1 .. lastSeq /\ lastSeq \in Nat
      BY <1>1 DEF TypeOK, HistorySyncAssumption
    <3>2. IsFiniteSet(1 .. lastSeq)
      BY <3>1, FS_Interval
    <3>3. rows \subseteq Nat
      BY <3>1
    <3>6. IsFiniteSet(rows)
      BY <3>1, <3>2, FS_Subset
    <3>4. new \in SUBSET rows
      OBVIOUS
    <3>5. cursor \in Nat
      BY <1>1 DEF TypeOK
    <3> QED BY <1>1, <3>3, <3>4, <3>5, <3>6, FS_Subset
  <2>3. Cardinality(First(new, PageSize)) < PageSize /\ PageSize \in Nat
    BY <1>1, <2>1 DEF Pull, HistorySyncAssumption
  <2>4. mem' = mem \cup new
    BY <2>1, <2>2, <2>3, ShortPageIsLast DEF Pull
  <2>5. disk \subseteq mem
    BY <1>1 DEF IInv, SyncHoldsDisk
  <2> QED BY <1>1, <2>2, <2>4, <2>5 DEF IInv, RecoverableUnlessLateOrTorn, Recoverable
<1>2. TypeOK /\ IInv /\ [Next]_vars
        => (phase = "pull" /\ phase' = "save"
              => \A m \in rows : m \in mem' \/ m \in late \cup torn)
  BY <1>1
<1> QED BY <1>2, ReachInvariant, PTL DEF Spec, CompleteSyncIsComplete

-----------------------------------------------------------------------------
(* LiveDelivery: types *)

\* A sequence over a set is one over every larger set.
LEMMA SeqWidens ==
    ASSUME NEW S, NEW T, S \subseteq T
    PROVE  Seq(S) \subseteq Seq(T)
<1> SUFFICES ASSUME NEW s \in Seq(S) PROVE s \in Seq(T)
  OBVIOUS
<1>1. Len(s) \in Nat /\ s \in [1 .. Len(s) -> S]
  OBVIOUS
<1>2. s \in [1 .. Len(s) -> T]
  BY <1>1
<1> QED BY <1>1, <1>2

\* Client.send keeps the types of what it touches, and takes nothing away.
LEMMA SendKeepsTypes ==
    ASSUME LiveTypeOK, NEW c \in Conns, NEW m \in Rows, Send(c, m)
    PROVE  /\ srv' \in [Conns -> {"new", "accepted", "up", "closed", "removed"}]
           /\ out' \in [Conns -> Seq(Rows)] /\ \A k \in Conns : Len(out'[k]) <= OutCap
           /\ took' \in [Conns -> SUBSET Rows]
<1>1. OutCap \in Nat
  BY LiveDeliveryAssumption
<1>2. CASE Accepts(c)
  <2>1. out[c] \in Seq(Rows) /\ Len(out[c]) < OutCap
    BY <1>2 DEF LiveTypeOK, Accepts
  <2>2. Append(out[c], m) \in Seq(Rows) /\ Len(Append(out[c], m)) <= OutCap
    BY <1>1, <2>1
  <2>3. /\ srv' = srv
        /\ out' = [out EXCEPT ![c] = Append(@, m)]
        /\ took' = [took EXCEPT ![c] = @ \cup {m}]
    BY <1>2 DEF Send
  <2>4. out' \in [Conns -> Seq(Rows)] /\ \A k \in Conns : Len(out'[k]) <= OutCap
    BY <2>2, <2>3 DEF LiveTypeOK
  <2>5. took' \in [Conns -> SUBSET Rows]
    BY <2>3 DEF LiveTypeOK
  <2> QED BY <2>3, <2>4, <2>5 DEF LiveTypeOK
<1>3. CASE ~Accepts(c)
  <2>1. << >> \in Seq(Rows) /\ Len(<< >>) <= OutCap
    BY <1>1
  <2> QED BY <1>3, <2>1 DEF LiveTypeOK, Send
<1> QED BY <1>2, <1>3

\* No row is ever taken out of the table.
LEMMA RowsGrow ==
    ASSUME LiveTypeOK, [LiveNext]_liveVars
    PROVE  Rows \subseteq Rows'
<1>1. \/ stage' = stage
      \/ \E m \in Incoming : Insert(m) \/ Snapshot(m) \/ Routed(m)
      \/ Restart
  BY DEF LiveNext, Router, Pending, SendLive, FlushMarks, Upgrade, Register, QueryPending,
     SendPending, MarkPending, Write, Drop, Remove, liveVars, Restart
<1>2. ASSUME NEW m \in Incoming, Insert(m) PROVE Rows \subseteq Rows'
  BY <1>2 DEF Insert, Rows, LiveTypeOK
<1>3. ASSUME NEW m \in Incoming, Snapshot(m) \/ Routed(m) PROVE Rows \subseteq Rows'
  BY <1>3 DEF Snapshot, Routed, Rows, LiveTypeOK
<1>4. ASSUME Restart PROVE Rows \subseteq Rows'
  BY <1>4 DEF Restart, Rows, LiveTypeOK
<1> QED BY <1>1, <1>2, <1>3, <1>4 DEF Rows

\* A step that adds to the rows at most keeps the types of what it leaves alone.
LEMMA TypesWiden ==
    ASSUME LiveTypeOK, Rows \subseteq Rows'
    PROVE  /\ flag \subseteq Rows' /\ marks \subseteq Rows' /\ ok \subseteq Rows'
           /\ out \in [Conns -> Seq(Rows')]
           /\ pend \in [Conns -> SUBSET Rows'] /\ sent \in [Conns -> SUBSET Rows']
           /\ took \in [Conns -> SUBSET Rows']
<1>1. Seq(Rows) \subseteq Seq(Rows')
  BY SeqWidens
<1>2. out \in [Conns -> Seq(Rows')]
  BY <1>1 DEF LiveTypeOK
<1>3. SUBSET Rows \subseteq SUBSET Rows'
  OBVIOUS
<1> QED BY <1>2, <1>3 DEF LiveTypeOK

LEMMA RouteTypes ==
    ASSUME LiveTypeOK, Rows \subseteq Rows', NEW m \in Incoming,
           Insert(m) \/ Snapshot(m) \/ Routed(m)
    PROVE  LiveTypeOK'
<1> DEFINE Stages == {"new", "stored", "sending", "done", "stray"}
<1>1. Insert(m) => stage' \in [Incoming -> Stages] /\ m \in Rows'
  BY DEF Insert, LiveTypeOK, Rows
<1>2. Snapshot(m) \/ Routed(m) => stage' \in [Incoming -> Stages] /\ m \in Rows'
  BY SMTT(30) DEF Snapshot, Routed, LiveTypeOK, Rows
<1>3. flag' \subseteq Rows' /\ marks' \subseteq Rows' /\ ok' \subseteq Rows'
  <2>1. ASSUME Mark(m), m \in Rows' PROVE flag' \subseteq Rows' /\ marks' \subseteq Rows'
    BY <2>1, TypesWiden DEF Mark
  <2> QED BY <1>1, <1>2, <2>1, TypesWiden DEF Insert, Snapshot, Routed, flagVars
<1>4. targets' \in [Incoming -> SUBSET Conns]
  BY DEF Insert, Snapshot, Routed, LiveTypeOK, InClients
<1>5. UNCHANGED <<srv, cli, out, dp, pend, sent, took, crashes>>
  BY DEF Insert, Snapshot, Routed, hubVars, pendVars
<1> HIDE DEF Stages
<1>6. out' \in [Conns -> Seq(Rows')] /\ pend' \in [Conns -> SUBSET Rows']
      /\ sent' \in [Conns -> SUBSET Rows'] /\ took' \in [Conns -> SUBSET Rows']
  BY <1>5, TypesWiden
<1> QED BY <1>1, <1>2, <1>3, <1>4, <1>5, <1>6 DEF LiveTypeOK, Stages

LEMMA SendTypes ==
    ASSUME LiveTypeOK, NEW c \in Conns, NEW m \in Incoming,
           SendLive(m, c) \/ SendPending(c, m)
    PROVE  LiveTypeOK'
<1>0. Rows' = Rows
  BY DEF SendLive, SendPending, Rows
<1>1. m \in Rows /\ Send(c, m)
  BY DEF SendLive, SendPending, LiveTypeOK, Rows
<1>2. targets' \in [Incoming -> SUBSET Conns] /\ ok' \subseteq Rows
      /\ pend' \in [Conns -> SUBSET Rows] /\ sent' \in [Conns -> SUBSET Rows]
  <2>1. CASE SendLive(m, c)
    BY <1>1, <2>1 DEF SendLive, LiveTypeOK, pendVars
  <2>2. CASE SendPending(c, m)
    <3>1. pend[c] \ {m} \subseteq Rows /\ sent[c] \cup {m} \subseteq Rows
      BY <1>1 DEF LiveTypeOK
    <3>2. pend' \in [Conns -> SUBSET Rows]
      BY <2>2, <3>1 DEF SendPending, LiveTypeOK
    <3>3. sent' \in [Conns -> SUBSET Rows]
      BY <2>2, <3>1 DEF SendPending, LiveTypeOK
    <3> QED BY <2>2, <3>2, <3>3 DEF SendPending, LiveTypeOK
  <2> QED BY <2>1, <2>2
<1>3. UNCHANGED <<stage, flag, marks, cli, dp, crashes>>
  BY DEF SendLive, SendPending, flagVars, pendVars
<1> QED BY <1>0, <1>1, <1>2, <1>3, SendKeepsTypes DEF LiveTypeOK

LEMMA ConnTypes ==
    ASSUME LiveTypeOK, NEW c \in Conns,
           \/ Upgrade(c) \/ Register(c) \/ QueryPending(c) \/ MarkPending(c)
           \/ Write(c) \/ Drop(c) \/ Remove(c)
    PROVE  LiveTypeOK'
<1>0. Rows' = Rows
  BY DEF Upgrade, Register, QueryPending, MarkPending, Write, Drop, Remove, Rows
<1>1. CASE Write(c)
  <2>1. /\ out[c] \in Seq(Rows) /\ Len(out[c]) <= OutCap /\ out[c] # << >>
        /\ OutCap \in Nat
    BY <1>1, LiveDeliveryAssumption DEF Write, LiveTypeOK
  <2>2. Tail(out[c]) \in Seq(Rows) /\ Len(Tail(out[c])) <= OutCap
    BY <2>1
  <2>3. << >> \in Seq(Rows) /\ Len(<< >>) <= OutCap
    BY <2>1
  <2>4. out' \in [Conns -> Seq(Rows)] /\ \A k \in Conns : Len(out'[k]) <= OutCap
    BY ZenonT(30), <1>1, <2>2, <2>3 DEF Write, LiveTypeOK
  <2>5. srv' \in [Conns -> {"new", "accepted", "up", "closed", "removed"}]
    BY ZenonT(30), <1>1 DEF Write, LiveTypeOK
  <2> QED BY <1>0, <1>1, <2>4, <2>5 DEF Write, LiveTypeOK, flagVars, pendVars
<1>2. CASE Remove(c)
  <2>1. << >> \in Seq(Rows) /\ Len(<< >>) <= OutCap
    BY LiveDeliveryAssumption
  <2> QED BY <1>0, <1>2, <2>1 DEF Remove, LiveTypeOK, flagVars, pendVars
<1>3. CASE Upgrade(c)
  BY <1>0, <1>3 DEF Upgrade, LiveTypeOK, flagVars, pendVars
<1>6. CASE Register(c)
  BY <1>0, <1>6 DEF Register, LiveTypeOK, flagVars
<1>7. CASE Drop(c)
  BY <1>0, <1>7 DEF Drop, LiveTypeOK, flagVars, hubVars, pendVars
<1>4. CASE QueryPending(c)
  <2>1. Oldest((Rows \cap Direct) \ flag, PendingCap) \subseteq Rows
    BY DEF Oldest
  <2>2. pend' \in [Conns -> SUBSET Rows]
    BY <1>4, <2>1 DEF QueryPending, LiveTypeOK
  <2>3. dp' \in [Conns -> {"none", "query", "send", "done", "failed"}]
    BY <1>4 DEF QueryPending, LiveTypeOK
  <2> QED BY <1>0, <1>4, <2>2, <2>3 DEF QueryPending, LiveTypeOK, flagVars, hubVars
<1>5. CASE MarkPending(c)
  BY <1>0, <1>5 DEF MarkPending, LiveTypeOK, hubVars
<1> QED BY <1>1, <1>2, <1>3, <1>4, <1>5, <1>6, <1>7

LEMMA RestartTypes ==
    ASSUME LiveTypeOK, Rows \subseteq Rows', Restart
    PROVE  LiveTypeOK'
<1>1. << >> \in Seq(Rows') /\ Len(<< >>) <= OutCap
  BY LiveDeliveryAssumption
<1>2. stage' \in [Incoming -> {"new", "stored", "sending", "done", "stray"}]
  BY DEF Restart, LiveTypeOK
<1>3. flag' \subseteq Rows' /\ ok' \subseteq Rows' /\ took' \in [Conns -> SUBSET Rows']
  BY TypesWiden DEF Restart
<1>4. crashes' \in 0 .. MaxCrashes
  BY LiveDeliveryAssumption DEF Restart, LiveTypeOK
<1>5. out' \in [Conns -> Seq(Rows')] /\ \A c \in Conns : Len(out'[c]) <= OutCap
  BY <1>1 DEF Restart
<1>6. srv' \in [Conns -> {"new", "accepted", "up", "closed", "removed"}]
  BY DEF Restart
<1> QED BY <1>2, <1>3, <1>4, <1>5, <1>6 DEF Restart, LiveTypeOK

LEMMA LiveTypeStep == LiveTypeOK /\ [LiveNext]_liveVars => LiveTypeOK'
<1> SUFFICES ASSUME LiveTypeOK, [LiveNext]_liveVars PROVE LiveTypeOK'
  OBVIOUS
<1>0. Rows \subseteq Rows'
  BY RowsGrow
<1>1. ASSUME NEW m \in Incoming, Insert(m) \/ Snapshot(m) \/ Routed(m) PROVE LiveTypeOK'
  BY <1>0, <1>1, RouteTypes
<1>2. ASSUME NEW m \in Incoming, NEW c \in Conns, SendLive(m, c) \/ SendPending(c, m)
      PROVE  LiveTypeOK'
  BY <1>2, SendTypes
<1>3. ASSUME NEW c \in Conns, \/ Upgrade(c) \/ Register(c) \/ QueryPending(c) \/ MarkPending(c)
                              \/ Write(c) \/ Drop(c) \/ Remove(c)
      PROVE  LiveTypeOK'
  BY <1>3, ConnTypes
<1>4. CASE FlushMarks
  BY <1>4 DEF FlushMarks, LiveTypeOK, Rows, hubVars, pendVars
<1>5. CASE Restart
  BY <1>0, <1>5, RestartTypes
<1>6. CASE UNCHANGED liveVars
  BY <1>6 DEF liveVars, flagVars, hubVars, pendVars, LiveTypeOK, Rows
<1> QED BY <1>1, <1>2, <1>3, <1>4, <1>5, <1>6 DEF LiveNext, Router, Pending

\* The variables of the live delivery keep their types; in particular no
\* connection's buffer grows beyond clientSendBuffer.
THEOREM LiveTypeCorrect == LiveSpec => []LiveTypeOK
<1>1. LiveInit => LiveTypeOK
  <2> SUFFICES ASSUME LiveInit PROVE LiveTypeOK
    OBVIOUS
  <2>1. << >> \in Seq(Rows) /\ Len(<< >>) <= OutCap /\ MaxCrashes \in Nat
    BY LiveDeliveryAssumption
  <2> QED BY <2>1 DEF LiveInit, LiveTypeOK
<1> QED BY <1>1, LiveTypeStep, PTL DEF LiveSpec

-----------------------------------------------------------------------------
(* LiveDelivery: what the delivered flag claims *)

\* A connection took whatever routeMessage or deliverPending counts as sent.
HandedInv ==
    /\ ok \subseteq Handed
    /\ \A c \in Conns : sent[c] \subseteq took[c]
    /\ FlaggedWasHanded

\* Nobody gives back what a connection has taken.
LEMMA HandedGrows ==
    ASSUME LiveTypeOK, [LiveNext]_liveVars
    PROVE  /\ \A c \in Conns : took[c] \subseteq took'[c]
           /\ Handed \subseteq Handed'
<1>1. took' = took \/ \E c \in Conns, m \in Incoming : Send(c, m)
  BY DEF LiveNext, Router, Pending, SendLive, FlushMarks, Upgrade, Register, QueryPending,
     SendPending, MarkPending, Write, Drop, Remove, liveVars, hubVars, Restart, Insert,
     Snapshot, Routed
<1>2. \A c \in Conns : took[c] \subseteq took'[c]
  BY ZenonT(30), <1>1 DEF Send, LiveTypeOK
<1> QED BY <1>2 DEF Handed

\* Client.send hands over what it accepts.
LEMMA SendHands ==
    ASSUME LiveTypeOK, NEW c \in Conns, NEW m, Send(c, m), Accepts(c)
    PROVE  m \in took'[c] /\ m \in Handed'
<1>1. m \in took'[c]
  BY DEF Send, LiveTypeOK
<1> QED BY <1>1 DEF Handed

LEMMA HandedStep == LiveTypeOK /\ HandedInv /\ [LiveNext]_liveVars => HandedInv'
<1> SUFFICES ASSUME LiveTypeOK, HandedInv, [LiveNext]_liveVars PROVE HandedInv'
  OBVIOUS
<1>0. Handed \subseteq Handed' /\ \A c \in Conns : took[c] \subseteq took'[c]
  BY HandedGrows
<1>1. ASSUME NEW m \in Incoming, Insert(m) PROVE HandedInv'
  BY <1>0, <1>1 DEF Insert, HandedInv, FlaggedWasHanded, flagVars, pendVars
<1>2. ASSUME NEW m \in Incoming, Snapshot(m) \/ Routed(m) PROVE HandedInv'
  <2>1. (flag' \cup marks') \cap Direct \subseteq ((flag \cup marks \cup ok) \cap Direct)
    BY <1>2 DEF Snapshot, Routed, Mark, flagVars
  <2> QED BY <1>0, <1>2, <2>1 DEF Snapshot, Routed, HandedInv, FlaggedWasHanded, pendVars
<1>3. ASSUME NEW m \in Incoming, NEW c \in Conns, SendLive(m, c) PROVE HandedInv'
  <2>1. Accepts(c) => m \in Handed'
    BY <1>3, SendHands DEF SendLive
  <2> QED BY <1>0, <1>3, <2>1 DEF SendLive, HandedInv, FlaggedWasHanded, flagVars, pendVars
<1>4. ASSUME NEW m \in Incoming, NEW c \in Conns, SendPending(c, m) PROVE HandedInv'
  <2>1. Accepts(c) => m \in took'[c]
    BY <1>4, SendHands DEF SendPending
  <2>2. \A k \in Conns : sent'[k] \subseteq took'[k]
    BY <1>0, <1>4, <2>1 DEF SendPending, HandedInv, LiveTypeOK
  <2> QED BY <1>0, <1>4, <2>2 DEF SendPending, HandedInv, FlaggedWasHanded, flagVars
<1>5. ASSUME NEW c \in Conns, MarkPending(c) PROVE HandedInv'
  <2>1. sent[c] \subseteq Handed
    BY DEF HandedInv, Handed
  <2>2. \A k \in Conns : sent'[k] \subseteq sent[k]
    BY <1>5 DEF MarkPending, LiveTypeOK
  <2> QED BY <1>0, <1>5, <2>1, <2>2 DEF MarkPending, HandedInv, FlaggedWasHanded
<1>6. ASSUME NEW c \in Conns, \/ Upgrade(c) \/ Register(c) \/ QueryPending(c)
                              \/ Write(c) \/ Drop(c) \/ Remove(c)
      PROVE  HandedInv'
  BY <1>0, <1>6 DEF Upgrade, Register, QueryPending, Write, Drop, Remove, HandedInv,
     FlaggedWasHanded, flagVars, pendVars
<1>7. CASE FlushMarks
  BY <1>0, <1>7 DEF FlushMarks, HandedInv, FlaggedWasHanded, pendVars
<1>8. CASE Restart
  BY <1>0, <1>8 DEF Restart, HandedInv, FlaggedWasHanded
<1>9. CASE UNCHANGED liveVars
  BY <1>0, <1>9 DEF liveVars, flagVars, hubVars, pendVars, HandedInv, FlaggedWasHanded
<1> QED BY <1>1, <1>2, <1>3, <1>4, <1>5, <1>6, <1>7, <1>8, <1>9 DEF LiveNext, Router, Pending

LEMMA HandedInvariant == LiveSpec => [](LiveTypeOK /\ HandedInv)
<1>1. LiveInit => HandedInv
  BY DEF LiveInit, HandedInv, FlaggedWasHanded
<1> QED BY <1>1, HandedStep, LiveTypeCorrect, PTL DEF LiveSpec

\* A delivered flag, or a mark under way to it, tells the truth: whatever the
\* interleaving of routing, offline queues, batches and failures, a live
\* connection took the message.
THEOREM FlagsTellTheTruth == LiveSpec => []FlaggedWasHanded
BY HandedInvariant, PTL DEF HandedInv

(* LiveDelivery: routing against the offline queue *)

\* What is routed past or with a registered connection whose queue was read: it
\* is handed over, still in the queue, or on its way to that very connection.
Covered(c, m) ==
    \/ m \in Handed \cup pend[c]
    \/ stage[m] = "sending" /\ c \in targets[m]

GapInv ==
    /\ \A c \in Conns : dp[c] = "done" => pend[c] = {}
    /\ Cardinality(Direct) <= PendingCap =>
         \A c \in Conns, m \in Direct :
             srv[c] = "up" /\ dp[c] \in {"send", "done"} /\ stage[m] \in {"sending", "done"}
                 => Covered(c, m)

\* A queue that fits into one query is read as a whole.
LEMMA OldestIsAll ==
    ASSUME Cardinality(Direct) <= PendingCap, NEW S \in SUBSET Direct
    PROVE  Oldest(S, PendingCap) = S
<1>1. IsFiniteSet(Direct)
  BY LiveDeliveryAssumption, FS_Subset
<1>2. ASSUME NEW m \in S PROVE Cardinality({k \in S : k <= m}) <= PendingCap
  <2> DEFINE B == {k \in S : k <= m}
  <2>1. B \in SUBSET Direct
    OBVIOUS
  <2> HIDE DEF B
  <2>2. Cardinality(B) <= Cardinality(Direct) /\ IsFiniteSet(B)
    BY <1>1, <2>1, FS_Subset
  <2>3. Cardinality(B) \in Nat /\ Cardinality(Direct) \in Nat
    BY <1>1, <2>2, FS_CardinalityType
  <2>4. Cardinality(B) <= PendingCap
    BY <2>2, <2>3, LiveDeliveryAssumption
  <2> QED BY <2>4 DEF B
<1> QED BY <1>2 DEF Oldest

\* A step that leaves the connection's registration and its queue alone.
LEMMA CoverKept ==
    ASSUME LiveTypeOK, GapInv, Handed \subseteq Handed',
           UNCHANGED <<pend, dp>>,
           \A c \in Conns : srv'[c] = "up" => srv[c] = "up",
           UNCHANGED <<stage, targets>>
    PROVE  GapInv'
BY DEF GapInv, Covered

LEMMA GapStep == LiveTypeOK /\ HandedInv /\ GapInv /\ [LiveNext]_liveVars => GapInv'
<1> SUFFICES ASSUME LiveTypeOK, HandedInv, GapInv, [LiveNext]_liveVars PROVE GapInv'
  OBVIOUS
<1>0. Handed \subseteq Handed'
  BY HandedGrows
<1>1. ASSUME NEW m \in Incoming, Insert(m) PROVE GapInv'
  BY <1>0, <1>1 DEF Insert, GapInv, Covered, LiveTypeOK, hubVars, pendVars
<1>2. ASSUME NEW m \in Incoming, Snapshot(m) PROVE GapInv'
  <2>1. targets'[m] = InClients /\ \A c \in Conns : srv[c] = "up" => c \in InClients
    BY <1>2 DEF Snapshot, LiveTypeOK, InClients
  <2>2. \A k \in Incoming \ {m} : stage'[k] = stage[k] /\ targets'[k] = targets[k]
    BY <1>2 DEF Snapshot, LiveTypeOK
  <2>3. stage'[m] = "sending" /\ UNCHANGED <<srv, dp, pend>> /\ Direct \subseteq Incoming
    BY <1>2, LiveDeliveryAssumption DEF Snapshot, LiveTypeOK, hubVars, pendVars
  <2> QED BY <1>0, <2>1, <2>2, <2>3 DEF GapInv, Covered
<1>3. ASSUME NEW m \in Incoming, Routed(m) PROVE GapInv'
  <2>1. \A k \in Incoming \ {m} : stage'[k] = stage[k]
    BY <1>3 DEF Routed, LiveTypeOK
  <2>2. stage[m] = "sending" /\ targets[m] = {} /\ UNCHANGED <<srv, dp, pend, targets>>
        /\ Direct \subseteq Incoming
    BY <1>3, LiveDeliveryAssumption DEF Routed, hubVars, pendVars
  <2> QED BY <1>0, <2>1, <2>2 DEF GapInv, Covered
<1>4. ASSUME NEW m \in Incoming, NEW d \in Conns, SendLive(m, d) PROVE GapInv'
  <2>1. \A k \in Incoming, c \in Conns : c \in targets[k] => c \in targets'[k] \/ (k = m /\ c = d)
    BY <1>4 DEF SendLive, LiveTypeOK
  <2>2. \A c \in Conns : srv'[c] = "up" => srv[c] = "up" /\ (c = d => Accepts(d))
    BY <1>4 DEF SendLive, Send, Accepts, LiveTypeOK
  <2>3. Accepts(d) => m \in Handed'
    BY <1>4, SendHands DEF SendLive
  <2>4. UNCHANGED <<stage, dp, pend>> /\ Direct \subseteq Incoming
    BY <1>4, LiveDeliveryAssumption DEF SendLive, pendVars
  <2> QED BY <1>0, <2>1, <2>2, <2>3, <2>4 DEF GapInv, Covered
<1>5. ASSUME NEW m \in Incoming, NEW d \in Conns, SendPending(d, m) PROVE GapInv'
  <2>1. \A c \in Conns : srv'[c] = "up" => srv[c] = "up" /\ (c = d => Accepts(d))
    BY <1>5 DEF SendPending, Send, Accepts, LiveTypeOK
  <2>2. Accepts(d) => m \in Handed'
    BY <1>5, SendHands DEF SendPending
  <2>3. \A c \in Conns : \A k \in pend[c] :
           k \in pend'[c] \/ (c = d /\ (k = m \/ ~Accepts(d)))
    BY <1>5 DEF SendPending, LiveTypeOK
  <2>4. UNCHANGED <<stage, targets, dp>> /\ dp[d] = "send"
    BY <1>5 DEF SendPending
  <2>5. \A c \in Conns : pend'[c] \subseteq pend[c]
    BY <1>5 DEF SendPending, LiveTypeOK
  <2> QED BY <1>0, <2>1, <2>2, <2>3, <2>4, <2>5 DEF GapInv, Covered
<1>6. ASSUME NEW d \in Conns, QueryPending(d) PROVE GapInv'
  <2> DEFINE S == (Rows \cap Direct) \ flag
  <2>1. \A c \in Conns \ {d} : dp'[c] = dp[c] /\ pend'[c] = pend[c]
    BY <1>6 DEF QueryPending, LiveTypeOK
  <2>2. \/ dp'[d] = "send" /\ pend'[d] = Oldest(S, PendingCap)
        \/ dp'[d] = "failed"
    BY <1>6 DEF QueryPending, LiveTypeOK
  <2>3. ASSUME Cardinality(Direct) <= PendingCap, dp'[d] = "send", NEW m \in Direct,
               stage[m] \in {"sending", "done"}
        PROVE  m \in Handed \/ m \in pend'[d]
    <3>1. m \in Incoming /\ m \in Rows
      BY <2>3, LiveDeliveryAssumption DEF Rows
    <3>2. m \in flag => m \in Handed
      BY DEF HandedInv, FlaggedWasHanded
    <3>3. Oldest(S, PendingCap) = S
      BY <2>3, OldestIsAll
    <3> QED BY <2>2, <2>3, <3>1, <3>2, <3>3
  <2>4. UNCHANGED <<stage, targets, srv>>
    BY <1>6 DEF QueryPending, hubVars
  <2> HIDE DEF S
  <2> QED BY <1>0, <2>1, <2>2, <2>3, <2>4 DEF GapInv, Covered
<1>7. ASSUME NEW d \in Conns, MarkPending(d) PROVE GapInv'
  <2>1. /\ dp[d] = "send" /\ pend[d] = {} /\ dp'[d] = "done" /\ UNCHANGED pend
        /\ \A c \in Conns \ {d} : dp'[c] = dp[c]
    BY <1>7 DEF MarkPending, LiveTypeOK
  <2>2. UNCHANGED <<stage, targets, srv>>
    BY <1>7 DEF MarkPending, hubVars
  <2> QED BY <1>0, <2>1, <2>2 DEF GapInv, Covered
<1>8. ASSUME NEW d \in Conns, Register(d) PROVE GapInv'
  <2>1. /\ dp'[d] = "query" /\ UNCHANGED <<pend, stage, targets>>
        /\ \A c \in Conns \ {d} : dp'[c] = dp[c] /\ srv'[c] = srv[c]
    BY <1>8 DEF Register, LiveTypeOK
  <2> QED BY <1>0, <2>1 DEF GapInv, Covered
<1>9. ASSUME NEW d \in Conns, Upgrade(d) \/ Write(d) \/ Drop(d) \/ Remove(d)
      PROVE  GapInv'
  <2>1. \A c \in Conns : srv'[c] = "up" => srv[c] = "up"
    BY <1>9 DEF Upgrade, Write, Drop, Remove, LiveTypeOK, hubVars
  <2>2. UNCHANGED <<stage, targets, pend, dp>>
    BY <1>9 DEF Upgrade, Write, Drop, Remove, pendVars
  <2> QED BY <1>0, <2>1, <2>2, CoverKept
<1>10. CASE FlushMarks
  BY <1>0, <1>10, CoverKept DEF FlushMarks, hubVars, pendVars
<1>11. CASE Restart
  BY <1>11 DEF Restart, GapInv
<1>12. CASE UNCHANGED liveVars
  BY <1>0, <1>12, CoverKept DEF liveVars, hubVars, pendVars
<1> QED BY <1>1, <1>2, <1>3, <1>4, <1>5, <1>6, <1>7, <1>8, <1>9, <1>10, <1>11, <1>12
        DEF LiveNext, Router, Pending

\* Registering before the offline queue is read leaves no gap between the two: as
\* long as the queue fits into one query, whatever was routed has been taken.
THEOREM NoMessageBetween == LiveSpec => []NoGapAfterPending
<1>1. LiveInit => GapInv
  BY DEF LiveInit, GapInv
<1>2. LiveTypeOK /\ GapInv => NoGapAfterPending
  BY DEF GapInv, Covered, NoGapAfterPending
<1> QED BY <1>1, <1>2, GapStep, HandedInvariant, PTL DEF LiveSpec

-----------------------------------------------------------------------------
(* Outbox: the queue *)

\* Taking a message off the queue takes no other off.
LEMMA WithoutOne ==
    ASSUME NEW S, NEW s \in Seq(S), NEW m
    PROVE  /\ Without(s, m) \in Seq(S)
           /\ \A k \in Elems(s) : k # m => k \in Elems(Without(s, m))
<1>1. CASE m \notin Elems(s)
  BY <1>1 DEF Without
<1>2. CASE m \in Elems(s)
  <2> DEFINE i == CHOOSE i \in DOMAIN s : s[i] = m
             t == [k \in 1 .. Len(s) - 1 |-> IF k < i THEN s[k] ELSE s[k + 1]]
  <2>1. i \in 1 .. Len(s) /\ s[i] = m
    BY <1>2 DEF Elems
  <2>2. Without(s, m) = t
    BY <1>2 DEF Without
  <2>3. Len(s) \in Nat /\ DOMAIN s = 1 .. Len(s) /\ \A k \in 1 .. Len(s) : s[k] \in S
    OBVIOUS
  <2> HIDE DEF i
  <2>4. t \in Seq(S)
    <3>1. t \in [1 .. Len(s) - 1 -> S]
      BY <2>1, <2>3
    <3>2. Len(s) - 1 \in Nat
      BY <2>1, <2>3
    <3> HIDE DEF t
    <3> QED BY <3>1, <3>2
  <2>5. ASSUME NEW j \in 1 .. Len(s), s[j] # m
        PROVE  \E k \in 1 .. Len(s) - 1 : t[k] = s[j]
    <3>1. CASE j < i
      BY <2>1, <2>3, <3>1
    <3>2. CASE i < j
      <4>1. j - 1 \in 1 .. Len(s) - 1 /\ ~(j - 1 < i) /\ (j - 1) + 1 = j
        BY <2>1, <2>3, <3>2
      <4> QED BY <4>1
    <3> QED BY <2>1, <2>5, <3>1, <3>2
  <2>6. DOMAIN t = 1 .. Len(s) - 1
    OBVIOUS
  <2> HIDE DEF t
  <2> QED BY <2>2, <2>3, <2>4, <2>5, <2>6 DEF Elems
<1> QED BY <1>1, <1>2

\* A new message goes to the end, and none is taken off for it.
LEMMA AppendOne ==
    ASSUME NEW S, NEW s \in Seq(S), NEW m \in S
    PROVE  Append(s, m) \in Seq(S) /\ Elems(Append(s, m)) = Elems(s) \cup {m}
<1>1. /\ Append(s, m) \in Seq(S) /\ Len(Append(s, m)) = Len(s) + 1 /\ Len(s) \in Nat
      /\ DOMAIN s = 1 .. Len(s) /\ DOMAIN Append(s, m) = 1 .. Len(s) + 1
      /\ \A i \in 1 .. Len(s) : Append(s, m)[i] = s[i]
      /\ Append(s, m)[Len(s) + 1] = m
  OBVIOUS
<1>2. Elems(s) \cup {m} \subseteq Elems(Append(s, m))
  BY <1>1 DEF Elems
<1>3. Elems(Append(s, m)) \subseteq Elems(s) \cup {m}
  <2> SUFFICES ASSUME NEW i \in 1 .. Len(s) + 1
               PROVE  Append(s, m)[i] \in Elems(s) \cup {m}
    BY <1>1 DEF Elems
  <2>1. i \in 1 .. Len(s) \/ i = Len(s) + 1
    BY <1>1
  <2> QED BY <1>1, <2>1 DEF Elems
<1> QED BY <1>1, <1>2, <1>3

(* Outbox: types *)

\* What a handler saves has passed the checks.
OutboxInv == OutboxTypeOK /\ \A c \in Sockets : job[c] \cap Refused = {}

LEMMA ClientTypes ==
    ASSUME OutboxInv,
           \/ \E m \in Ids : Compose(m)
           \/ \E c \in Sockets : OpenSocket(c)
           \/ LoseSocket \/ GetAck \/ Reload
    PROVE  OutboxInv'
<1>1. ASSUME NEW m \in Ids, Compose(m) PROVE OutboxInv'
  <2>1. Append(pending, m) \in Seq(Ids) /\ \A c \in Sockets : Append(wire[c], m) \in Seq(Ids)
    BY AppendOne DEF OutboxInv, OutboxTypeOK
  <2>2. wire' \in [Sockets -> Seq(Ids)]
    BY <1>1, <2>1 DEF Compose, OutboxInv, OutboxTypeOK
  <2>3. chat' \in [Ids -> {"none", "sending", "sent", "gone"}]
    BY <1>1 DEF Compose, OutboxInv, OutboxTypeOK
  <2> QED BY <1>1, <2>1, <2>2, <2>3 DEF Compose, OutboxInv, OutboxTypeOK, handlerVars
<1>2. ASSUME NEW c \in Sockets, OpenSocket(c) PROVE OutboxInv'
  <2>1. pending \o pending \in Seq(Ids)
    BY DEF OutboxInv, OutboxTypeOK
  <2>2. wire' \in [Sockets -> Seq(Ids)]
    BY <1>2, <2>1 DEF OpenSocket, OutboxInv, OutboxTypeOK
  <2>3. hpc' \in [Sockets -> {"none", "read", "save", "over"}]
    BY <1>2 DEF OpenSocket, OutboxInv, OutboxTypeOK
  <2> QED BY <1>2, <2>2, <2>3 DEF OpenSocket, OutboxInv, OutboxTypeOK
<1>3. CASE LoseSocket
  BY <1>3 DEF LoseSocket, OutboxInv, OutboxTypeOK, handlerVars
<1>4. CASE GetAck
  <2> DEFINE a == Head(down[cur])
  <2>1. cur \in Sockets /\ down[cur] \in Seq(Ack) /\ down[cur] # << >>
    BY <1>4 DEF GetAck, OutboxInv, OutboxTypeOK
  <2>2. a \in Ack /\ Tail(down[cur]) \in Seq(Ack)
    BY <2>1
  <2>3. pending' \in Seq(Ids)
    BY <1>4, WithoutOne DEF GetAck, OutboxInv, OutboxTypeOK
  <2>4. down' \in [Sockets -> Seq(Ack)]
    BY <1>4, <2>2 DEF GetAck, OutboxInv, OutboxTypeOK
  <2> HIDE DEF a
  <2>5. chat' \in [Ids -> {"none", "sending", "sent", "gone"}]
    <3>1. PICK v \in {"none", "sending", "sent", "gone"} : chat' = [chat EXCEPT ![a.id] = v]
      BY <1>4, <2>2 DEF GetAck, OutboxInv, OutboxTypeOK, Ack, a
    <3> QED BY <3>1 DEF OutboxInv, OutboxTypeOK
  <2> QED BY <1>4, <2>3, <2>4, <2>5 DEF GetAck, OutboxInv, OutboxTypeOK, handlerVars
<1>5. CASE Reload
  BY <1>5 DEF Reload, OutboxInv, OutboxTypeOK, handlerVars
<1> QED BY <1>1, <1>2, <1>3, <1>4, <1>5

\* An ACK, to one connection or to all that have a handler.
LEMMA AckTypes ==
    ASSUME OutboxInv, NEW c \in Sockets, NEW a \in Ack, ToOne(c, a) \/ ToAll(a)
    PROVE  down' \in [Sockets -> Seq(Ack)]
<1>1. \A k \in Sockets : Append(down[k], a) \in Seq(Ack)
  BY AppendOne DEF OutboxInv, OutboxTypeOK
<1> QED BY ZenonT(30), <1>1 DEF ToOne, ToAll, OutboxInv, OutboxTypeOK

LEMMA ServerTypes ==
    ASSUME OutboxInv,
           \/ \E m \in Ids : LateSave(m)
           \/ \E c \in Sockets : Read(c) \/ Save(c) \/ SaveFails(c) \/ HangUp(c)
           \/ ServerRestart
    PROVE  OutboxInv'
<1>0. MaxFails \in Nat /\ MaxRestarts \in Nat /\ Refused \subseteq Ids
  BY OutboxAssumption
<1>1. ASSUME NEW m \in Ids, LateSave(m) PROVE OutboxInv'
  BY <1>1 DEF LateSave, OutboxInv, OutboxTypeOK, clientVars, handlerVars
<1>2. ASSUME NEW c \in Sockets, Read(c) PROVE OutboxInv'
  <2> DEFINE m == Head(wire[c])
  <2>1. m \in Ids /\ Tail(wire[c]) \in Seq(Ids)
    BY <1>2 DEF Read, OutboxInv, OutboxTypeOK
  <2>2. wire' \in [Sockets -> Seq(Ids)]
    BY <1>2, <2>1 DEF Read, OutboxInv, OutboxTypeOK
  <2> HIDE DEF m
  <2>3. CASE m \in Refused
    <3>1. ToOne(c, [id |-> m, ok |-> FALSE]) /\ UNCHANGED <<hpc, job>>
      BY <1>2, <2>3 DEF Read, handlerVars, m
    <3>2. [id |-> m, ok |-> FALSE] \in Ack
      BY <2>1 DEF Ack
    <3>3. down' \in [Sockets -> Seq(Ack)]
      BY <3>1, <3>2, AckTypes
    <3> QED BY <1>2, <2>2, <3>1, <3>3 DEF Read, OutboxInv, OutboxTypeOK, clientVars
  <2>4. CASE m \notin Refused
    <3>1. hpc' = [hpc EXCEPT ![c] = "save"] /\ job' = [job EXCEPT ![c] = {m}] /\ down' = down
      BY <1>2, <2>4 DEF Read, m
    <3>2. /\ hpc' \in [Sockets -> {"none", "read", "save", "over"}]
          /\ job' \in [Sockets -> SUBSET Ids] /\ \A k \in Sockets : job'[k] \cap Refused = {}
      BY <2>1, <2>4, <3>1 DEF OutboxInv, OutboxTypeOK
    <3> QED BY <1>2, <2>2, <3>1, <3>2 DEF Read, OutboxInv, OutboxTypeOK, clientVars
  <2> QED BY <2>3, <2>4
<1>3. ASSUME NEW c \in Sockets, Save(c) \/ SaveFails(c) PROVE OutboxInv'
  <2>1. job[c] \subseteq Ids \ Refused
    BY DEF OutboxInv, OutboxTypeOK
  <2>2. /\ hpc' \in [Sockets -> {"none", "read", "save", "over"}]
        /\ job' \in [Sockets -> SUBSET Ids] /\ \A k \in Sockets : job'[k] \cap Refused = {}
    BY <1>3 DEF Save, SaveFails, EndJob, OutboxInv, OutboxTypeOK
  <2>3. down' \in [Sockets -> Seq(Ack)]
    <3>1. PICK m \in job[c] : \/ ToOne(c, [id |-> m, ok |-> TRUE])
                              \/ ToAll([id |-> m, ok |-> FALSE])
      BY <1>3 DEF Save, SaveFails
    <3>2. [id |-> m, ok |-> TRUE] \in Ack /\ [id |-> m, ok |-> FALSE] \in Ack
      BY <2>1 DEF Ack
    <3> QED BY <3>1, <3>2, AckTypes
  <2>4. stored' \subseteq Ids \ Refused /\ limbo' \subseteq Ids \ Refused
        /\ fails' \in 0 .. MaxFails
    BY <1>0, <1>3, <2>1 DEF Save, SaveFails, OutboxInv, OutboxTypeOK
  <2> QED BY <1>3, <2>2, <2>3, <2>4 DEF Save, SaveFails, OutboxInv, OutboxTypeOK, clientVars
<1>4. ASSUME NEW c \in Sockets, HangUp(c) PROVE OutboxInv'
  BY <1>4 DEF HangUp, OutboxInv, OutboxTypeOK, clientVars
<1>5. CASE ServerRestart
  <2>1. UNION {job[c] : c \in Sockets} \subseteq Ids \ Refused
    BY DEF OutboxInv, OutboxTypeOK
  <2> QED BY <1>0, <1>5, <2>1 DEF ServerRestart, OutboxInv, OutboxTypeOK
<1> QED BY <1>1, <1>2, <1>3, <1>4, <1>5

LEMMA OutboxValid == OutboxSpec => []OutboxInv
<1>1. OutboxInit => OutboxInv
  <2> SUFFICES ASSUME OutboxInit PROVE OutboxInv
    OBVIOUS
  <2>1. MaxFails \in Nat /\ MaxRestarts \in Nat
    BY OutboxAssumption
  <2> QED BY <2>1 DEF OutboxInit, OutboxInv, OutboxTypeOK
<1>2. OutboxInv /\ [OutboxNext]_outboxVars => OutboxInv'
  <2> SUFFICES ASSUME OutboxInv, [OutboxNext]_outboxVars PROVE OutboxInv'
    OBVIOUS
  <2>1. CASE UNCHANGED outboxVars
    BY <2>1 DEF outboxVars, clientVars, handlerVars, OutboxInv, OutboxTypeOK
  <2> QED BY <2>1, ClientTypes, ServerTypes DEF OutboxNext, Handler
<1> QED BY <1>1, <1>2, PTL DEF OutboxSpec

\* The variables of a sender and its connections' handlers keep their types, and
\* nothing the server rejects is ever in its table.
THEOREM OutboxTypeCorrect == OutboxSpec => []OutboxTypeOK
BY OutboxValid, PTL DEF OutboxInv

(* Outbox: no message is lost in silence *)

\* An ACK of success under way is one that the table bears out.
LEMMA AcksStep == OutboxInv /\ AcksAreTrue /\ [OutboxNext]_outboxVars => AcksAreTrue'
<1> SUFFICES ASSUME OutboxInv, AcksAreTrue, [OutboxNext]_outboxVars,
                    NEW c \in Sockets, NEW i \in DOMAIN down'[c], down'[c][i].ok
             PROVE  down'[c][i].id \in stored'
  BY DEF AcksAreTrue
<1>0. down[c] \in Seq(Ack) /\ down \in [Sockets -> Seq(Ack)]
  BY DEF OutboxInv, OutboxTypeOK
<1>1. stored \subseteq stored'
  BY DEF OutboxNext, Compose, LateSave, OpenSocket, Handler, Read, Save, SaveFails, HangUp,
     LoseSocket, GetAck, Reload, ServerRestart, outboxVars
<1>2. \/ down'[c] = down[c]
      \/ down'[c] = << >>
      \/ down[c] # << >> /\ down'[c] = Tail(down[c])
      \/ \E m \in Ids : down'[c] = Append(down[c], [id |-> m, ok |-> FALSE])
      \/ \E m \in stored' : down'[c] = Append(down[c], [id |-> m, ok |-> TRUE])
  <2>1. CASE GetAck
    BY <1>0, <2>1 DEF GetAck
  <2>2. ASSUME NEW d \in Sockets, Read(d)
        PROVE  \/ down'[c] = down[c]
               \/ \E m \in Ids : down'[c] = Append(down[c], [id |-> m, ok |-> FALSE])
    <3>1. Head(wire[d]) \in Ids
      BY <2>2 DEF Read, OutboxInv, OutboxTypeOK
    <3> QED BY <1>0, <2>2, <3>1 DEF Read, ToOne
  <2>3. ASSUME NEW d \in Sockets, Save(d)
        PROVE  \/ down'[c] = down[c]
               \/ \E m \in stored' : down'[c] = Append(down[c], [id |-> m, ok |-> TRUE])
    BY <1>0, <2>3 DEF Save, ToOne
  <2>4. ASSUME NEW d \in Sockets, SaveFails(d)
        PROVE  \/ down'[c] = down[c]
               \/ \E m \in Ids : down'[c] = Append(down[c], [id |-> m, ok |-> FALSE])
    BY <1>0, <2>4 DEF SaveFails, ToAll, OutboxInv, OutboxTypeOK
  <2>5. ASSUME NEW d \in Sockets, HangUp(d) PROVE down'[c] = down[c] \/ down'[c] = << >>
    BY <1>0, <2>5 DEF HangUp
  <2>6. CASE ServerRestart
    BY <2>6 DEF ServerRestart
  <2>7. CASE \/ \E m \in Ids : Compose(m) \/ LateSave(m)
             \/ \E d \in Sockets : OpenSocket(d)
             \/ LoseSocket \/ Reload \/ UNCHANGED outboxVars
    BY <2>7 DEF Compose, LateSave, OpenSocket, LoseSocket, Reload, outboxVars
  <2> QED BY <2>1, <2>2, <2>3, <2>4, <2>5, <2>6, <2>7 DEF OutboxNext, Handler
<1>3. CASE down'[c] = down[c] \/ down'[c] = << >>
  BY <1>1, <1>3 DEF AcksAreTrue
<1>4. CASE down[c] # << >> /\ down'[c] = Tail(down[c])
  <2>1. i + 1 \in DOMAIN down[c] /\ down'[c][i] = down[c][i + 1]
    BY <1>0, <1>4
  <2> QED BY <1>1, <2>1 DEF AcksAreTrue
<1>5. ASSUME NEW a, down'[c] = Append(down[c], a), a \in Ack,
             a.ok => a.id \in stored'
      PROVE  down'[c][i].id \in stored'
  <2>1. (i \in DOMAIN down[c] /\ down'[c][i] = down[c][i]) \/ down'[c][i] = a
    BY <1>0, <1>5
  <2> QED BY <1>1, <1>5, <2>1 DEF AcksAreTrue
<1>6. ASSUME NEW m \in Ids, down'[c] = Append(down[c], [id |-> m, ok |-> FALSE])
      PROVE  down'[c][i].id \in stored'
  BY <1>5, <1>6 DEF Ack
<1>7. ASSUME NEW m \in stored', down'[c] = Append(down[c], [id |-> m, ok |-> TRUE])
      PROVE  down'[c][i].id \in stored'
  <2>1. down'[c][i] = [id |-> m, ok |-> TRUE] \/ (i \in DOMAIN down[c] /\ down'[c][i] = down[c][i])
    BY <1>0, <1>7
  <2> QED BY <1>1, <1>7, <2>1 DEF AcksAreTrue
<1> QED BY <1>2, <1>3, <1>4, <1>6, <1>7

LEMMA LossStep ==
    OutboxInv /\ AcksAreTrue /\ NoSilentLoss /\ [OutboxNext]_outboxVars => NoSilentLoss'
<1> SUFFICES ASSUME OutboxInv, AcksAreTrue, NoSilentLoss, [OutboxNext]_outboxVars,
                    NEW m \in Ids, chat'[m] \in {"sending", "sent"}
             PROVE  m \in Elems(pending') \cup stored'
  BY DEF NoSilentLoss
<1>0. stored \subseteq stored'
  BY DEF OutboxNext, Compose, LateSave, OpenSocket, Handler, Read, Save, SaveFails, HangUp,
     LoseSocket, GetAck, Reload, ServerRestart, outboxVars
<1>1. CASE \E k \in Ids : Compose(k)
  <2>1. PICK k \in Ids : Compose(k)
    BY <1>1
  <2>2. Elems(pending') = Elems(pending) \cup {k}
    BY <2>1, AppendOne DEF Compose, OutboxInv, OutboxTypeOK
  <2>3. m = k \/ chat'[m] = chat[m]
    BY <2>1 DEF Compose, OutboxInv, OutboxTypeOK
  <2> QED BY <1>0, <2>2, <2>3 DEF NoSilentLoss
<1>2. CASE GetAck
  <2> DEFINE a == Head(down[cur])
  <2>1. cur \in Sockets /\ down[cur] \in Seq(Ack) /\ down[cur] # << >>
    BY <1>2 DEF GetAck, OutboxInv, OutboxTypeOK
  <2>2. a \in Ack /\ a = down[cur][1] /\ 1 \in DOMAIN down[cur]
    BY <2>1
  <2>3. a.ok => a.id \in stored
    BY <2>1, <2>2 DEF AcksAreTrue
  <2>4. pending \in Seq(Ids) /\ pending' = Without(pending, a.id)
    BY <1>2 DEF GetAck, OutboxInv, OutboxTypeOK
  <2> HIDE DEF a
  <2>5. \A k \in Elems(pending) : k # a.id => k \in Elems(pending')
    BY <2>4, WithoutOne
  <2>6. CASE m # a.id
    <3>1. chat'[m] = chat[m]
      BY <1>2, <2>6 DEF GetAck, OutboxInv, OutboxTypeOK, a
    <3> QED BY <1>0, <2>5, <2>6, <3>1 DEF NoSilentLoss
  <2>7. CASE m = a.id
    <3>1. ~a.ok => chat'[m] = "gone"
      BY <1>2, <2>7 DEF GetAck, OutboxInv, OutboxTypeOK, a
    <3>2. a.ok
      BY <3>1
    <3> QED BY <1>0, <2>3, <2>7, <3>2
  <2> QED BY <2>6, <2>7
<1>3. CASE Reload
  BY <1>0, <1>3 DEF Reload, NoSilentLoss, OutboxInv, OutboxTypeOK
<1>4. ASSUME UNCHANGED <<pending, chat>> PROVE m \in Elems(pending') \cup stored'
  BY <1>0, <1>4 DEF NoSilentLoss
<1>5. ASSUME ~(\E k \in Ids : Compose(k)), ~GetAck, ~Reload
      PROVE  UNCHANGED <<pending, chat>>
  BY <1>5 DEF OutboxNext, LateSave, OpenSocket, Handler, Read, Save, SaveFails, HangUp,
     LoseSocket, ServerRestart, outboxVars, clientVars
<1> QED BY <1>1, <1>2, <1>3, <1>4, <1>5

LEMMA OutboxInvariant == OutboxSpec => [](OutboxInv /\ AcksAreTrue /\ NoSilentLoss)
<1>1. OutboxInit => AcksAreTrue /\ NoSilentLoss
  BY DEF OutboxInit, AcksAreTrue, NoSilentLoss
<1> QED BY <1>1, OutboxValid, AcksStep, LossStep, PTL DEF OutboxSpec

\* No ACK of success is under way, on any connection and after any repeat, for a
\* message that is not in the table.
THEOREM AcksTellTheTruth == OutboxSpec => []AcksAreTrue
BY OutboxInvariant, PTL

\* What the sender still sees in the chat is in the queue or in the table, through
\* every loss of a socket, a tab or the server and every save that fails.
THEOREM NothingLostInSilence == OutboxSpec => []NoSilentLoss
BY OutboxInvariant, PTL

(* Outbox: the queue holds a message once *)

Once(s) == \A i, j \in DOMAIN s : s[i] = s[j] => i = j

\* Of such a queue Without is the filter of ackPending: m is off it, the others
\* are still on it once, in their order.
LEMMA WithoutFilters ==
    ASSUME NEW S, NEW s \in Seq(S), NEW m, Once(s)
    PROVE  Once(Without(s, m)) /\ Elems(Without(s, m)) = Elems(s) \ {m}
<1>1. CASE m \notin Elems(s)
  BY <1>1 DEF Without
<1>2. CASE m \in Elems(s)
  <2> DEFINE i == CHOOSE i \in DOMAIN s : s[i] = m
             t == [k \in 1 .. Len(s) - 1 |-> IF k < i THEN s[k] ELSE s[k + 1]]
             at(k) == IF k < i THEN k ELSE k + 1
  <2>1. i \in 1 .. Len(s) /\ s[i] = m
    BY <1>2 DEF Elems
  <2>2. Without(s, m) = t
    BY <1>2 DEF Without
  <2>3. Len(s) \in Nat /\ DOMAIN s = 1 .. Len(s)
    OBVIOUS
  <2> HIDE DEF i
  <2>4. \A k \in 1 .. Len(s) - 1 : t[k] = s[at(k)] /\ at(k) \in 1 .. Len(s) /\ at(k) # i
    BY <2>1, <2>3
  <2>5. \A k, l \in 1 .. Len(s) - 1 : at(k) = at(l) => k = l
    BY <2>1, <2>3
  <2>6. DOMAIN t = 1 .. Len(s) - 1
    OBVIOUS
  <2> HIDE DEF t, at
  <2>7. Once(t)
    BY <2>3, <2>4, <2>5, <2>6 DEF Once
  <2>8. Elems(t) \subseteq Elems(s) \ {m}
    BY <2>1, <2>3, <2>4, <2>6 DEF Once, Elems
  <2> QED BY <2>2, <2>7, <2>8, WithoutOne
<1> QED BY <1>1, <1>2

\* What is queued was written, so that it is not written and queued again.
QueueInv == Once(pending) /\ \A m \in Elems(pending) : chat[m] # "none"

\* The queue of unconfirmed messages never holds one twice, which is what
\* queueMessage looks for before it appends.
THEOREM QueuedOnce == OutboxSpec => []Once(pending)
<1>1. OutboxInit => QueueInv
  BY DEF OutboxInit, QueueInv, Once, Elems
<1>2. OutboxInv /\ QueueInv /\ [OutboxNext]_outboxVars => QueueInv'
  <2> SUFFICES ASSUME OutboxInv, QueueInv, [OutboxNext]_outboxVars PROVE QueueInv'
    OBVIOUS
  <2>0. pending \in Seq(Ids) /\ DOMAIN pending = 1 .. Len(pending) /\ Len(pending) \in Nat
        /\ Elems(pending) \subseteq Ids
    BY DEF OutboxInv, OutboxTypeOK, Elems
  <2>1. ASSUME NEW m \in Ids, Compose(m) PROVE QueueInv'
    <3>1. pending' = Append(pending, m) /\ m \notin Elems(pending)
      BY <2>1 DEF Compose, QueueInv
    <3>2. Elems(pending') = Elems(pending) \cup {m}
      BY <2>0, <3>1, AppendOne
    <3>3. Once(pending')
      <4>1. /\ DOMAIN Append(pending, m) = 1 .. Len(pending) + 1
            /\ Append(pending, m)[Len(pending) + 1] = m
            /\ \A i \in 1 .. Len(pending) : Append(pending, m)[i] = pending[i]
        BY <2>0
      <4> QED BY <2>0, <3>1, <4>1 DEF Once, Elems, QueueInv
    <3>4. \A k \in Elems(pending) \cup {m} : chat'[k] # "none"
      BY <2>0, <2>1 DEF Compose, QueueInv, OutboxInv, OutboxTypeOK
    <3> QED BY <3>2, <3>3, <3>4 DEF QueueInv
  <2>2. CASE GetAck
    <3> DEFINE a == Head(down[cur])
    <3>1. pending' = Without(pending, a.id)
      BY <2>2 DEF GetAck
    <3>2. a \in Ack
      BY <2>2 DEF GetAck, OutboxInv, OutboxTypeOK
    <3>3. \A k \in Ids : chat[k] # "none" => chat'[k] # "none"
      BY <2>2, <3>2 DEF GetAck, OutboxInv, OutboxTypeOK, Ack
    <3> HIDE DEF a
    <3>4. Once(pending') /\ Elems(pending') \subseteq Elems(pending)
      BY <2>0, <3>1, WithoutFilters DEF QueueInv
    <3> QED BY <2>0, <3>3, <3>4 DEF QueueInv
  <2>3. CASE Reload
    BY <2>0, <2>3 DEF Reload, QueueInv, OutboxInv, OutboxTypeOK
  <2>4. ASSUME ~(\E k \in Ids : Compose(k)), ~GetAck, ~Reload
        PROVE  UNCHANGED <<pending, chat>>
    BY <2>4 DEF OutboxNext, LateSave, OpenSocket, Handler, Read, Save, SaveFails, HangUp,
       LoseSocket, ServerRestart, outboxVars, clientVars
  <2>5. ASSUME UNCHANGED <<pending, chat>> PROVE QueueInv'
    BY <2>5 DEF QueueInv
  <2> QED BY <2>1, <2>2, <2>3, <2>4, <2>5
<1>3. QueueInv => Once(pending)
  BY DEF QueueInv
<1> QED BY <1>1, <1>2, <1>3, OutboxValid, PTL DEF OutboxSpec
=============================================================================
