-------------------------- MODULE ChatPrefsProofs --------------------------
(***************************************************************************)
(* Theorems about Amendments and ChatPrefs, for every number of devices    *)
(* and handlers, every mix of operations, and every bound on what people   *)
(* do, on connections that break and on requests that are refused.         *)
(***************************************************************************)
EXTENDS ChatPrefs, FiniteSetTheorems, TLAPS

-----------------------------------------------------------------------------
(* Types *)

Rows == [body : Int, deleted : BOOLEAN, read : BOOLEAN, ver : Nat]
Marks == [on : BOOLEAN, seq : Nat]
Jobs == [op : {"none", "edit", "delete"}, at : {"idle", "tell", "telling", "ack", "echo", "relay"},
         body : Int, ver : Nat, dev : Devices \cup {NoDevice}, left : SUBSET Devices]
Posts == [op : {"edit", "delete"}, body : Int, dev : Devices]
Texts == [kind : {"edit", "delete"}, body : Int, ver : Nat, crossed : BOOLEAN]
Reacts == [kind : {"react"}, seq : Nat]
Signs == [kind : {"new", "read"}]
Frame == Texts \cup Reacts \cup Signs
Copies == [there : BOOLEAN, body : Int, deleted : BOOLEAN, read : BOOLEAN, on : BOOLEAN]
Syncs == [at : {"idle", "rows", "marks", "page", "reacts", "events"}, has : BOOLEAN,
          top : Nat, bound : Nat, body : Int, deleted : BOOLEAN, read : BOOLEAN,
          ver : Nat, on : BOOLEAN, seq : Nat]
Tolds == [text : Nat, gone : BOOLEAN, read : BOOLEAN]
Faults == [text : BOOLEAN, gone : BOOLEAN, read : BOOLEAN, on : BOOLEAN]

\* The server's side of the message.
ServerTypes ==
    /\ seqs \subseteq {1, 2} /\ row \in Rows /\ mark \in Marks
    /\ req \in [Procs \cup Devices -> Jobs]
    /\ posts \subseteq Posts /\ conn \subseteq Devices

\* Who has something to tell has changed the message, for a device.
JobsMatch ==
    \A p \in Procs \cup Devices :
        req[p].at \in {"tell", "telling"} => req[p].op \in {"edit", "delete"} /\ req[p].dev \in Devices

\* What is on its way.
RoadTypes ==
    /\ inbox \in [Devices -> Seq(Frame)]
    /\ wire \in [Devices -> Seq({"read", "react"})]

\* The devices.
DeviceTypes ==
    /\ copy \in [Devices -> Copies]
    /\ cursor \in [Devices -> Nat] /\ rcursor \in [Devices -> Nat]
    /\ sync \in [Devices -> Syncs]

HistoryTypes ==
    /\ changes \in Nat /\ drops \in Nat /\ refusals \in Nat
    /\ told \in [Devices -> Tolds] /\ amiss \in [Devices -> Faults]
    /\ base \in [Devices -> Nat] /\ top \in [Devices -> Nat]

AmendTypes == ServerTypes /\ JobsMatch /\ RoadTypes /\ DeviceTypes /\ HistoryTypes

Prefs == [muted : BOOLEAN, archived : BOOLEAN, cleared : Nat]
Asks == [at : {"idle", "set", "cache", "answered", "clear", "cleared"},
         field : {"muted", "archived"}, to : BOOLEAN, before : Prefs, answer : Prefs,
         n : Nat, max : Nat]
Gets == [at : {"idle", "asked", "answered"}, answer : Prefs]

PrefTypes ==
    /\ pref \in Prefs /\ mutedSet \in BOOLEAN
    /\ view \in [Peers -> Prefs] /\ asks \in [Peers -> Asks] /\ gets \in [Peers -> Gets]
    /\ reads \in Nat /\ upserts \in Nat /\ cachedBy \in Nat
    /\ covered \subseteq {1, 2}
    /\ away \in [Peers -> {"no", "away", "back"}] /\ swept \subseteq Peers

TypeOK == AmendTypes /\ PrefTypes

(* The operators the steps are made of *)

\* A non-empty finite set of naturals has a greatest element.
LEMMA GreatestElement ==
    ASSUME NEW S \in SUBSET Nat, IsFiniteSet(S), S # {}
    PROVE  Max(S) \in S /\ \A k \in S : Max(S) >= k
<1> DEFINE Above(m) == {k \in S : m <= k}
           R == StrictSubsetOrdering(S)
<1>1. IsWellFoundedOn(R, SUBSET S)
  BY FS_StrictSubsetOrderingWellFounded, FS_FiniteSubsetsOfFinite
<1>2. PICK T \in {Above(m) : m \in S} : \A U \in {Above(m) : m \in S} : <<U, T>> \notin R
  <2>1. {Above(m) : m \in S} \subseteq SUBSET S
    OBVIOUS
  <2>2. {Above(m) : m \in S} # {}
    OBVIOUS
  <2> HIDE DEF Above, R
  <2> QED BY <1>1, <2>1, <2>2, WFMin
<1>3. PICK m \in S : T = Above(m)
  BY <1>2
<1>4. ASSUME NEW k \in S, m < k PROVE FALSE
  <2>1. Above(k) \subseteq Above(m)
    <3>1. ASSUME NEW j \in S, k <= j PROVE m <= j
      BY <1>4, <3>1
    <3> QED BY <3>1
  <2>2. m \in Above(m) /\ m \notin Above(k)
    BY <1>4
  <2>3. <<Above(k), Above(m)>> \in R
    BY <2>1, <2>2 DEF StrictSubsetOrdering
  <2> QED BY <1>2, <1>3, <2>3
<1>5. \E x \in S : \A k \in S : x >= k
  BY <1>4
<1> QED BY <1>5 DEF Max

LEMMA Max2Is ==
    ASSUME NEW m \in Int, NEW n \in Int
    PROVE  Max2(m, n) = IF m >= n THEN m ELSE n
BY DEF Max2, Max

LEMMA HighestIs ==
    ASSUME NEW S \in SUBSET {1, 2}
    PROVE  Highest(S) = IF 2 \in S THEN 2 ELSE IF 1 \in S THEN 1 ELSE 0
<1> DEFINE m == IF 2 \in S THEN 2 ELSE IF 1 \in S THEN 1 ELSE 0
<1>1. m \in S \cup {0} /\ \A k \in S \cup {0} : m >= k
  OBVIOUS
<1>2. \A x \in S \cup {0} : (\A k \in S \cup {0} : x >= k) => x = m
  OBVIOUS
<1> QED BY <1>1, <1>2 DEF Highest, Max

\* A function has finitely many values on a finite set.
LEMMA FiniteImage ==
    ASSUME NEW S, IsFiniteSet(S), NEW f, DOMAIN f = S
    PROVE  IsFiniteSet({f[x] : x \in S})
<1> DEFINE T == {f[x] : x \in S}
           g == [x \in S |-> f[x]]
<1>1. g \in [S -> T] /\ \A y \in T : \E x \in S : g[x] = y
  OBVIOUS
<1>2. g \in Surjection(S, T)
  <2> HIDE DEF T, g
  <2> QED BY <1>1 DEF Surjection
<1> HIDE DEF T, g
<1> QED BY <1>2, FS_Surjection DEF T

\* The reactions under way to a device, and the greatest of them.
LEMMA MarksAre ==
    ASSUME RoadTypes, NEW d \in Devices
    PROVE  /\ MarksIn(d) \subseteq Nat /\ IsFiniteSet(MarksIn(d))
           /\ MarksIn(d) # {} => Max(MarksIn(d)) \in MarksIn(d)
<1> DEFINE F == Frames(d)
           G == {g \in F : g.kind = "react"}
<1>1. /\ inbox[d] \in Seq(Frame) /\ Len(inbox[d]) \in Nat
      /\ \A i \in 1 .. Len(inbox[d]) : inbox[d][i] \in Frame
  BY DEF RoadTypes
<1>2. IsFiniteSet(F)
  <2>1. IsFiniteSet(1 .. Len(inbox[d])) /\ DOMAIN inbox[d] = 1 .. Len(inbox[d])
    BY SMTT(30), <1>1, FS_Interval
  <2> QED BY <2>1, FiniteImage DEF Frames
<1>3. IsFiniteSet(G) /\ F \subseteq Frame
  BY <1>1, <1>2, FS_Subset DEF Frames
<1>4. IsFiniteSet({f.seq : f \in G})
  <2> DEFINE seqOf == [f \in G |-> f.seq]
  <2>1. IsFiniteSet({seqOf[f] : f \in G})
    <3>1. DOMAIN seqOf = G
      OBVIOUS
    <3> HIDE DEF seqOf, G
    <3> QED BY <1>3, <3>1, FiniteImage
  <2> QED BY <2>1
<1>5. \A g \in G : g.seq \in Nat
  BY <1>3 DEF Frame, Texts, Reacts, Signs
<1>6. MarksIn(d) = {f.seq : f \in G}
  BY DEF MarksIn
<1> QED BY <1>4, <1>5, <1>6, GreatestElement

-----------------------------------------------------------------------------
(* Every step of Amendments keeps the types *)

LEMMA Blanks == Idle \in Jobs /\ NoCopy \in Copies /\ NoSync \in Syncs
<1>1. Idle \in Jobs
  BY DEF Idle, Jobs
<1>2. NoCopy \in Copies
  BY DEF NoCopy, Copies
<1>3. NoSync \in Syncs
  BY DEF NoSync, Syncs
<1> QED BY <1>1, <1>2, <1>3

\* The handlers.
LEMMA JobTypes ==
    ASSUME AmendTypes, NEW cleared, AmendmentsNext(cleared) \/ Restart
    PROVE  req' \in [Procs \cup Devices -> Jobs]
<1>0. req \in [Procs \cup Devices -> Jobs] /\ row \in Rows /\ mark \in Marks /\ conn \subseteq Devices
      /\ posts \subseteq Posts /\ Idle \in Jobs
  BY Blanks DEF AmendTypes, ServerTypes
<1>1. ASSUME NEW p \in Procs, NEW q \in posts, Amend(p, q)
      PROVE  req' \in [Procs \cup Devices -> Jobs]
  <2> DEFINE v == [Idle EXCEPT !.op = q.op, !.at = "tell", !.body = q.body,
                               !.ver = row.ver + 1, !.dev = q.dev]
  <2>1. v \in Jobs
    <3>1. row.ver + 1 \in Nat /\ q.body \in Int /\ q.op \in {"edit", "delete"} /\ q.dev \in Devices
      BY <1>0 DEF Rows, Posts
    <3> DEFINE n == row.ver + 1
    <3> HIDE DEF n
    <3>2. [Idle EXCEPT !.op = q.op, !.at = "tell", !.body = q.body, !.ver = n,
                       !.dev = q.dev] \in Jobs
      BY <1>0, <3>1 DEF Jobs, n
    <3> QED BY <3>2 DEF n
  <2>2. req' = [req EXCEPT ![p] = v]
    BY <1>1 DEF Amend
  <2> HIDE DEF v
  <2> QED BY <1>0, <2>1, <2>2
<1>2. ASSUME NEW p \in Procs, Tell(p) PROVE req' \in [Procs \cup Devices -> Jobs]
  <2>1. [req[p] EXCEPT !.at = "telling", !.left = conn] \in Jobs
    BY <1>0 DEF Jobs
  <2> QED BY <1>0, <1>2, <2>1 DEF Tell, Recipients
<1>3. ASSUME NEW p \in Procs, NEW d \in Devices, TellOne(p, d)
      PROVE  req' \in [Procs \cup Devices -> Jobs]
  <2>1. req' = [req EXCEPT ![p].left = @ \ {d}]
    BY <1>3 DEF TellOne
  <2> QED BY <1>0, <2>1 DEF Jobs
<1>4. ASSUME NEW p \in Procs, Answer(p) PROVE req' \in [Procs \cup Devices -> Jobs]
  BY <1>0, <1>4 DEF Answer
<1>5. ASSUME NEW d \in Devices, TellRead(d) \/ RelayReaction(d)
      PROVE  req' \in [Procs \cup Devices -> Jobs]
  BY <1>0, <1>5 DEF TellRead, RelayReaction
<1>6. ASSUME NEW d \in Devices, ServeRead(d) \/ EchoReaction(d)
      PROVE  req' \in [Procs \cup Devices -> Jobs]
  <2>1. \/ req' = req
        \/ req' = [req EXCEPT ![d].at = "ack"]
        \/ req' = [req EXCEPT ![d].at = "relay"]
    BY <1>6 DEF ServeRead, EchoReaction
  <2> QED BY <1>0, <2>1 DEF Jobs
<1>8. ASSUME NEW d \in Devices, ServeReaction(d) PROVE req' \in [Procs \cup Devices -> Jobs]
  <2>1. [req[d] EXCEPT !.at = "echo", !.ver = mark.seq + 1] \in Jobs
    <3>1. mark.seq + 1 \in Nat
      BY <1>0 DEF Marks
    <3> QED BY <1>0, <3>1 DEF Jobs
  <2> QED BY <1>0, <1>8, <2>1 DEF ServeReaction
<1>9. CASE Restart
  BY <1>0, <1>9 DEF Restart
<1>10. \/ req' = req
       \/ \E p \in Procs, q \in posts : Amend(p, q)
       \/ \E p \in Procs : Tell(p) \/ Answer(p) \/ \E d \in Devices : TellOne(p, d)
       \/ \E d \in Devices : TellRead(d) \/ RelayReaction(d) \/ ServeRead(d)
                             \/ EchoReaction(d) \/ ServeReaction(d)
       \/ Restart
  BY ZenonT(30) DEF AmendmentsNext, Commit, SubmitEdit, SubmitDelete, SendRead, SendReaction, DropReaction,
     Receive, SyncRows, SyncMarks, SyncMerge, SyncReactions, SyncRefused, SyncEvents, Connect,
     Disconnect, LosePost
<1> QED BY <1>0, <1>1, <1>2, <1>3, <1>4, <1>5, <1>6, <1>8, <1>9, <1>10

LEMMA JobsMatchStep ==
    ASSUME AmendTypes, NEW cleared, AmendmentsNext(cleared) \/ Restart
    PROVE  JobsMatch'
<1>0. req \in [Procs \cup Devices -> Jobs] /\ posts \subseteq Posts /\ JobsMatch
  BY DEF AmendTypes, ServerTypes
<1>1. ASSUME NEW p \in Procs, NEW q \in posts, Amend(p, q) PROVE JobsMatch'
  <2>1. req'[p].op = q.op /\ req'[p].dev = q.dev /\ \A o \in (Procs \cup Devices) \ {p} : req'[o] = req[o]
    BY <1>0, <1>1 DEF Amend, Idle
  <2>2. q.op \in {"edit", "delete"} /\ q.dev \in Devices
    BY <1>0 DEF Posts
  <2> QED BY <1>0, <2>1, <2>2 DEF JobsMatch
<1>2. ASSUME NEW p \in Procs, Tell(p) \/ \E d \in Devices : TellOne(p, d) PROVE JobsMatch'
  <2>1. /\ req[p].at \in {"tell", "telling"}
        /\ req'[p].op = req[p].op /\ req'[p].dev = req[p].dev
        /\ \A o \in (Procs \cup Devices) \ {p} : req'[o] = req[o]
    <3>1. CASE Tell(p)
      BY <1>0, <3>1 DEF Tell, Jobs
    <3>2. CASE \E d \in Devices : TellOne(p, d)
      BY <1>0, <3>2 DEF TellOne, Jobs
    <3> QED BY <1>2, <3>1, <3>2
  <2> QED BY <1>0, <2>1 DEF JobsMatch
<1>3. ASSUME NEW p \in Procs, Answer(p) PROVE JobsMatch'
  BY <1>0, <1>3 DEF Answer, JobsMatch, Idle
<1>4. ASSUME NEW d \in Devices, TellRead(d) \/ RelayReaction(d) PROVE JobsMatch'
  BY <1>0, <1>4 DEF TellRead, RelayReaction, JobsMatch, Idle
<1>5. ASSUME NEW d \in Devices, ServeRead(d) \/ EchoReaction(d) \/ ServeReaction(d) PROVE JobsMatch'
  <2>1. /\ req'[d].at \in {"ack", "relay", "echo"} \/ req' = req
        /\ \A o \in (Procs \cup Devices) \ {d} : req'[o] = req[o]
    <3>1. CASE ServeRead(d)
      BY <1>0, <3>1 DEF ServeRead, Jobs
    <3>2. CASE EchoReaction(d)
      BY <1>0, <3>2 DEF EchoReaction, Jobs
    <3>3. CASE ServeReaction(d)
      BY <1>0, <3>3 DEF ServeReaction, Jobs
    <3> QED BY <1>5, <3>1, <3>2, <3>3
  <2> QED BY <1>0, <2>1 DEF JobsMatch
<1>6. CASE Restart
  BY <1>6 DEF Restart, Idle, JobsMatch
<1>7. \/ req' = req
      \/ \E p \in Procs, q \in posts : Amend(p, q)
      \/ \E p \in Procs : Tell(p) \/ Answer(p) \/ \E d \in Devices : TellOne(p, d)
      \/ \E d \in Devices : TellRead(d) \/ RelayReaction(d) \/ ServeRead(d)
                            \/ EchoReaction(d) \/ ServeReaction(d)
      \/ Restart
  BY ZenonT(30) DEF AmendmentsNext, Commit, SubmitEdit, SubmitDelete, SendRead, SendReaction, DropReaction,
     Receive, SyncRows, SyncMarks, SyncMerge, SyncReactions, SyncRefused, SyncEvents, Connect,
     Disconnect, LosePost
<1> QED BY <1>0, <1>1, <1>2, <1>3, <1>4, <1>5, <1>6, <1>7 DEF JobsMatch

\* The table, the requests, the connections and the bounds.
LEMMA TableTypes ==
    ASSUME AmendTypes, NEW cleared, AmendmentsNext(cleared) \/ Restart
    PROVE  /\ seqs' \subseteq {1, 2} /\ row' \in Rows /\ mark' \in Marks
           /\ posts' \subseteq Posts /\ conn' \subseteq Devices
           /\ changes' \in Nat /\ drops' \in Nat /\ refusals' \in Nat
<1>0. /\ seqs \subseteq {1, 2} /\ row \in Rows /\ mark \in Marks
      /\ posts \subseteq Posts /\ conn \subseteq Devices
      /\ changes \in Nat /\ drops \in Nat /\ refusals \in Nat
  BY DEF AmendTypes, ServerTypes, HistoryTypes
<1>1. seqs' = seqs \/ \E s \in {1, 2} : seqs' = seqs \cup {s}
  BY ZenonT(30) DEF AmendmentsNext, Commit, SubmitEdit, SubmitDelete, SendRead, SendReaction, DropReaction,
     Receive, SyncRows, SyncMarks, SyncMerge, SyncReactions, SyncRefused, SyncEvents, Connect,
     Disconnect, LosePost, Amend, Tell, TellOne, Answer, ServeRead, TellRead, ServeReaction,
     EchoReaction, RelayReaction, Restart
<1>2. \/ conn' = conn \/ conn' = {}
      \/ \E d \in Devices : conn' = conn \cup {d} \/ conn' = conn \ {d}
  BY ZenonT(30) DEF AmendmentsNext, Commit, SubmitEdit, SubmitDelete, SendRead, SendReaction, DropReaction,
     Receive, SyncRows, SyncMarks, SyncMerge, SyncReactions, SyncRefused, SyncEvents, Connect,
     Disconnect, LosePost, Amend, Tell, TellOne, Answer, ServeRead, TellRead, ServeReaction,
     EchoReaction, RelayReaction, Restart, roads
<1>3. \/ mark' = mark
      \/ mark' = [on |-> ~mark.on, seq |-> mark.seq + 1]
  BY ZenonT(30) DEF AmendmentsNext, Commit, SubmitEdit, SubmitDelete, SendRead, SendReaction, DropReaction,
     Receive, SyncRows, SyncMarks, SyncMerge, SyncReactions, SyncRefused, SyncEvents, Connect,
     Disconnect, LosePost, Amend, Tell, TellOne, Answer, ServeRead, TellRead, ServeReaction,
     EchoReaction, RelayReaction, Restart
<1>4. \/ row' = row
      \/ row' = [row EXCEPT !.read = TRUE]
      \/ \E q \in posts : row' = [row EXCEPT !.body = q.body, !.deleted = @ \/ q.op = "delete",
                                             !.ver = @ + 1]
  BY ZenonT(30) DEF AmendmentsNext, Commit, SubmitEdit, SubmitDelete, SendRead, SendReaction, DropReaction,
     Receive, SyncRows, SyncMarks, SyncMerge, SyncReactions, SyncRefused, SyncEvents, Connect,
     Disconnect, LosePost, Amend, Tell, TellOne, Answer, ServeRead, TellRead, ServeReaction,
     EchoReaction, RelayReaction, Restart
<1>5. \/ posts' \subseteq posts
      \/ \E d \in Devices :
            \/ posts' = posts \cup {[op |-> "edit", body |-> changes + 1, dev |-> d]}
            \/ posts' = posts \cup {[op |-> "delete", body |-> Gone, dev |-> d]}
  BY ZenonT(30) DEF AmendmentsNext, Commit, SubmitEdit, SubmitDelete, SendRead, SendReaction, DropReaction,
     Receive, SyncRows, SyncMarks, SyncMerge, SyncReactions, SyncRefused, SyncEvents, Connect,
     Disconnect, LosePost, Amend, Tell, TellOne, Answer, ServeRead, TellRead, ServeReaction,
     EchoReaction, RelayReaction, Restart, roads
<1>6. /\ changes' \in {changes, changes + 1}
      /\ drops' \in {drops, drops + 1}
      /\ refusals' \in {refusals, refusals + 1}
  BY ZenonT(60) DEF AmendmentsNext, Commit, SubmitEdit, SubmitDelete, SendRead, SendReaction, DropReaction,
     Receive, SyncRows, SyncMarks, SyncMerge, SyncReactions, SyncRefused, SyncEvents, Connect,
     Disconnect, LosePost, Amend, Tell, TellOne, Answer, ServeRead, TellRead, ServeReaction,
     EchoReaction, RelayReaction, Restart, bounds, Change, Refuse, Break, SendFrame
<1>7. seqs' \subseteq {1, 2} /\ conn' \subseteq Devices
  BY <1>0, <1>1, <1>2
<1>8. mark' \in Marks
  <2>1. mark.seq + 1 \in Nat /\ (~mark.on) \in BOOLEAN
    BY <1>0 DEF Marks
  <2> DEFINE b == ~mark.on
             n == mark.seq + 1
  <2> HIDE DEF b, n
  <2>2. [on |-> b, seq |-> n] \in Marks
    BY <2>1 DEF b, n, Marks
  <2> QED BY <1>0, <1>3, <2>2 DEF b, n
<1>9. row' \in Rows
  <2>1. ASSUME NEW q \in posts
        PROVE  [row EXCEPT !.body = q.body, !.deleted = @ \/ q.op = "delete", !.ver = @ + 1] \in Rows
    <3>1. q.body \in Int /\ row.ver + 1 \in Nat /\ (row.deleted \/ q.op = "delete") \in BOOLEAN
      BY <1>0 DEF Rows, Posts
    <3> QED BY <1>0, <3>1 DEF Rows
  <2>2. [row EXCEPT !.read = TRUE] \in Rows
    BY <1>0 DEF Rows
  <2> QED BY <1>0, <1>4, <2>1, <2>2
<1>10. posts' \subseteq Posts
  <2>1. \A d \in Devices : /\ [op |-> "edit", body |-> changes + 1, dev |-> d] \in Posts
                           /\ [op |-> "delete", body |-> Gone, dev |-> d] \in Posts
    BY <1>0 DEF Posts, Gone
  <2>2. CASE posts' \subseteq posts
    BY <1>0, <2>2
  <2>3. ASSUME NEW q \in Posts, posts' = posts \cup {q} PROVE posts' \subseteq Posts
    BY <1>0, <2>3
  <2> QED BY <1>5, <2>1, <2>2, <2>3
<1>11. changes' \in Nat /\ drops' \in Nat /\ refusals' \in Nat
  BY <1>0, <1>6
<1> QED BY <1>7, <1>8, <1>9, <1>10, <1>11

\* The frames to the devices and from them.
LEMMA RoadTypesStep ==
    ASSUME AmendTypes, NEW cleared, AmendmentsNext(cleared) \/ Restart
    PROVE  RoadTypes'
<1>0. /\ inbox \in [Devices -> Seq(Frame)] /\ wire \in [Devices -> Seq({"read", "react"})]
      /\ req \in [Procs \cup Devices -> Jobs] /\ told \in [Devices -> Tolds]
      /\ Devices \subseteq Procs \cup Devices
  BY DEF AmendTypes, RoadTypes, ServerTypes, HistoryTypes
<1>1. \A f \in Frame, d \in Devices : Append(inbox[d], f) \in Seq(Frame)
  BY <1>0
<1>2. /\ [kind |-> "new"] \in Frame /\ [kind |-> "read"] \in Frame
      /\ \A n \in Nat : [kind |-> "react", seq |-> n] \in Frame
  BY DEF Frame, Signs, Reacts
<1>3. << >> \in Seq(Frame) /\ << >> \in Seq({"read", "react"})
  OBVIOUS
<1>4. inbox' \in [Devices -> Seq(Frame)]
  <2>1. ASSUME NEW s \in {1, 2}, Commit(s) PROVE inbox' \in [Devices -> Seq(Frame)]
    BY <1>0, <1>1, <1>2, <2>1 DEF Commit
  <2>2. ASSUME NEW p \in Procs, NEW d \in Devices, TellOne(p, d)
        PROVE  inbox' \in [Devices -> Seq(Frame)]
    <3> DEFINE c == req[p].ver < told[d].text
               f == [kind |-> req[p].op, body |-> req[p].body, ver |-> req[p].ver, crossed |-> c]
    <3>1. inbox' = [inbox EXCEPT ![d] = Append(@, f)]
      BY <2>2 DEF TellOne
    <3>2. f \in Frame
      <4>1. req[p] \in Jobs /\ c \in BOOLEAN
        BY <1>0
      <4>2. req[p].op \in {"edit", "delete"} /\ req[p].body \in Int /\ req[p].ver \in Nat
        BY <2>2, <4>1 DEF Jobs, TellOne, AmendTypes, JobsMatch
      <4> HIDE DEF c
      <4>3. f \in Texts
        BY <4>1, <4>2 DEF Texts
      <4> QED BY <4>3 DEF Frame
    <3> HIDE DEF f
    <3> QED BY <1>0, <1>1, <3>1, <3>2
  <2>3. ASSUME NEW d \in Devices, TellRead(d) PROVE inbox' \in [Devices -> Seq(Frame)]
    BY <1>0, <1>1, <1>2, <2>3 DEF TellRead
  <2>4. ASSUME NEW d \in Devices, EchoReaction(d) \/ RelayReaction(d)
        PROVE  inbox' \in [Devices -> Seq(Frame)]
    <3>1. req[d].ver \in Nat
      BY <1>0 DEF Jobs
    <3>2. PICK S : MarkTo(S, req[d].ver)
      BY <2>4 DEF EchoReaction, RelayReaction
    <3> QED BY <1>0, <1>1, <1>2, <3>1, <3>2 DEF MarkTo
  <2>5. ASSUME NEW d \in Devices, Receive(d) PROVE inbox' \in [Devices -> Seq(Frame)]
    <3>1. inbox[d] # << >> /\ inbox' = [inbox EXCEPT ![d] = Tail(@)]
      BY <2>5 DEF Receive
    <3>2. Tail(inbox[d]) \in Seq(Frame)
      BY <1>0, <3>1
    <3> QED BY <1>0, <3>1, <3>2
  <2>6. ASSUME NEW d \in Devices, Disconnect(d) PROVE inbox' \in [Devices -> Seq(Frame)]
    BY <1>0, <1>3, <2>6 DEF Disconnect
  <2>7. CASE Restart
    BY <1>3, <2>7 DEF Restart
  <2>8. \/ inbox' = inbox
        \/ \E s \in {1, 2} : Commit(s)
        \/ \E p \in Procs, d \in Devices : TellOne(p, d)
        \/ \E d \in Devices : TellRead(d) \/ EchoReaction(d) \/ RelayReaction(d) \/ Receive(d)
                              \/ Disconnect(d)
        \/ Restart
    BY ZenonT(30) DEF AmendmentsNext, SubmitEdit, SubmitDelete, SendRead, SendReaction, DropReaction,
       SyncRows, SyncMarks, SyncMerge, SyncReactions, SyncRefused, SyncEvents, Connect,
       LosePost, Amend, Tell, Answer, ServeRead, ServeReaction, roads
  <2> QED BY <1>0, <2>1, <2>2, <2>3, <2>4, <2>5, <2>6, <2>7, <2>8
<1>5. wire' \in [Devices -> Seq({"read", "react"})]
  <2>1. ASSUME NEW d \in Devices, NEW op \in {"read", "react"}, wire' = [wire EXCEPT ![d] = Append(@, op)]
        PROVE  wire' \in [Devices -> Seq({"read", "react"})]
    BY <1>0, <2>1
  <2>2. ASSUME NEW d \in Devices, wire[d] # << >>, wire' = [wire EXCEPT ![d] = Tail(@)]
        PROVE  wire' \in [Devices -> Seq({"read", "react"})]
    <3>1. Tail(wire[d]) \in Seq({"read", "react"})
      BY <1>0, <2>2
    <3> QED BY <1>0, <2>2, <3>1
  <2>3. ASSUME NEW d \in Devices, Disconnect(d) PROVE wire' \in [Devices -> Seq({"read", "react"})]
    BY <1>0, <1>3, <2>3 DEF Disconnect
  <2>4. CASE Restart
    BY <1>3, <2>4 DEF Restart
  <2>5. \/ wire' = wire
        \/ \E d \in Devices, op \in {"read", "react"} : wire' = [wire EXCEPT ![d] = Append(@, op)]
        \/ \E d \in Devices : wire[d] # << >> /\ wire' = [wire EXCEPT ![d] = Tail(@)]
        \/ \E d \in Devices : Disconnect(d)
        \/ Restart
    BY ZenonT(30) DEF AmendmentsNext, Commit, SubmitEdit, SubmitDelete, SendRead, SendReaction, DropReaction,
       Receive, SyncRows, SyncMarks, SyncMerge, SyncReactions, SyncRefused, SyncEvents, Connect,
       LosePost, Amend, Tell, TellOne, Answer, ServeRead, TellRead, ServeReaction, SendFrame,
       TakeFrame, EchoReaction, RelayReaction, roads
  <2> QED BY <1>0, <2>1, <2>2, <2>3, <2>4, <2>5
<1> QED BY <1>4, <1>5 DEF RoadTypes

\* The copies.
LEMMA CopyTypes ==
    ASSUME AmendTypes, NEW cleared, AmendmentsNext(cleared) \/ Restart
    PROVE  copy' \in [Devices -> Copies]
<1>0. /\ copy \in [Devices -> Copies] /\ NoCopy \in Copies /\ sync \in [Devices -> Syncs]
      /\ inbox \in [Devices -> Seq(Frame)] /\ changes \in Nat
  BY Blanks DEF AmendTypes, DeviceTypes, RoadTypes, HistoryTypes
<1>1. ASSUME NEW d \in Devices, SubmitEdit(d) PROVE copy' \in [Devices -> Copies]
  <2>1. changes + 1 \in Int
    BY <1>0
  <2> QED BY <1>0, <1>1, <2>1 DEF SubmitEdit, Copies
<1>2. ASSUME NEW p \in Procs, Answer(p) PROVE copy' \in [Devices -> Copies]
  <2>1. req[p].dev \in Devices
    BY <1>2 DEF Answer, AmendTypes, JobsMatch
  <2>2. [copy[req[p].dev] EXCEPT !.deleted = TRUE, !.body = Gone] \in Copies
    <3>1. Gone \in Int
      BY DEF Gone
    <3> QED BY <1>0, <2>1, <3>1 DEF Copies
  <2> QED BY <1>0, <1>2, <2>1, <2>2 DEF Answer
<1>3. ASSUME NEW d \in Devices, SendReaction(d) PROVE copy' \in [Devices -> Copies]
  BY <1>0, <1>3 DEF SendReaction, Copies
<1>4. ASSUME NEW d \in Devices, Receive(d) PROVE copy' \in [Devices -> Copies]
  <2> DEFINE f == Head(inbox[d])
  <2>1. f \in Frame
    BY <1>0, <1>4 DEF Receive
  <2> HIDE DEF f
  <2>2. Shown(copy[d], f) \in Copies
    <3> DEFINE c == copy[d]
    <3>0. c \in Copies /\ (f.kind = "edit" => f.body \in Int)
          /\ f.kind \in {"new", "edit", "delete", "read", "react"}
      BY <1>0, <2>1 DEF Frame, Texts, Reacts, Signs
    <3> HIDE DEF c
    <3>1. /\ [NoCopy EXCEPT !.there = TRUE] \in Copies
          /\ [c EXCEPT !.read = TRUE] \in Copies
          /\ [c EXCEPT !.on = ~@] \in Copies
      BY <1>0, <3>0 DEF Copies
    <3>2. [c EXCEPT !.body = Gone, !.deleted = TRUE] \in Copies
      <4>1. Gone \in Int
        BY DEF Gone
      <4> QED BY <3>0, <4>1 DEF Copies
    <3>3. f.kind = "edit" => [c EXCEPT !.body = f.body] \in Copies
      BY <3>0 DEF Copies
    <3> QED BY <3>0, <3>1, <3>2, <3>3 DEF Shown, c
  <2>3. copy' = [copy EXCEPT ![d] = Shown(@, f)]
    BY <1>4 DEF Receive, f
  <2> QED BY <1>0, <2>2, <2>3
<1>5. ASSUME NEW d \in Devices, SyncMerge(d) PROVE copy' \in [Devices -> Copies]
  <2> DEFINE v == [there |-> TRUE, body |-> sync[d].body, deleted |-> sync[d].deleted,
                   read |-> sync[d].read, on |-> sync[d].on]
  <2>1. v \in Copies
    BY <1>0 DEF Syncs, Copies
  <2>2. copy' = copy \/ copy' = [copy EXCEPT ![d] = v]
    BY <1>5 DEF SyncMerge
  <2> HIDE DEF v
  <2> QED BY <1>0, <2>1, <2>2
<1>6. ASSUME NEW d \in Devices, SyncEvents(d) PROVE copy' \in [Devices -> Copies]
  <2>1. copy' = copy \/ copy' = [copy EXCEPT ![d].on = sync[d].on]
    BY <1>6 DEF SyncEvents
  <2>2. sync[d].on \in BOOLEAN
    BY <1>0 DEF Syncs
  <2> QED BY ZenonT(30), <1>0, <2>1, <2>2 DEF Copies
<1>7. \/ copy' = copy
      \/ \E p \in Procs : Answer(p)
      \/ \E d \in Devices : SubmitEdit(d) \/ SendReaction(d) \/ Receive(d) \/ SyncMerge(d)
                            \/ SyncEvents(d)
  BY ZenonT(30) DEF AmendmentsNext, Commit, SubmitDelete, SendRead, DropReaction,
     SyncRows, SyncMarks, SyncReactions, SyncRefused, Connect, Disconnect,
     LosePost, Amend, Tell, TellOne, ServeRead, TellRead, ServeReaction,
     EchoReaction, RelayReaction, Restart, device
<1> QED BY <1>0, <1>1, <1>2, <1>3, <1>4, <1>5, <1>6, <1>7

\* The cursors and the pages under way.
LEMMA SyncTypes ==
    ASSUME AmendTypes, NEW cleared \in [Devices -> Nat], AmendmentsNext(cleared) \/ Restart
    PROVE  /\ cursor' \in [Devices -> Nat] /\ rcursor' \in [Devices -> Nat]
           /\ sync' \in [Devices -> Syncs]
<1>0. /\ cursor \in [Devices -> Nat] /\ rcursor \in [Devices -> Nat]
      /\ sync \in [Devices -> Syncs] /\ NoSync \in Syncs
      /\ row \in Rows /\ mark \in Marks /\ seqs \subseteq {1, 2}
  BY Blanks DEF AmendTypes, DeviceTypes, ServerTypes
<1>1. cursor' \in [Devices -> Nat]
  <2>1. cursor' = cursor \/ \E d \in Devices : cursor' = [cursor EXCEPT ![d] = Max2(@, sync[d].top)]
    BY ZenonT(30) DEF AmendmentsNext, Commit, SubmitEdit, SubmitDelete, SendRead, SendReaction, DropReaction,
       Receive, SyncRows, SyncMarks, SyncMerge, SyncReactions, SyncRefused, SyncEvents, Connect,
       Disconnect, LosePost, Amend, Tell, TellOne, Answer, ServeRead, TellRead, ServeReaction,
       EchoReaction, RelayReaction, Restart, device
  <2>2. \A d \in Devices : Max2(cursor[d], sync[d].top) \in Nat
    <3> TAKE d \in Devices
    <3>1. cursor[d] \in Nat /\ sync[d].top \in Nat
      BY <1>0 DEF Syncs
    <3> QED BY <3>1, Max2Is
  <2> QED BY <1>0, <2>1, <2>2
<1>2. rcursor' \in [Devices -> Nat]
  <2>1. rcursor' = rcursor \/ \E d \in Devices : rcursor' = [rcursor EXCEPT ![d] = sync[d].seq]
    BY ZenonT(30) DEF AmendmentsNext, Commit, SubmitEdit, SubmitDelete, SendRead, SendReaction, DropReaction,
       Receive, SyncRows, SyncMarks, SyncMerge, SyncReactions, SyncRefused, SyncEvents, Connect,
       Disconnect, LosePost, Amend, Tell, TellOne, Answer, ServeRead, TellRead, ServeReaction,
       EchoReaction, RelayReaction, Restart, device
  <2>2. \A d \in Devices : sync[d].seq \in Nat
    BY <1>0 DEF Syncs
  <2> QED BY <1>0, <2>1, <2>2
<1>3. sync' \in [Devices -> Syncs]
  <2>1. ASSUME NEW d \in Devices, SyncRows(d) PROVE sync' \in [Devices -> Syncs]
    <3> DEFINE h == 1 \in seqs /\ cursor[d] < 1
               t == Highest({s \in seqs : s > cursor[d]})
               b == IF row.deleted THEN Gone ELSE row.body
               v == [NoSync EXCEPT !.at = "marks", !.has = h, !.top = t, !.body = b,
                       !.deleted = row.deleted, !.read = row.read, !.ver = row.ver]
    <3>1. h \in BOOLEAN /\ t \in Nat /\ b \in Int
      <4>1. t \in Nat
        BY <1>0, HighestIs
      <4>2. b \in Int
        BY <1>0 DEF Rows, Gone
      <4> QED BY <4>1, <4>2
    <3>2. sync' = [sync EXCEPT ![d] = v]
      BY <2>1 DEF SyncRows
    <3>3. row.deleted \in BOOLEAN /\ row.read \in BOOLEAN /\ row.ver \in Nat
      BY <1>0 DEF Rows
    <3> HIDE DEF h, t, b
    <3>4. v \in Syncs
      BY <1>0, <3>1, <3>3 DEF Syncs
    <3> HIDE DEF v
    <3> QED BY <1>0, <3>2, <3>4
  <2>2. ASSUME NEW d \in Devices, SyncMarks(d, cleared[d]) PROVE sync' \in [Devices -> Syncs]
    <3> DEFINE n == cleared[d]
               h == sync[d].has /\ n < 1
               t == IF sync[d].top <= n THEN 0 ELSE sync[d].top
               v == [sync[d] EXCEPT !.at = "page", !.bound = n, !.has = h, !.top = t,
                                    !.on = mark.on, !.seq = mark.seq]
    <3>1. n \in Nat /\ mark.on \in BOOLEAN /\ mark.seq \in Nat /\ h \in BOOLEAN /\ t \in Nat
      BY <1>0 DEF Marks, Syncs
    <3>2. sync' = [sync EXCEPT ![d] = v]
      BY <2>2 DEF SyncMarks
    <3> HIDE DEF n, h, t
    <3>3. v \in Syncs
      BY ZenonT(30), <1>0, <3>1 DEF Syncs
    <3> HIDE DEF v
    <3> QED BY <1>0, <3>2, <3>3
  <2>3. ASSUME NEW d \in Devices, SyncMerge(d) PROVE sync' \in [Devices -> Syncs]
    <3>1. [NoSync EXCEPT !.at = "reacts"] \in Syncs
      BY <1>0 DEF Syncs
    <3>2. sync' = [sync EXCEPT ![d] = [NoSync EXCEPT !.at = "reacts"]]
      BY <2>3 DEF SyncMerge
    <3> QED BY <1>0, <3>1, <3>2
  <2>4. ASSUME NEW d \in Devices, SyncReactions(d) PROVE sync' \in [Devices -> Syncs]
    <3> DEFINE n == IF mark.seq > rcursor[d] THEN mark.seq ELSE 0
               v == [sync[d] EXCEPT !.at = "events", !.on = mark.on, !.seq = n]
    <3>1. n \in Nat /\ mark.on \in BOOLEAN
      BY <1>0 DEF Marks
    <3>2. sync' = [sync EXCEPT ![d] = v]
      BY <2>4 DEF SyncReactions
    <3> HIDE DEF n
    <3>3. v \in Syncs
      BY ZenonT(30), <1>0, <3>1 DEF Syncs
    <3> HIDE DEF v
    <3> QED BY <1>0, <3>2, <3>3
  <2>5. ASSUME NEW d \in Devices, SyncRefused(d) \/ SyncEvents(d) PROVE sync' \in [Devices -> Syncs]
    BY <1>0, <2>5 DEF SyncRefused, SyncEvents
  <2>6. ASSUME NEW d \in Devices, Connect(d) PROVE sync' \in [Devices -> Syncs]
    BY <1>0, <2>6 DEF Connect, Syncs
  <2>7. CASE Restart
    <3>1. [NoSync EXCEPT !.at = "rows"] \in Syncs
      BY <1>0 DEF Syncs
    <3> QED BY <1>0, <2>7, <3>1 DEF Restart
  <2>8. \/ sync' = sync
        \/ \E d \in Devices : \/ SyncRows(d) \/ SyncMarks(d, cleared[d]) \/ SyncMerge(d)
                              \/ SyncReactions(d) \/ SyncRefused(d) \/ SyncEvents(d) \/ Connect(d)
        \/ Restart
    BY ZenonT(30) DEF AmendmentsNext, Commit, SubmitEdit, SubmitDelete, SendRead, SendReaction, DropReaction,
       Receive, Disconnect, LosePost, Amend, Tell, TellOne, Answer, ServeRead, TellRead,
       ServeReaction, EchoReaction, RelayReaction, device
  <2> QED BY <1>0, <2>1, <2>2, <2>3, <2>4, <2>5, <2>6, <2>7, <2>8
<1> QED BY <1>1, <1>2, <1>3
\* A copy with one fault more or less.
LEMMA FaultUpdates ==
    ASSUME NEW f \in Faults, NEW b \in BOOLEAN, NEW c \in BOOLEAN
    PROVE  /\ [f EXCEPT !.text = b] \in Faults /\ [f EXCEPT !.on = b] \in Faults
           /\ [f EXCEPT !.read = b] \in Faults
           /\ [f EXCEPT !.text = b, !.gone = c] \in Faults
BY DEF Faults

LEMMA FaultTypes ==
    ASSUME AmendTypes, NEW cleared, AmendmentsNext(cleared) \/ Restart
    PROVE  amiss' \in [Devices -> Faults]
<1>0. /\ amiss \in [Devices -> Faults] /\ posts \subseteq Posts
      /\ inbox \in [Devices -> Seq(Frame)] /\ sync \in [Devices -> Syncs]
      /\ \A d \in Devices : amiss[d] \in Faults
      /\ row \in Rows /\ told \in [Devices -> Tolds]
  BY DEF AmendTypes, HistoryTypes, ServerTypes, RoadTypes, DeviceTypes
<1>1. ASSUME NEW q \in posts, LosePost(q) PROVE amiss' \in [Devices -> Faults]
  <2>1. q.dev \in Devices
    BY <1>0 DEF Posts
  <2> DEFINE d == q.dev
  <2>2. amiss' = amiss \/ amiss' = [amiss EXCEPT ![d].text = TRUE]
    BY <1>1 DEF LosePost
  <2> HIDE DEF d
  <2>3. d \in Devices
    BY <2>1 DEF d
  <2> QED BY ZenonT(30), <1>0, <2>2, <2>3 DEF Faults
<1>2. ASSUME NEW p \in Procs, Tell(p) PROVE amiss' \in [Devices -> Faults]
  <2>1. ASSUME NEW d \in Devices
        PROVE  [amiss[d] EXCEPT !.text = @ \/ req[p].ver > told[d].text,
                                !.gone = @ \/ req[p].op = "delete"] \in Faults
    <3> DEFINE b == amiss[d].text \/ req[p].ver > told[d].text
               c == amiss[d].gone \/ req[p].op = "delete"
    <3>1. b \in BOOLEAN /\ c \in BOOLEAN
      OBVIOUS
    <3>2. [amiss[d] EXCEPT !.text = @ \/ req[p].ver > told[d].text,
                           !.gone = @ \/ req[p].op = "delete"]
            = [amiss[d] EXCEPT !.text = b, !.gone = c]
      BY <1>0 DEF Faults
    <3> HIDE DEF b, c
    <3> QED BY <1>0, <3>1, <3>2, FaultUpdates
  <2> QED BY <1>0, <1>2, <2>1 DEF Tell
<1>3. ASSUME NEW d \in Devices, TellRead(d) PROVE amiss' \in [Devices -> Faults]
  BY <1>0, <1>3, FaultUpdates DEF TellRead
<1>4. ASSUME NEW d \in Devices, DropReaction(d) \/ SyncRefused(d) PROVE amiss' \in [Devices -> Faults]
  <2>1. amiss' = [amiss EXCEPT ![d].on = TRUE]
    BY <1>4 DEF DropReaction, SyncRefused
  <2> QED BY <1>0, <2>1 DEF Faults
<1>5. ASSUME NEW d \in Devices, EchoReaction(d) \/ RelayReaction(d)
      PROVE  amiss' \in [Devices -> Faults]
  <2>1. PICK S : MarkTo(S, req[d].ver)
    BY <1>5 DEF EchoReaction, RelayReaction
  <2> QED BY <1>0, <2>1, FaultUpdates DEF MarkTo
<1>6. ASSUME NEW d \in Devices, Receive(d) PROVE amiss' \in [Devices -> Faults]
  <2> DEFINE f == Head(inbox[d])
             comes == f.kind = "new" /\ ~copy[d].there
             w == IF f.kind \in {"edit", "delete"} THEN f.crossed ELSE amiss[d].text
             x == amiss[d].gone /\ f.kind # "delete"
             y == amiss[d].read /\ f.kind # "read"
             z == IF comes THEN ComesBare(d) ELSE amiss[d].on \/ (f.kind = "react" /\ f.seq <= base[d])
  <2>1. f \in Frame
    BY <1>0, <1>6 DEF Receive
  <2>2. f.kind \in {"edit", "delete"} => f.crossed \in BOOLEAN
    BY <2>1 DEF Frame, Texts, Reacts, Signs
  <2>3. amiss' = [amiss EXCEPT ![d] = [text |-> w, gone |-> x, read |-> y, on |-> z]]
    BY <1>6, Zenon DEF Receive
  <2> HIDE DEF f
  <2>4. w \in BOOLEAN /\ x \in BOOLEAN /\ y \in BOOLEAN
    BY <1>0, <2>2 DEF Faults
  <2>5. z \in BOOLEAN
    <3>1. ComesBare(d) \in BOOLEAN
      BY DEF ComesBare, Overtaken
    <3>2. (amiss[d].on \/ (f.kind = "react" /\ f.seq <= base[d])) \in BOOLEAN
      OBVIOUS
    <3> QED BY <3>1, <3>2
  <2> HIDE DEF w, x, y, z
  <2>6. [text |-> w, gone |-> x, read |-> y, on |-> z] \in Faults
    BY <2>4, <2>5 DEF Faults
  <2> QED BY <1>0, <2>3, <2>6
<1>7. ASSUME NEW d \in Devices, SyncMerge(d) PROVE amiss' \in [Devices -> Faults]
  <2> DEFINE v == [text |-> sync[d].ver < told[d].text /\ ~Coming(d, told[d].text),
                   gone |-> ~sync[d].deleted /\ told[d].gone /\ ~Holds(d, "delete"),
                   read |-> ~sync[d].read /\ told[d].read /\ ~Holds(d, "read"),
                   on   |-> Overtaken(d, sync[d].seq)]
  <2>1. v \in Faults
    <3>1. Overtaken(d, sync[d].seq) \in BOOLEAN
      BY DEF Overtaken, Unserved
    <3> QED BY <3>1 DEF Faults
  <2>2. amiss' = amiss \/ amiss' = [amiss EXCEPT ![d] = v]
    BY <1>7 DEF SyncMerge
  <2> HIDE DEF v
  <2> QED BY <1>0, <2>1, <2>2
<1>8. ASSUME NEW d \in Devices, SyncEvents(d) PROVE amiss' \in [Devices -> Faults]
  <2> DEFINE b == Overtaken(d, sync[d].seq)
  <2>1. b \in BOOLEAN
    BY DEF Overtaken, Unserved
  <2>2. amiss' = amiss \/ amiss' = [amiss EXCEPT ![d].on = b]
    BY <1>8 DEF SyncEvents
  <2> HIDE DEF b
  <2> QED BY ZenonT(30), <1>0, <2>1, <2>2 DEF Faults
<1>9. \A d \in Devices : AmissWithout(d) \in Faults
  <2> TAKE d \in Devices
  <2> DEFINE w == amiss[d].text \/ (Loses(d) /\ Coming(d, told[d].text))
             x == amiss[d].gone \/ (Loses(d) /\ Holds(d, "delete"))
             y == amiss[d].read \/ (Loses(d) /\ Holds(d, "read"))
             z == amiss[d].on \/ Unserved(d) \/ \E n \in MarksIn(d) : LosesMark(d, n)
  <2>1. w \in BOOLEAN /\ x \in BOOLEAN /\ y \in BOOLEAN /\ z \in BOOLEAN
    OBVIOUS
  <2>2. AmissWithout(d) = [text |-> w, gone |-> x, read |-> y, on |-> z]
    BY Zenon DEF AmissWithout
  <2> HIDE DEF w, x, y, z
  <2> QED BY <2>1, <2>2 DEF Faults
<1>10. ASSUME NEW d \in Devices, Disconnect(d) PROVE amiss' \in [Devices -> Faults]
  <2>1. amiss' = [amiss EXCEPT ![d] = AmissWithout(d)]
    BY <1>10 DEF Disconnect
  <2> QED BY <1>0, <1>9, <2>1
<1>11. CASE Restart
  <2> DEFINE again(d) == cursor[d] < 1 /\ sync[d].at \in {"idle", "rows", "marks"}
             loses(d) == copy[d].there /\ ~again(d) /\ ~PageComing(d)
             w(d) == \/ AmissWithout(d).text \/ (loses(d) /\ row.ver > told[d].text)
                     \/ \E q \in posts : q.op = "edit" /\ q.dev = d
             x(d) == AmissWithout(d).gone \/ (loses(d) /\ row.deleted)
             y(d) == AmissWithout(d).read \/ (loses(d) /\ row.read)
             z(d) == AmissWithout(d).on \/ LosesMark(d, mark.seq)
  <2>1. \A d \in Devices : w(d) \in BOOLEAN /\ x(d) \in BOOLEAN /\ y(d) \in BOOLEAN /\ z(d) \in BOOLEAN
    OBVIOUS
  <2>2. amiss' = [d \in Devices |-> [text |-> w(d), gone |-> x(d), read |-> y(d), on |-> z(d)]]
    BY <1>11, Zenon DEF Restart
  <2> HIDE DEF w, x, y, z
  <2>3. \A d \in Devices : [text |-> w(d), gone |-> x(d), read |-> y(d), on |-> z(d)] \in Faults
    BY <2>1 DEF Faults
  <2> QED BY <2>2, <2>3
<1>12. ASSUME NEW d \in Devices, SyncMarks(d, cleared[d]) PROVE amiss' \in [Devices -> Faults]
  <2>1. \/ amiss' = amiss
        \/ amiss' = [amiss EXCEPT ![d].text = TRUE, ![d].gone = TRUE, ![d].read = TRUE]
    BY <1>12 DEF SyncMarks
  <2>2. CASE amiss' = [amiss EXCEPT ![d].text = TRUE, ![d].gone = TRUE, ![d].read = TRUE]
    <3> DEFINE w == [amiss[d] EXCEPT !.text = TRUE, !.gone = TRUE, !.read = TRUE]
    <3>1. amiss' = [amiss EXCEPT ![d] = w]
      BY <1>0, <2>2
    <3>2. w \in Faults
      BY <1>0 DEF Faults
    <3> HIDE DEF w
    <3> QED BY <1>0, <3>1, <3>2
  <2> QED BY <1>0, <2>1, <2>2
<1>13. \/ amiss' = amiss
       \/ \E q \in posts : LosePost(q)
       \/ \E p \in Procs : Tell(p)
       \/ \E d \in Devices : \/ SyncMarks(d, cleared[d]) \/ TellRead(d) \/ DropReaction(d) \/ SyncRefused(d)
                             \/ EchoReaction(d) \/ RelayReaction(d) \/ Receive(d) \/ SyncMerge(d)
                             \/ SyncEvents(d) \/ Disconnect(d)
       \/ Restart
  BY ZenonT(30) DEF AmendmentsNext, Commit, SubmitEdit, SubmitDelete, SendRead, SendReaction,
     SyncRows, SyncReactions, Connect,
     Amend, TellOne, Answer, ServeRead, ServeReaction, history
<1> QED BY <1>0, <1>1, <1>2, <1>3, <1>4, <1>5, <1>6, <1>7, <1>8, <1>10, <1>11, <1>12, <1>13

\* What was sent to a device, and what was left wrong in its copy.
LEMMA HistoryTypesStep ==
    ASSUME AmendTypes, NEW cleared, AmendmentsNext(cleared) \/ Restart
    PROVE  HistoryTypes'
<1>0. /\ told \in [Devices -> Tolds] /\ amiss \in [Devices -> Faults]
      /\ base \in [Devices -> Nat] /\ top \in [Devices -> Nat]
      /\ req \in [Procs \cup Devices -> Jobs] /\ row \in Rows /\ mark \in Marks
      /\ sync \in [Devices -> Syncs] /\ inbox \in [Devices -> Seq(Frame)]
      /\ posts \subseteq Posts
  BY DEF AmendTypes, HistoryTypes, ServerTypes, DeviceTypes, RoadTypes
<1>1. changes' \in Nat /\ drops' \in Nat /\ refusals' \in Nat
  BY TableTypes
<1>2. told' \in [Devices -> Tolds]
  <2>1. ASSUME NEW p \in Procs, NEW d \in Devices, req[p].at \in {"tell", "telling"}
        PROVE  ToldOf(d, req[p]) \in Tolds
    <3> DEFINE t == Max2(told[d].text, req[p].ver)
               g == told[d].gone \/ req[p].op = "delete"
    <3>1. told[d] \in Tolds /\ told[d].text \in Nat /\ req[p].ver \in Nat
      BY <1>0 DEF Tolds, Jobs
    <3>2. t \in Nat /\ g \in BOOLEAN
      BY <1>0, <3>1, Max2Is DEF Tolds
    <3>3. ToldOf(d, req[p]) = [told[d] EXCEPT !.text = t, !.gone = g]
      BY <3>1 DEF ToldOf, Tolds
    <3> HIDE DEF t, g
    <3> QED BY <3>1, <3>2, <3>3 DEF Tolds
  <2>2. ASSUME NEW p \in Procs, Tell(p) PROVE told' \in [Devices -> Tolds]
    BY <1>0, <2>1, <2>2 DEF Tell
  <2>3. ASSUME NEW p \in Procs, NEW d \in Devices, TellOne(p, d) PROVE told' \in [Devices -> Tolds]
    BY <1>0, <2>1, <2>3 DEF TellOne
  <2>4. ASSUME NEW d \in Devices, TellRead(d) PROVE told' \in [Devices -> Tolds]
    <3>1. ASSUME NEW e \in Devices
          PROVE  [told[e] EXCEPT !.read = @ \/ e \in Authors] \in Tolds
      <4> DEFINE b == told[e].read \/ e \in Authors
      <4>1. b \in BOOLEAN /\ told[e] \in Tolds
        BY <1>0 DEF Tolds
      <4>2. [told[e] EXCEPT !.read = @ \/ e \in Authors] = [told[e] EXCEPT !.read = b]
        BY <4>1 DEF Tolds
      <4> HIDE DEF b
      <4> QED BY <4>1, <4>2 DEF Tolds
    <3> QED BY <2>4, <3>1 DEF TellRead
  <2>5. CASE Restart
    <3>1. [text |-> row.ver, gone |-> row.deleted, read |-> row.read] \in Tolds
      BY <1>0 DEF Rows, Tolds
    <3> QED BY <2>5, <3>1 DEF Restart
  <2>6. \/ told' = told
        \/ \E p \in Procs : Tell(p) \/ \E d \in Devices : TellOne(p, d)
        \/ \E d \in Devices : TellRead(d)
        \/ Restart
    BY ZenonT(30) DEF AmendmentsNext, Commit, SubmitEdit, SubmitDelete, SendRead, SendReaction, DropReaction,
       Receive, SyncRows, SyncMarks, SyncMerge, SyncReactions, SyncRefused, SyncEvents, Connect,
       Disconnect, LosePost, Amend, Answer, ServeRead, ServeReaction, EchoReaction, RelayReaction,
       history
  <2> QED BY <1>0, <2>2, <2>3, <2>4, <2>5, <2>6
<1>3. base' \in [Devices -> Nat]
  <2>1. \/ base' = base
        \/ \E d \in Devices : \/ base' = [base EXCEPT ![d] = sync[d].seq]
                             \/ base' = [base EXCEPT ![d] = 0]
    BY ZenonT(60) DEF AmendmentsNext, Commit, SubmitEdit, SubmitDelete, SendRead, SendReaction, DropReaction,
       Receive, SyncRows, SyncMarks, SyncMerge, SyncReactions, SyncRefused, SyncEvents, Connect,
       Disconnect, LosePost, Amend, Tell, TellOne, Answer, ServeRead, TellRead, ServeReaction,
       EchoReaction, RelayReaction, Restart, history
  <2>2. \A d \in Devices : sync[d].seq \in Nat
    BY <1>0 DEF Syncs
  <2> QED BY <1>0, <2>1, <2>2
<1>4. top' \in [Devices -> Nat]
  <2>1. \A d \in Devices, n \in Nat : Max2(top[d], n) \in Nat
    BY <1>0, Max2Is
  <2>2. mark.seq \in Nat /\ mark.seq + 1 \in Nat
    BY <1>0 DEF Marks
  <2>3. ASSUME NEW d \in Devices, EchoReaction(d) \/ RelayReaction(d)
        PROVE  top' \in [Devices -> Nat]
    <3>1. req[d].ver \in Nat
      BY <1>0 DEF Jobs
    <3>2. PICK S : MarkTo(S, req[d].ver)
      BY <2>3 DEF EchoReaction, RelayReaction
    <3> QED BY <1>0, <2>1, <3>1, <3>2 DEF MarkTo
  <2>4. ASSUME NEW d \in Devices, Receive(d) PROVE top' \in [Devices -> Nat]
    <3> DEFINE f == Head(inbox[d])
    <3>1. f \in Frame
      BY <1>0, <2>4 DEF Receive
    <3>2. f.kind = "react" => f.seq \in Nat
      BY <3>1 DEF Frame, Texts, Reacts, Signs
    <3>3. \/ top' = top
          \/ f.kind = "react" /\ top' = [top EXCEPT ![d] = Max2(@, f.seq)]
      BY <2>4 DEF Receive
    <3> HIDE DEF f
    <3> QED BY ZenonT(30), <1>0, <2>1, <3>2, <3>3
  <2>5. ASSUME NEW d \in Devices, Disconnect(d) PROVE top' \in [Devices -> Nat]
    <3>1. MarksIn(d) # {} => Max(MarksIn(d)) \in Nat
      BY MarksAre DEF AmendTypes
    <3>2. \/ top' = [top EXCEPT ![d] = top[d]]
          \/ MarksIn(d) # {} /\ top' = [top EXCEPT ![d] = Max2(top[d], Max(MarksIn(d)))]
      BY <1>0, <2>5 DEF Disconnect
    <3> QED BY <1>0, <2>1, <3>1, <3>2
  <2>6. CASE Restart
    BY <2>2, <2>6 DEF Restart
  <2>7. \/ top' = top
        \/ \E d \in Devices : top' = [top EXCEPT ![d] = mark.seq + 1]
        \/ \E d \in Devices : EchoReaction(d) \/ RelayReaction(d) \/ Receive(d) \/ Disconnect(d)
        \/ Restart
    BY ZenonT(30) DEF AmendmentsNext, Commit, SubmitEdit, SubmitDelete, SendRead, SendReaction, DropReaction,
       SyncRows, SyncMarks, SyncMerge, SyncReactions, SyncRefused, SyncEvents, Connect,
       LosePost, Amend, Tell, TellOne, Answer, ServeRead, TellRead, ServeReaction, history
  <2> QED BY <1>0, <2>2, <2>3, <2>4, <2>5, <2>6, <2>7
<1>5. amiss' \in [Devices -> Faults]
  BY <1>0, FaultTypes
<1> QED BY <1>1, <1>2, <1>3, <1>4, <1>5 DEF HistoryTypes
LEMMA AmendTypesStep ==
    ASSUME AmendTypes, NEW cleared \in [Devices -> Nat], AmendmentsNext(cleared) \/ Restart
    PROVE  AmendTypes'
<1>1. ServerTypes'
  BY TableTypes, JobTypes DEF ServerTypes
<1>2. DeviceTypes'
  BY CopyTypes, SyncTypes DEF DeviceTypes
<1> QED BY <1>1, <1>2, JobsMatchStep, RoadTypesStep, HistoryTypesStep DEF AmendTypes

-----------------------------------------------------------------------------
(* Every step of ChatPrefs keeps the types *)

OwnStep(d) ==
    \/ SetChatPref(d) \/ ServeSet(d) \/ ServeCache(d) \/ TakeAnswer(d) \/ RefuseSet(d)
    \/ AskClear(d) \/ ServeClear(d) \/ TakeCleared(d)
    \/ AskPrefs(d) \/ ServePrefs(d) \/ TakePrefs(d)

\* Of the message's side they change the copies and the bounds only.
LEMMA OwnSteps ==
    ASSUME NEW d \in Peers, OwnStep(d)
    PROVE  /\ unchangedMessage
           /\ copy' = copy \/ copy' = Forgotten(d)
           /\ \/ UNCHANGED bounds \/ Refuse
              \/ \E op \in {"set", "clear"} : Change(op)
BY DEF OwnStep, SetChatPref, ServeSet, ServeCache, TakeAnswer, RefuseSet, AskClear, ServeClear,
   TakeCleared, AskPrefs, ServePrefs, TakePrefs, unchangedCopies

LEMMA OwnStepsKeepAmendTypes ==
    ASSUME AmendTypes, NEW d \in Peers, OwnStep(d)
    PROVE  AmendTypes'
<1>1. UNCHANGED <<seqs, row, mark, req, posts, conn, inbox, wire, cursor, rcursor, sync,
                  told, base, top, amiss>>
  BY OwnSteps DEF unchangedMessage, roads, history
<1>2. copy' \in [Devices -> Copies]
  <2>1. d \in Devices
    BY DEF Devices
  <2>2. copy \in [Devices -> Copies] /\ NoCopy \in Copies
    BY Blanks DEF AmendTypes, DeviceTypes
  <2>3. CASE copy' = copy
    BY <2>2, <2>3
  <2>4. CASE copy' = Forgotten(d)
    BY <2>1, <2>2, <2>4 DEF Forgotten
  <2> QED BY OwnSteps, <2>3, <2>4
<1>3. changes' \in Nat /\ drops' \in Nat /\ refusals' \in Nat
  <2>1. changes \in Nat /\ drops \in Nat /\ refusals \in Nat
    BY DEF AmendTypes, HistoryTypes
  <2>2. /\ changes' \in {changes, changes + 1} /\ drops' = drops
        /\ refusals' \in {refusals, refusals + 1}
    BY OwnSteps DEF Change, Refuse, bounds
  <2> QED BY <2>1, <2>2
<1>4. ServerTypes' /\ JobsMatch' /\ RoadTypes'
  BY <1>1 DEF AmendTypes, ServerTypes, JobsMatch, RoadTypes
<1>5. DeviceTypes' /\ HistoryTypes'
  BY <1>1, <1>2, <1>3 DEF AmendTypes, DeviceTypes, HistoryTypes
<1> QED BY <1>4, <1>5 DEF AmendTypes

LEMMA PrefBlanks == NoPref \in Prefs /\ NoAsk \in Asks /\ NoGet \in Gets
<1>1. NoPref \in Prefs
  BY DEF NoPref, Prefs
<1>2. NoAsk \in Asks
  BY <1>1 DEF NoAsk, Asks
<1>3. NoGet \in Gets
  BY <1>1 DEF NoGet, Gets
<1> QED BY <1>1, <1>2, <1>3

\* The row as a request to set a field leaves it, and as one to clear does.
LEMMA PrefRows ==
    ASSUME TypeOK, NEW r \in Asks
    PROVE  Upserted(r) \in Prefs /\ Raised(r.max) \in Nat
           /\ [pref EXCEPT !.cleared = Raised(r.max)] \in Prefs
           /\ Upserted(r).cleared = pref.cleared /\ Raised(r.max) >= pref.cleared
           /\ Raised(r.max) \in {pref.cleared, r.max}
<1>1. pref \in Prefs /\ r.field \in {"muted", "archived"} /\ r.to \in BOOLEAN /\ r.max \in Nat
  BY DEF TypeOK, PrefTypes, Asks
<1>2. Upserted(r) \in Prefs /\ Upserted(r).cleared = pref.cleared
  <2>1. CASE r.field = "muted"
    BY <1>1, <2>1 DEF Upserted, Prefs
  <2>2. CASE r.field = "archived"
    BY <1>1, <2>2 DEF Upserted, Prefs
  <2> QED BY <1>1, <2>1, <2>2
<1>3. Raised(r.max) \in Nat /\ Raised(r.max) >= pref.cleared /\ Raised(r.max) \in {pref.cleared, r.max}
  <2>1. pref.cleared \in Nat
    BY <1>1 DEF Prefs
  <2> QED BY <1>1, <2>1, Max2Is DEF Raised
<1> DEFINE n == Raised(r.max)
<1> HIDE DEF n
<1>4. [pref EXCEPT !.cleared = n] \in Prefs
  BY <1>1, <1>3 DEF Prefs, n
<1> QED BY <1>2, <1>3, <1>4 DEF n

LEMMA PrefTypesStep ==
    ASSUME TypeOK, NEW d \in Peers, OwnStep(d)
    PROVE  PrefTypes'
<1>0. /\ pref \in Prefs /\ mutedSet \in BOOLEAN
      /\ view \in [Peers -> Prefs] /\ asks \in [Peers -> Asks] /\ gets \in [Peers -> Gets]
      /\ reads \in Nat /\ upserts \in Nat /\ cachedBy \in Nat
      /\ covered \subseteq {1, 2} /\ seqs \subseteq {1, 2}
      /\ away \in [Peers -> {"no", "away", "back"}] /\ swept \subseteq Peers
      /\ NoAsk \in Asks /\ NoGet \in Gets
  BY PrefBlanks DEF TypeOK, PrefTypes, AmendTypes, ServerTypes
<1>a. asks[d] \in Asks
  BY <1>0
<1> USE DEF clears, unchangedCopies
<1>1. CASE SetChatPref(d)
  <2>1. PICK field \in {"muted", "archived"} :
           /\ view' = [view EXCEPT ![d][field] = ~@]
           /\ asks' = [asks EXCEPT ![d] = [NoAsk EXCEPT !.at = "set", !.field = field,
                                               !.to = ~view[d][field], !.before = view[d]]]
    BY <1>1 DEF SetChatPref
  <2> DEFINE b == ~view[d][field]
  <2>2. b \in BOOLEAN
    OBVIOUS
  <2>3. view' = [view EXCEPT ![d] = [view[d] EXCEPT ![field] = b]]
    BY <2>1
  <2>4. asks' = [asks EXCEPT ![d] = [NoAsk EXCEPT !.at = "set", !.field = field, !.to = b,
                                                  !.before = view[d]]]
    BY <2>1
  <2> HIDE DEF b
  <2>5. [view[d] EXCEPT ![field] = b] \in Prefs
    <3>1. CASE field = "muted"
      BY <1>0, <2>2, <3>1 DEF Prefs
    <3>2. CASE field = "archived"
      BY <1>0, <2>2, <3>2 DEF Prefs
    <3> QED BY <3>1, <3>2
  <2>6. [NoAsk EXCEPT !.at = "set", !.field = field, !.to = b, !.before = view[d]] \in Asks
    BY <1>0, <2>2 DEF Asks
  <2> QED BY <1>0, <1>1, <2>3, <2>4, <2>5, <2>6 DEF SetChatPref, PrefTypes
<1>2. CASE ServeSet(d)
  <2> DEFINE u == Upserted(asks[d])
             v == [asks[d] EXCEPT !.at = "cache", !.answer = u, !.n = upserts + 1]
  <2>1. u \in Prefs
    BY <1>a, PrefRows, Zenon
  <2>2. pref' = u /\ asks' = [asks EXCEPT ![d] = v]
    BY <1>2 DEF ServeSet
  <2> HIDE DEF u
  <2>3. v \in Asks
    <3>1. upserts + 1 \in Nat
      BY <1>0
    <3> QED BY <1>a, <2>1, <3>1 DEF Asks
  <2> HIDE DEF v
  <2> QED BY <1>0, <1>2, <2>1, <2>2, <2>3 DEF ServeSet, PrefTypes
<1>3. CASE ServeCache(d)
  <2>1. asks[d].answer.muted \in BOOLEAN /\ asks[d].n \in Nat
    BY <1>a DEF Asks, Prefs
  <2>2. [asks[d] EXCEPT !.at = "answered"] \in Asks
    BY <1>a DEF Asks
  <2>3. asks' = [asks EXCEPT ![d] = [asks[d] EXCEPT !.at = "answered"]]
    BY <1>3 DEF ServeCache
  <2> QED BY <1>0, <1>3, <2>1, <2>2, <2>3 DEF ServeCache, setMutedCache, PrefTypes
<1>4. CASE TakeAnswer(d)
  <2>1. asks[d].answer \in Prefs
    BY <1>a DEF Asks
  <2> QED BY <1>0, <1>4, <2>1 DEF TakeAnswer, PrefTypes
<1>5. CASE RefuseSet(d)
  <2>1. asks[d].before \in Prefs
    BY <1>a DEF Asks
  <2> QED BY <1>0, <1>5, <2>1 DEF RefuseSet, PrefTypes
<1>6. CASE AskClear(d)
  <2>1. ConversationMax \in Nat
    BY <1>0, HighestIs DEF ConversationMax
  <2>2. [NoAsk EXCEPT !.at = "clear", !.max = ConversationMax] \in Asks
    BY <1>0, <2>1 DEF Asks
  <2> QED BY <1>0, <1>6, <2>2 DEF AskClear, PrefTypes
<1>7. CASE ServeClear(d)
  <2> DEFINE n == Raised(asks[d].max)
             v == [asks[d] EXCEPT !.at = "cleared", !.max = n]
             u == [pref EXCEPT !.cleared = n]
  <2>1. n \in Nat /\ u \in Prefs
    <3> DEFINE r == asks[d]
    <3>1. r \in Asks
      BY <1>a
    <3> HIDE DEF r
    <3>2. Raised(r.max) \in Nat /\ [pref EXCEPT !.cleared = Raised(r.max)] \in Prefs
      BY <3>1, PrefRows, Zenon
    <3> QED BY <3>2 DEF r
  <2>2. pref' = u /\ asks' = [asks EXCEPT ![d] = v]
    BY <1>7 DEF ServeClear
  <2> HIDE DEF n
  <2>3. v \in Asks
    BY <1>a, <2>1 DEF Asks
  <2> HIDE DEF v, u
  <2> QED BY <1>0, <1>7, <2>1, <2>2, <2>3 DEF ServeClear, PrefTypes
<1>8. CASE TakeCleared(d)
  <2>1. asks[d].max \in Nat
    BY <1>a DEF Asks
  <2>2. [view[d] EXCEPT !.cleared = asks[d].max] \in Prefs
    BY <1>0, <2>1 DEF Prefs
  <2>3. view' = view \/ view' = [view EXCEPT ![d] = [view[d] EXCEPT !.cleared = asks[d].max]]
    BY <1>8 DEF TakeCleared
  <2>4. away' = away \/ away' = [away EXCEPT ![d] = "away"]
    BY <1>8 DEF TakeCleared
  <2>5. swept' = swept \/ swept' = swept \cup {d}
    BY <1>8 DEF TakeCleared
  <2> QED BY <1>0, <1>8, <2>2, <2>3, <2>4, <2>5 DEF TakeCleared, PrefTypes
<1>9. CASE AskPrefs(d)
  <2>1. [gets[d] EXCEPT !.at = "asked"] \in Gets /\ reads + 1 \in Nat
    BY <1>0 DEF Gets
  <2>2. gets' = [gets EXCEPT ![d] = [gets[d] EXCEPT !.at = "asked"]]
    BY <1>9 DEF AskPrefs
  <2> QED BY <1>0, <1>9, <2>1, <2>2 DEF AskPrefs, PrefTypes
<1>10. CASE ServePrefs(d)
  <2>1. [at |-> "answered", answer |-> pref] \in Gets
    BY <1>0 DEF Gets
  <2> QED BY <1>0, <1>10, <2>1 DEF ServePrefs, PrefTypes
<1>11. CASE TakePrefs(d)
  <2>1. gets[d].answer \in Prefs
    BY <1>0 DEF Gets
  <2>2. away' = away \/ away' = [away EXCEPT ![d] = "away"]
    BY <1>11 DEF TakePrefs
  <2> QED BY <1>0, <1>11, <2>1, <2>2 DEF TakePrefs, PrefTypes
<1> QED BY <1>1, <1>2, <1>3, <1>4, <1>5, <1>6, <1>7, <1>8, <1>9, <1>10, <1>11 DEF OwnStep

LEMMA ClearedSeqsType == ASSUME TypeOK PROVE clearedSeqs \in [Devices -> Nat]
BY DEF clearedSeqs, TypeOK, PrefTypes, Prefs

LEMMA LoadsAre ==
    ASSUME NEW l \in Loads
    PROVE  l.synced \subseteq Devices /\ ("send" \in l.ops => l.synced = {})
BY AmendmentsAssumption DEF Devices

LEMMA InitTypes == Init => TypeOK
<1> SUFFICES ASSUME Init PROVE TypeOK
  OBVIOUS
<1> USE DEF Init, AmendmentsInit
<1>0. load \in Loads /\ load.synced \subseteq Devices
  <2>1. load \in Loads
    OBVIOUS
  <2> QED BY <2>1, LoadsAre
<1>1. ServerTypes
  <2>1. row \in Rows /\ mark \in Marks
    BY DEF Rows, Marks
  <2>2. req \in [Procs \cup Devices -> Jobs]
    BY Blanks
  <2> QED BY <1>0, <2>1, <2>2 DEF ServerTypes
<1>2. JobsMatch
  BY DEF JobsMatch, Idle
<1>3. RoadTypes
  BY DEF RoadTypes
<1>4. DeviceTypes
  <2>1. copy \in [Devices -> Copies]
    <3>1. \A b \in BOOLEAN : [NoCopy EXCEPT !.there = b] \in Copies
      BY Blanks DEF Copies
    <3>2. copy = [d \in Devices |-> [NoCopy EXCEPT !.there = d \in load.synced]]
      OBVIOUS
    <3>3. \A d \in Devices : [NoCopy EXCEPT !.there = d \in load.synced] \in Copies
      <4> TAKE d \in Devices
      <4> DEFINE b == d \in load.synced
      <4>1. b \in BOOLEAN
        OBVIOUS
      <4> HIDE DEF b
      <4>2. [NoCopy EXCEPT !.there = b] \in Copies
        BY <3>1, <4>1
      <4> QED BY <4>2 DEF b
    <3> QED BY <3>2, <3>3
  <2>2. sync \in [Devices -> Syncs]
    BY Blanks
  <2>3. cursor \in [Devices -> Nat] /\ rcursor \in [Devices -> Nat]
    OBVIOUS
  <2> QED BY <2>1, <2>2, <2>3 DEF DeviceTypes
<1>5. HistoryTypes
  <2>1. [text |-> 0, gone |-> FALSE, read |-> FALSE] \in Tolds
    BY DEF Tolds
  <2>2. Fine \in Faults
    BY DEF Fine, Faults
  <2> QED BY <2>1, <2>2 DEF HistoryTypes
<1>6. PrefTypes
  BY PrefBlanks DEF PrefTypes
<1> QED BY <1>1, <1>2, <1>3, <1>4, <1>5, <1>6 DEF TypeOK, AmendTypes

\* A step on the message, for the settings.
MessageStep ==
    /\ AmendmentsNext(clearedSeqs)
    /\ away' = [d \in Peers |-> IF away[d] = "away" /\ copy'[d].there /\ OldNews(d)
                                 THEN "back" ELSE away[d]]
    /\ swept' = {d \in swept : ~copy'[d].there}
    /\ UNCHANGED <<pref, mutedSet, view, asks, gets, reads, upserts, cachedBy, covered>>

LEMMA Steps == Next => MessageStep \/ RestartAll \/ \E d \in Peers : OwnStep(d)
BY DEF Next, MessageStep, OwnStep

LEMMA TypesStep == TypeOK /\ [Next]_vars => TypeOK'
<1> SUFFICES ASSUME TypeOK, [Next]_vars PROVE TypeOK'
  OBVIOUS
<1>0. clearedSeqs \in [Devices -> Nat] /\ AmendTypes
  BY ClearedSeqsType DEF TypeOK
<1>1. CASE MessageStep
  <2>1. AmendTypes'
    <3> DEFINE c == clearedSeqs
    <3>1. AmendmentsNext(c)
      BY <1>1 DEF MessageStep
    <3>2. c \in [Devices -> Nat]
      BY <1>0
    <3> HIDE DEF c
    <3> QED BY <1>0, <3>1, <3>2, AmendTypesStep
  <2>2. PrefTypes'
    BY <1>1 DEF MessageStep, TypeOK, PrefTypes
  <2> QED BY <2>1, <2>2 DEF TypeOK
<1>2. CASE RestartAll
  <2>1. AmendTypes'
    <3>1. Restart
      BY <1>2 DEF RestartAll
    <3>2. \A c \in [Devices -> Nat] : AmendTypes'
      BY <1>0, <3>1, AmendTypesStep
    <3> QED BY <1>0, <3>2
  <2>2. PrefTypes'
    <3>0. /\ pref \in Prefs /\ view \in [Peers -> Prefs] /\ asks \in [Peers -> Asks]
          /\ gets \in [Peers -> Gets] /\ NoAsk \in Asks /\ NoGet \in Gets
      BY PrefBlanks DEF TypeOK, PrefTypes
    <3>1. view' \in [Peers -> Prefs]
      <4>1. \A d \in Peers : asks[d].before \in Prefs /\ view[d] \in Prefs
        BY <3>0 DEF Asks
      <4> QED BY <1>2, <4>1 DEF RestartAll
    <3>2. asks' \in [Peers -> Asks] /\ gets' \in [Peers -> Gets]
      BY <1>2, <3>0 DEF RestartAll
    <3>3. pref.muted \in BOOLEAN
      BY <3>0 DEF Prefs
    <3> QED BY <1>2, <3>1, <3>2, <3>3 DEF RestartAll, loadMutedCache, clears, TypeOK, PrefTypes
  <2> QED BY <2>1, <2>2 DEF TypeOK
<1>3. ASSUME NEW d \in Peers, OwnStep(d) PROVE TypeOK'
  BY <1>0, <1>3, OwnStepsKeepAmendTypes, PrefTypesStep DEF TypeOK
<1>4. CASE UNCHANGED vars
  <2>1. UNCHANGED <<seqs, row, mark, req, posts, conn, inbox, wire, copy, cursor, rcursor, sync,
                    changes, drops, refusals, told, base, top, amiss>>
    BY <1>4 DEF vars, amendmentVars, roads, device, bounds, history
  <2>2. UNCHANGED <<pref, mutedSet, view, asks, gets, reads, upserts, cachedBy, covered, away, swept>>
    BY <1>4 DEF vars, prefVars
  <2>3. ServerTypes' /\ JobsMatch' /\ RoadTypes'
    BY <2>1 DEF TypeOK, AmendTypes, ServerTypes, JobsMatch, RoadTypes
  <2>4. DeviceTypes' /\ HistoryTypes'
    BY <2>1 DEF TypeOK, AmendTypes, DeviceTypes, HistoryTypes
  <2>5. PrefTypes'
    BY <2>2 DEF TypeOK, PrefTypes
  <2> QED BY <2>3, <2>4, <2>5 DEF TypeOK, AmendTypes
<1> QED BY <1>1, <1>2, <1>3, <1>4, Steps

\* Every variable keeps its type: a device that is told a text, a frame on its
\* way, a page, the settings (messages.go, ws.go, chatprefs.go, history.js).
THEOREM TypeCorrect == Spec => []TypeOK
<1>1. Init => TypeOK
  BY InitTypes
<1>2. TypeOK /\ [Next]_vars => TypeOK'
  BY TypesStep
<1> QED BY <1>1, <1>2, PTL DEF Spec

-----------------------------------------------------------------------------
(* The boundary and the cache *)

\* A step leaves the settings as they are, sets one of them, or raises the
\* boundary.
LEMMA PrefSteps ==
    ASSUME TypeOK, [Next]_vars
    PROVE  pref' = pref \/ (pref' \in Prefs /\ pref'.cleared >= pref.cleared)
<1>1. CASE MessageStep
  BY <1>1 DEF MessageStep
<1>2. CASE RestartAll
  BY <1>2 DEF RestartAll
<1>3. ASSUME NEW d \in Peers, OwnStep(d)
      PROVE  pref' = pref \/ (pref' \in Prefs /\ pref'.cleared >= pref.cleared)
  <2> DEFINE r == asks[d]
  <2>1. r \in Asks /\ pref \in Prefs /\ pref.cleared \in Nat
    BY DEF TypeOK, PrefTypes, Prefs
  <2>2. \/ pref' = pref \/ pref' = Upserted(r)
        \/ pref' = [pref EXCEPT !.cleared = Raised(r.max)]
    BY <1>3 DEF OwnStep, SetChatPref, ServeSet, ServeCache, TakeAnswer, RefuseSet, AskClear,
       ServeClear, TakeCleared, AskPrefs, ServePrefs, TakePrefs
  <2> HIDE DEF r
  <2>3. Upserted(r) \in Prefs /\ Upserted(r).cleared >= pref.cleared
    <3>1. Upserted(r) \in Prefs /\ Upserted(r).cleared = pref.cleared
      BY <2>1, PrefRows, Zenon
    <3> QED BY <2>1, <3>1
  <2>4. /\ [pref EXCEPT !.cleared = Raised(r.max)] \in Prefs
        /\ [pref EXCEPT !.cleared = Raised(r.max)].cleared >= pref.cleared
    <3>1. [pref EXCEPT !.cleared = Raised(r.max)] \in Prefs /\ Raised(r.max) >= pref.cleared
      BY <2>1, PrefRows, Zenon
    <3>2. [pref EXCEPT !.cleared = Raised(r.max)].cleared = Raised(r.max)
      BY <2>1 DEF Prefs
    <3> QED BY <3>1, <3>2
  <2> QED BY <2>2, <2>3, <2>4
<1>4. CASE UNCHANGED vars
  BY <1>4 DEF vars, prefVars
<1> QED BY <1>1, <1>2, <1>3, <1>4, Steps

\* What was cleared does not come back: chatClearHandler's GREATEST never lowers
\* the boundary, whichever of two clears comes first, and setting another
\* preference leaves it alone.
THEOREM BoundaryOnlyRises == Spec => BoundaryNeverFalls
<1>1. TypeOK /\ [Next]_vars => [pref'.cleared >= pref.cleared]_pref
  BY PrefSteps
<1> QED BY <1>1, TypeCorrect, PTL DEF Spec, BoundaryNeverFalls

\* Of the handlers between their statement and the cache, the one whose
\* statement was the last has the row as it is.
MutedInv ==
    /\ cachedBy <= upserts
    /\ \A d \in Peers : asks[d].at = "cache" =>
           /\ asks[d].n <= upserts
           /\ asks[d].n = upserts => asks[d].answer.muted = pref.muted
    /\ MutedAgrees

LEMMA MutedStep == TypeOK /\ MutedInv /\ [Next]_vars => MutedInv'
<1> SUFFICES ASSUME TypeOK, MutedInv, [Next]_vars PROVE MutedInv'
  OBVIOUS
<1>0. /\ asks \in [Peers -> Asks] /\ upserts \in Nat /\ cachedBy \in Nat /\ pref \in Prefs
      /\ NoAsk.at = "idle"
  BY DEF TypeOK, PrefTypes, NoAsk
<1> USE DEF MutedInv, MutedAgrees
<1>1. CASE MessageStep \/ UNCHANGED vars
  BY <1>1 DEF MessageStep, vars, prefVars
<1>2. CASE RestartAll
  <2>1. /\ cachedBy' = upserts /\ upserts' = upserts /\ pref' = pref /\ mutedSet' = pref.muted
        /\ \A d \in Peers : asks'[d].at # "cache"
    BY <1>0, <1>2 DEF RestartAll, loadMutedCache
  <2> QED BY <1>0, <2>1
<1>3. ASSUME NEW d \in Peers, OwnStep(d) PROVE MutedInv'
  <2>1. CASE ServeSet(d)
    <3> DEFINE u == Upserted(asks[d])
               v == [asks[d] EXCEPT !.at = "cache", !.answer = u, !.n = upserts + 1]
    <3>1. /\ pref' = u /\ upserts' = upserts + 1 /\ cachedBy' = cachedBy
          /\ asks' = [asks EXCEPT ![d] = v]
      BY <2>1 DEF ServeSet
    <3> HIDE DEF u
    <3>2. v.n = upserts + 1 /\ v.answer = u
      BY <1>0 DEF Asks
    <3> HIDE DEF v
    <3>3. \A e \in Peers : asks'[e] = IF e = d THEN v ELSE asks[e]
      BY <1>0, <3>1
    <3>4. \A e \in Peers : e # d /\ asks[e].at = "cache" => asks[e].n <= upserts
      OBVIOUS
    <3>5. \A e \in Peers : asks[e].n \in Nat
      BY <1>0 DEF Asks
    <3> QED BY <1>0, <3>1, <3>2, <3>3, <3>4, <3>5
  <2>2. CASE ServeCache(d)
    <3> DEFINE v == [asks[d] EXCEPT !.at = "answered"]
    <3>1. /\ mutedSet' = asks[d].answer.muted /\ cachedBy' = asks[d].n
          /\ asks' = [asks EXCEPT ![d] = v] /\ asks[d].at = "cache"
          /\ pref' = pref /\ upserts' = upserts
      BY <2>2 DEF ServeCache, setMutedCache
    <3>2. v.at = "answered"
      BY <1>0 DEF Asks
    <3> HIDE DEF v
    <3> QED BY <1>0, <3>1, <3>2
  <2>3. CASE ServeClear(d)
    <3> DEFINE n == Raised(asks[d].max)
               v == [asks[d] EXCEPT !.at = "cleared", !.max = n]
    <3>1. /\ pref' = [pref EXCEPT !.cleared = n] /\ asks' = [asks EXCEPT ![d] = v]
          /\ UNCHANGED <<mutedSet, upserts, cachedBy>>
      BY <2>3 DEF ServeClear
    <3> HIDE DEF n
    <3>2. v.at = "cleared" /\ pref'.muted = pref.muted
      BY <1>0, <3>1 DEF Asks, Prefs
    <3> HIDE DEF v
    <3> QED BY <1>0, <3>1, <3>2
  <2>4. CASE ~(ServeSet(d) \/ ServeCache(d) \/ ServeClear(d))
    <3>1. UNCHANGED <<pref, mutedSet, upserts, cachedBy>>
      BY <1>3, <2>4 DEF OwnStep, SetChatPref, TakeAnswer, RefuseSet, AskClear, TakeCleared,
         AskPrefs, ServePrefs, TakePrefs
    <3>2. \A e \in Peers : asks'[e] = asks[e] \/ asks'[e].at # "cache"
      <4>1. CASE SetChatPref(d)
        <5>1. PICK field \in {"muted", "archived"} :
                 asks' = [asks EXCEPT ![d] = [NoAsk EXCEPT !.at = "set", !.field = field,
                                                  !.to = ~view[d][field], !.before = view[d]]]
          BY <4>1 DEF SetChatPref
        <5>2. [NoAsk EXCEPT !.at = "set", !.field = field,
                  !.to = ~view[d][field], !.before = view[d]].at = "set"
          BY DEF NoAsk
        <5> QED BY <1>0, <5>1, <5>2
      <4>2. CASE AskClear(d)
        <5>1. [NoAsk EXCEPT !.at = "clear", !.max = ConversationMax].at = "clear"
          BY DEF NoAsk
        <5> QED BY <1>0, <4>2, <5>1 DEF AskClear
      <4>3. asks' = asks \/ asks' = [asks EXCEPT ![d] = NoAsk] \/ SetChatPref(d) \/ AskClear(d)
        BY <1>3, <2>4 DEF OwnStep, TakeAnswer, RefuseSet, TakeCleared, AskPrefs, ServePrefs,
           TakePrefs
      <4> QED BY <1>0, <4>1, <4>2, <4>3
    <3> QED BY <1>0, <3>1, <3>2
  <2> QED BY <2>1, <2>2, <2>3, <2>4
<1> QED BY <1>1, <1>2, <1>3, Steps

\* setMutedCache after chatPrefsHandler's statement and loadMutedCache at the
\* start keep the cache of muted chats true to the table, as long as the handler
\* of the last statement is the last to come to it.
THEOREM CacheIsTrue == Spec => []MutedAgrees
<1>1. Init => MutedInv
  <2> SUFFICES ASSUME Init PROVE MutedInv
    OBVIOUS
  <2>1. /\ cachedBy = 0 /\ upserts = 0 /\ mutedSet = pref.muted
        /\ \A d \in Peers : asks[d].at = "idle"
    BY DEF Init, NoAsk, NoPref
  <2> QED BY <2>1 DEF MutedInv, MutedAgrees
<1>2. TypeOK /\ MutedInv /\ [Next]_vars => MutedInv'
  BY MutedStep
<1>3. MutedInv => MutedAgrees
  BY DEF MutedInv
<1> QED BY <1>1, <1>2, <1>3, TypeCorrect, PTL DEF Spec

-----------------------------------------------------------------------------
(* What a clear takes away *)

\* A page holds the message only if it is above the boundary it was read with,
\* and does not move the cursor to it without holding it.
PageIsWhole ==
    \A d \in Devices :
        /\ sync[d].at = "page" /\ sync[d].has => sync[d].bound < 1
        /\ sync[d].at \in {"marks", "page"} /\ sync[d].top = 1 => sync[d].has

LEMMA PageStep ==
    ASSUME AmendTypes, PageIsWhole, NEW cleared \in [Devices -> Nat],
           AmendmentsNext(cleared) \/ Restart
    PROVE  PageIsWhole'
<1>0. /\ sync \in [Devices -> Syncs] /\ seqs \subseteq {1, 2} /\ cursor \in [Devices -> Nat]
      /\ NoSync \in Syncs /\ NoSync.at = "idle"
  BY Blanks DEF AmendTypes, DeviceTypes, ServerTypes, NoSync
<1> USE DEF PageIsWhole
<1>1. ASSUME NEW d \in Devices, NEW v, sync' = [sync EXCEPT ![d] = v],
             v.at \notin {"marks", "page"}
      PROVE  PageIsWhole'
  BY <1>0, <1>1
<1>2. ASSUME NEW d \in Devices, SyncRows(d) PROVE PageIsWhole'
  <2> DEFINE S == {s \in seqs : s > cursor[d]}
             h == 1 \in seqs /\ cursor[d] < 1
             t == Highest(S)
             b == IF row.deleted THEN Gone ELSE row.body
             v == [NoSync EXCEPT !.at = "marks", !.has = h, !.top = t, !.body = b,
                     !.deleted = row.deleted, !.read = row.read, !.ver = row.ver]
  <2>1. sync' = [sync EXCEPT ![d] = v]
    BY <1>2 DEF SyncRows
  <2>2. t = 1 => h
    <3>1. t = 1 => 1 \in S
      <4>1. S \in SUBSET {1, 2}
        BY <1>0
      <4> HIDE DEF S
      <4> QED BY <4>1, HighestIs
    <3>2. 1 \in S => h
      BY <1>0
    <3> QED BY <3>1, <3>2
  <2> HIDE DEF h, t, b
  <2>3. v.at = "marks" /\ v.top = t /\ v.has = h
    BY DEF NoSync
  <2> HIDE DEF v
  <2> QED BY <1>0, <2>1, <2>2, <2>3
<1>3. ASSUME NEW d \in Devices, SyncMarks(d, cleared[d]) PROVE PageIsWhole'
  <2> DEFINE n == cleared[d]
             h == sync[d].has /\ n < 1
             t == IF sync[d].top <= n THEN 0 ELSE sync[d].top
             v == [sync[d] EXCEPT !.at = "page", !.bound = n, !.has = h, !.top = t,
                                  !.on = mark.on, !.seq = mark.seq]
  <2>1. sync' = [sync EXCEPT ![d] = v] /\ sync[d].at = "marks"
    BY <1>3 DEF SyncMarks
  <2>2. n \in Nat /\ sync[d].top \in Nat
    BY <1>0 DEF Syncs
  <2>3. (h => n < 1) /\ (t = 1 => h)
    BY <2>1, <2>2
  <2> HIDE DEF n, h, t
  <2>4. v.at = "page" /\ v.bound = n /\ v.has = h /\ v.top = t
    BY <1>0 DEF Syncs
  <2> HIDE DEF v
  <2> QED BY <1>0, <2>1, <2>3, <2>4
<1>4. ASSUME NEW d \in Devices, SyncMerge(d) PROVE PageIsWhole'
  <2>1. sync' = [sync EXCEPT ![d] = [NoSync EXCEPT !.at = "reacts"]]
    BY <1>4 DEF SyncMerge
  <2>2. [NoSync EXCEPT !.at = "reacts"].at = "reacts"
    BY <1>0 DEF Syncs
  <2> QED BY <1>1, <2>1, <2>2
<1>5. ASSUME NEW d \in Devices, SyncReactions(d) PROVE PageIsWhole'
  <2> DEFINE n == IF mark.seq > rcursor[d] THEN mark.seq ELSE 0
             v == [sync[d] EXCEPT !.at = "events", !.on = mark.on, !.seq = n]
  <2>1. sync' = [sync EXCEPT ![d] = v]
    BY <1>5 DEF SyncReactions
  <2> HIDE DEF n
  <2>2. v.at = "events"
    BY <1>0 DEF Syncs
  <2> HIDE DEF v
  <2> QED BY <1>1, <2>1, <2>2
<1>6. ASSUME NEW d \in Devices, SyncRefused(d) \/ SyncEvents(d) PROVE PageIsWhole'
  <2>1. sync' = [sync EXCEPT ![d] = NoSync]
    BY <1>6 DEF SyncRefused, SyncEvents
  <2> QED BY <1>0, <1>1, <2>1
<1>7. ASSUME NEW d \in Devices, Connect(d) PROVE PageIsWhole'
  <2>1. sync' = sync \/ sync' = [sync EXCEPT ![d] = [sync[d] EXCEPT !.at = "rows"]]
    BY <1>7 DEF Connect
  <2>2. [sync[d] EXCEPT !.at = "rows"].at = "rows"
    BY <1>0 DEF Syncs
  <2> QED BY <1>1, <2>1, <2>2
<1>8. CASE Restart
  <2>1. [NoSync EXCEPT !.at = "rows"].at = "rows"
    BY <1>0 DEF Syncs
  <2>2. \A d \in Devices : sync'[d] = sync[d] \/ sync'[d].at \in {"rows", "idle"}
    BY <1>0, <1>8, <2>1 DEF Restart
  <2> QED BY <2>2
<1>9. \/ sync' = sync
      \/ \E d \in Devices : \/ SyncRows(d) \/ SyncMarks(d, cleared[d]) \/ SyncMerge(d)
                            \/ SyncReactions(d) \/ SyncRefused(d) \/ SyncEvents(d) \/ Connect(d)
      \/ Restart
  BY ZenonT(30) DEF AmendmentsNext, Commit, SubmitEdit, SubmitDelete, SendRead, SendReaction, DropReaction,
     Receive, Disconnect, LosePost, Amend, Tell, TellOne, Answer, ServeRead, TellRead,
     ServeReaction, EchoReaction, RelayReaction, device
<1> QED BY <1>2, <1>3, <1>4, <1>5, <1>6, <1>7, <1>8, <1>9

\* Nothing that happens to the message takes a copy away, and only old news
\* brings one in.
LEMMA CopiesStay ==
    ASSUME AmendTypes, PageIsWhole, NEW cleared, AmendmentsNext(cleared), NEW d \in Devices
    PROVE  /\ copy[d].there => copy'[d].there
           /\ copy'[d].there => copy[d].there \/ OldNews(d)
<1>0. /\ copy \in [Devices -> Copies] /\ sync \in [Devices -> Syncs]
      /\ inbox \in [Devices -> Seq(Frame)]
  BY DEF AmendTypes, DeviceTypes, RoadTypes
<1>1. ASSUME NEW e \in Devices, NEW v, copy' = [copy EXCEPT ![e] = v],
             copy[e].there => v.there, v.there => copy[e].there \/ OldNews(e)
      PROVE  /\ copy[d].there => copy'[d].there
             /\ copy'[d].there => copy[d].there \/ OldNews(d)
  BY <1>0, <1>1
<1>2. ASSUME NEW e \in Devices, SubmitEdit(e) \/ SendReaction(e) \/ SyncEvents(e)
      PROVE  /\ copy[d].there => copy'[d].there
             /\ copy'[d].there => copy[d].there \/ OldNews(d)
  <2>1. \/ copy' = copy \/ copy' = [copy EXCEPT ![e].body = changes + 1]
        \/ copy' = [copy EXCEPT ![e].on = ~@] \/ copy' = [copy EXCEPT ![e].on = sync[e].on]
    BY <1>2 DEF SubmitEdit, SendReaction, SyncEvents
  <2>2. copy'[d].there = copy[d].there
    <3>1. CASE copy' = [copy EXCEPT ![e].body = changes + 1]
      BY <1>0, <3>1 DEF Copies
    <3>2. CASE copy' = [copy EXCEPT ![e].on = ~@]
      BY <1>0, <3>2 DEF Copies
    <3>3. CASE copy' = [copy EXCEPT ![e].on = sync[e].on]
      BY <1>0, <3>3 DEF Copies
    <3> QED BY <2>1, <3>1, <3>2, <3>3
  <2> QED BY <2>2
<1>3. ASSUME NEW p \in Procs, Answer(p)
      PROVE  /\ copy[d].there => copy'[d].there
             /\ copy'[d].there => copy[d].there \/ OldNews(d)
  <2>1. copy'[d].there = copy[d].there
    BY ZenonT(30), <1>0, <1>3 DEF Answer, Copies
  <2> QED BY <2>1
<1>4. ASSUME NEW e \in Devices, Receive(e)
      PROVE  /\ copy[d].there => copy'[d].there
             /\ copy'[d].there => copy[d].there \/ OldNews(d)
  <2> DEFINE f == Head(inbox[e])
             c == copy[e]
             v == Shown(c, f)
  <2>1. copy' = [copy EXCEPT ![e] = v]
    BY <1>4 DEF Receive
  <2>2. f \in Frame /\ f \in Frames(e) /\ c \in Copies
    <3>1. inbox[e] # << >> /\ inbox[e] \in Seq(Frame) /\ c \in Copies
      BY <1>0, <1>4 DEF Receive
    <3>2. f \in Frame /\ f = inbox[e][1] /\ 1 \in 1 .. Len(inbox[e])
      BY <3>1
    <3> QED BY <3>1, <3>2 DEF Frames
  <2>3. f.kind \in {"new", "edit", "delete", "read", "react"}
    BY <2>2 DEF Frame, Texts, Reacts, Signs
  <2>4. f.kind = "new" => OldNews(e)
    BY <2>2 DEF OldNews, Holds
  <2> HIDE DEF f, c
  <2>5. c.there => v.there
    BY <2>2, <2>3 DEF Shown, Copies
  <2>6. v.there => c.there \/ f.kind = "new"
    BY DEF Shown
  <2> HIDE DEF v
  <2> QED BY <1>1, <2>1, <2>4, <2>5, <2>6 DEF c
<1>5. ASSUME NEW e \in Devices, SyncMerge(e)
      PROVE  /\ copy[d].there => copy'[d].there
             /\ copy'[d].there => copy[d].there \/ OldNews(d)
  <2> DEFINE v == [there |-> TRUE, body |-> sync[e].body, deleted |-> sync[e].deleted,
                   read |-> sync[e].read, on |-> sync[e].on]
  <2>1. copy' = copy \/ (sync[e].has /\ copy' = [copy EXCEPT ![e] = v])
    BY <1>5 DEF SyncMerge
  <2>2. sync[e].has => OldNews(e)
    BY <1>5 DEF SyncMerge, OldNews, PageIsWhole
  <2>3. v.there
    OBVIOUS
  <2> HIDE DEF v
  <2> QED BY <1>1, <2>1, <2>2, <2>3
<1>6. \/ copy' = copy
      \/ \E p \in Procs : Answer(p)
      \/ \E e \in Devices : SubmitEdit(e) \/ SendReaction(e) \/ Receive(e) \/ SyncMerge(e)
                            \/ SyncEvents(e)
  BY ZenonT(30) DEF AmendmentsNext, Commit, SubmitDelete, SendRead, DropReaction,
     SyncRows, SyncMarks, SyncReactions, SyncRefused, Connect, Disconnect,
     LosePost, Amend, Tell, TellOne, ServeRead, TellRead, ServeReaction,
     EchoReaction, RelayReaction, device
<1> QED BY <1>2, <1>3, <1>4, <1>5, <1>6

\* The cursor comes to the message with a page that holds it.
LEMMA CursorBringsIt ==
    ASSUME AmendTypes, PageIsWhole, NEW cleared, AmendmentsNext(cleared), NEW d \in Devices,
           cursor'[d] = 1
    PROVE  cursor[d] = 1 \/ copy'[d].there
<1>0. /\ copy \in [Devices -> Copies] /\ sync \in [Devices -> Syncs]
      /\ cursor \in [Devices -> Nat]
  BY DEF AmendTypes, DeviceTypes
<1>1. cursor' = cursor \/ \E e \in Devices : SyncMerge(e)
  BY ZenonT(30) DEF AmendmentsNext, Commit, SubmitEdit, SubmitDelete, SendRead, SendReaction, DropReaction,
     Receive, SyncRows, SyncMarks, SyncReactions, SyncRefused, SyncEvents, Connect,
     Disconnect, LosePost, Amend, Tell, TellOne, Answer, ServeRead, TellRead, ServeReaction,
     EchoReaction, RelayReaction, device
<1>2. ASSUME NEW e \in Devices, SyncMerge(e), cursor[d] # 1
      PROVE  copy'[d].there
  <2>1. cursor' = [cursor EXCEPT ![e] = Max2(cursor[e], sync[e].top)] /\ sync[e].at = "page"
    BY <1>2 DEF SyncMerge
  <2>2. cursor[e] \in Nat /\ sync[e].top \in Nat
    BY <1>0 DEF Syncs
  <2>3. e = d /\ sync[d].top = 1
    BY <1>0, <1>2, <2>1, <2>2, Max2Is
  <2>4. sync[d].has
    BY <2>1, <2>3 DEF PageIsWhole
  <2> QED BY <1>0, <1>2, <2>3, <2>4 DEF SyncMerge
<1> QED BY <1>1, <1>2

\* A boundary under way or set is that of messages a clear has looked at; none
\* that a device knows of is above the one in the table.
BoundsInv ==
    /\ pref.cleared \in covered \cup {0}
    /\ \A d \in Peers :
          /\ asks[d].at \in {"clear", "cleared"} => asks[d].max \in covered \cup {0}
          /\ asks[d].at = "cleared" => asks[d].max <= pref.cleared
          /\ gets[d].at = "answered" => gets[d].answer.cleared <= pref.cleared

ClearInv == BoundsInv /\ PageIsWhole /\ LosesWhatWasCleared

LEMMA BoundsStep == TypeOK /\ BoundsInv /\ [Next]_vars => BoundsInv'
<1> SUFFICES ASSUME TypeOK, BoundsInv, [Next]_vars PROVE BoundsInv'
  OBVIOUS
<1>0. /\ asks \in [Peers -> Asks] /\ gets \in [Peers -> Gets] /\ pref \in Prefs
      /\ pref.cleared \in Nat /\ seqs \subseteq {1, 2} /\ covered \subseteq {1, 2}
      /\ NoAsk.at = "idle" /\ NoGet.at = "idle" /\ NoAsk \in Asks
  BY PrefBlanks DEF TypeOK, PrefTypes, AmendTypes, ServerTypes, Prefs, NoAsk, NoGet
<1>a. pref' \in Prefs /\ pref'.cleared \in Nat /\ pref'.cleared >= pref.cleared
  BY <1>0, PrefSteps DEF Prefs
<1> USE DEF BoundsInv
<1>1. CASE MessageStep \/ UNCHANGED vars
  BY <1>1 DEF MessageStep, vars, prefVars
<1>2. CASE RestartAll
  <2>1. /\ \A d \in Peers : asks'[d] = asks[d] \/ asks'[d].at = "idle"
        /\ \A d \in Peers : gets'[d] = gets[d] \/ gets'[d].at = "idle"
        /\ pref' = pref /\ covered' = covered
    BY <1>0, <1>2 DEF RestartAll, clears
  <2> QED BY <2>1
<1>3. ASSUME NEW d \in Peers, OwnStep(d) PROVE BoundsInv'
  <2>0. asks[d] \in Asks /\ asks[d].max \in Nat
    BY <1>0 DEF Asks
  <2>1. CASE ServeClear(d)
    <3> DEFINE r == asks[d]
               n == Raised(r.max)
               v == [r EXCEPT !.at = "cleared", !.max = n]
    <3>1. /\ pref' = [pref EXCEPT !.cleared = n] /\ asks' = [asks EXCEPT ![d] = v]
          /\ gets' = gets /\ covered' = covered /\ r.at = "clear"
      BY <2>1 DEF ServeClear, clears
    <3>2. n \in {pref.cleared, r.max}
      <4>1. r \in Asks
        BY <2>0
      <4> HIDE DEF r
      <4> QED BY <4>1, PrefRows, Zenon DEF n
    <3>3. n \in covered \cup {0}
      BY <3>1, <3>2
    <3> HIDE DEF n
    <3>4. v.at = "cleared" /\ v.max = n /\ pref'.cleared = n
      BY <1>0, <2>0, <3>1 DEF Asks, Prefs
    <3> HIDE DEF v
    <3>5. /\ asks'[d] = v
          /\ \A e \in Peers : e # d => asks'[e] = asks[e]
      BY <1>0, <3>1
    <3>6. n \in Nat /\ n >= pref.cleared /\ v.max <= n
      BY <1>a, <3>4
    <3>7. \A e \in Peers : asks[e].max \in Nat /\ gets[e].answer.cleared \in Nat
      BY <1>0 DEF Asks, Gets, Prefs
    <3>8. \A e \in Peers :
             /\ asks'[e].at \in {"clear", "cleared"} => asks'[e].max \in covered \cup {0}
             /\ asks'[e].at = "cleared" => asks'[e].max <= n
      BY <1>0, <3>3, <3>4, <3>5, <3>6, <3>7
    <3>9. \A e \in Peers : gets[e].at = "answered" => gets[e].answer.cleared <= n
      BY <1>0, <3>6, <3>7
    <3> QED BY <3>1, <3>3, <3>4, <3>8, <3>9
  <2>2. CASE AskClear(d)
    <3> DEFINE m == ConversationMax
               v == [NoAsk EXCEPT !.at = "clear", !.max = m]
    <3>1. /\ asks' = [asks EXCEPT ![d] = v] /\ pref' = pref /\ gets' = gets
          /\ covered' = covered \cup seqs
      BY <2>2 DEF AskClear
    <3>2. m \in seqs \cup {0}
      BY <1>0, HighestIs DEF ConversationMax
    <3> HIDE DEF m
    <3>3. v.at = "clear" /\ v.max = m
      BY <1>0 DEF Asks
    <3> HIDE DEF v
    <3> QED BY <1>0, <3>1, <3>2, <3>3
  <2>3. CASE ServeSet(d)
    <3> DEFINE r == asks[d]
               u == Upserted(r)
               v == [r EXCEPT !.at = "cache", !.answer = u, !.n = upserts + 1]
    <3>1. /\ pref' = u /\ asks' = [asks EXCEPT ![d] = v]
          /\ gets' = gets /\ covered' = covered
      BY <2>3 DEF ServeSet, clears
    <3>2. u.cleared = pref.cleared
      <4>1. r \in Asks
        BY <2>0
      <4> HIDE DEF r
      <4> QED BY <4>1, PrefRows, Zenon DEF u
    <3> HIDE DEF u
    <3>3. v.at = "cache"
      BY <2>0 DEF Asks
    <3> HIDE DEF v
    <3> QED BY <1>0, <3>1, <3>2, <3>3
  <2>4. CASE ServeCache(d)
    <3> DEFINE v == [asks[d] EXCEPT !.at = "answered"]
    <3>1. /\ asks' = [asks EXCEPT ![d] = v]
          /\ pref' = pref /\ gets' = gets /\ covered' = covered
      BY <2>4 DEF ServeCache, clears
    <3>2. v.at = "answered"
      BY <2>0 DEF Asks
    <3> HIDE DEF v
    <3> QED BY <1>0, <3>1, <3>2
  <2>5. CASE SetChatPref(d)
    <3>1. PICK field \in {"muted", "archived"} :
             asks' = [asks EXCEPT ![d] = [NoAsk EXCEPT !.at = "set", !.field = field,
                                              !.to = ~view[d][field], !.before = view[d]]]
      BY <2>5 DEF SetChatPref
    <3>2. [NoAsk EXCEPT !.at = "set", !.field = field,
              !.to = ~view[d][field], !.before = view[d]].at = "set"
      BY DEF NoAsk
    <3>3. pref' = pref /\ gets' = gets /\ covered' = covered
      BY <2>5 DEF SetChatPref, clears
    <3> QED BY <1>0, <3>1, <3>2, <3>3
  <2>6. CASE TakeAnswer(d) \/ RefuseSet(d) \/ TakeCleared(d)
    <3>1. /\ asks' = [asks EXCEPT ![d] = NoAsk]
          /\ pref' = pref /\ gets' = gets /\ covered' = covered
      BY <2>6 DEF TakeAnswer, RefuseSet, TakeCleared, clears
    <3> QED BY <1>0, <3>1
  <2>7. CASE ServePrefs(d)
    <3>1. /\ gets' = [gets EXCEPT ![d] = [at |-> "answered", answer |-> pref]]
          /\ pref' = pref /\ asks' = asks /\ covered' = covered
      BY <2>7 DEF ServePrefs, clears
    <3> QED BY <1>0, <3>1
  <2>8. CASE AskPrefs(d)
    <3>1. /\ gets' = [gets EXCEPT ![d] = [gets[d] EXCEPT !.at = "asked"]]
          /\ pref' = pref /\ asks' = asks /\ covered' = covered
      BY <2>8 DEF AskPrefs, clears
    <3>2. [gets[d] EXCEPT !.at = "asked"].at = "asked"
      BY <1>0 DEF Gets
    <3> QED BY <1>0, <3>1, <3>2
  <2>9. CASE TakePrefs(d)
    <3>1. /\ gets' = [gets EXCEPT ![d] = NoGet]
          /\ pref' = pref /\ asks' = asks /\ covered' = covered
      BY <2>9 DEF TakePrefs
    <3> QED BY <1>0, <3>1
  <2> QED BY <1>3, <2>1, <2>2, <2>3, <2>4, <2>5, <2>6, <2>7, <2>8, <2>9 DEF OwnStep
<1> QED BY <1>1, <1>2, <1>3, Steps

LEMMA LosesStep == TypeOK /\ ClearInv /\ [Next]_vars => LosesWhatWasCleared'
<1> SUFFICES ASSUME TypeOK, ClearInv, [Next]_vars PROVE LosesWhatWasCleared'
  OBVIOUS
<1>0. /\ pref \in Prefs /\ pref.cleared \in Nat /\ Peers \subseteq Devices
      /\ asks \in [Peers -> Asks] /\ gets \in [Peers -> Gets]
      /\ away \in [Peers -> {"no", "away", "back"}]
      /\ copy \in [Devices -> Copies] /\ AmendTypes /\ PageIsWhole
      /\ LosesWhatWasCleared /\ BoundsInv /\ NoCopy.there = FALSE
  BY DEF TypeOK, PrefTypes, Prefs, AmendTypes, DeviceTypes, ClearInv, Devices, NoCopy
<1> USE DEF LosesWhatWasCleared
<1>a. pref'.cleared \in Nat /\ pref'.cleared >= pref.cleared
  BY <1>0, PrefSteps DEF Prefs
<1>1. CASE MessageStep
  <2>1. ASSUME NEW d \in Peers
        PROVE  /\ copy[d].there => copy'[d].there
               /\ copy'[d].there => copy[d].there \/ OldNews(d)
               /\ cursor'[d] = 1 => cursor[d] = 1 \/ copy'[d].there
    <3> DEFINE c == clearedSeqs
    <3>1. AmendmentsNext(c) /\ d \in Devices
      BY <1>0, <1>1 DEF MessageStep
    <3> HIDE DEF c
    <3> QED BY <1>0, <3>1, CopiesStay, CursorBringsIt
  <2>2. ASSUME NEW d \in Peers, away'[d] = "away" PROVE ~copy'[d].there
    <3>1. away[d] = "away" /\ ~(copy'[d].there /\ OldNews(d))
      BY <1>0, <1>1, <2>2 DEF MessageStep
    <3> QED BY <1>0, <2>1, <3>1
  <2>3. ASSUME NEW d \in Peers, cursor'[d] = 1, pref'.cleared = 0
        PROVE  copy'[d].there \/ d \in swept'
    <3>1. pref.cleared = 0 /\ swept' = {e \in swept : ~copy'[e].there}
      BY <1>1, <2>3 DEF MessageStep
    <3> QED BY <1>0, <2>1, <2>3, <3>1
  <2> QED BY <2>2, <2>3
<1>2. CASE RestartAll
  BY <1>0, <1>2 DEF RestartAll, Restart, clears
<1>3. CASE UNCHANGED vars
  BY <1>0, <1>3 DEF vars, prefVars, amendmentVars, device
<1>4. ASSUME NEW d \in Peers, OwnStep(d) PROVE LosesWhatWasCleared'
  <2>0. cursor' = cursor
    BY <1>4, OwnSteps DEF unchangedMessage
  <2>1. CASE TakeCleared(d)
    <3>1. asks[d].max <= pref.cleared /\ asks[d].max \in Nat
      BY <1>0, <2>1 DEF TakeCleared, BoundsInv, Asks
    <3>2. pref' = pref
      BY <2>1 DEF TakeCleared
    <3>3. \/ UNCHANGED <<copy, away, swept>>
          \/ /\ copy' = [copy EXCEPT ![d] = NoCopy]
             /\ away' = IF asks[d].max >= 1 THEN [away EXCEPT ![d] = "away"] ELSE away
             /\ swept' = IF asks[d].max < 1 /\ copy[d].there THEN swept \cup {d} ELSE swept
      BY <2>1 DEF TakeCleared, Forgotten
    <3>4. CASE UNCHANGED <<copy, away, swept>>
      BY <1>0, <2>0, <3>2, <3>4
    <3>5. CASE copy' = [copy EXCEPT ![d] = NoCopy] /\ asks[d].max >= 1
               /\ away' = [away EXCEPT ![d] = "away"] /\ swept' = swept
      <4>1. pref'.cleared # 0
        BY <1>0, <3>1, <3>2, <3>5
      <4>2. \A e \in Peers : away'[e] = "away" => ~copy'[e].there
        BY <1>0, <3>5
      <4> QED BY <4>1, <4>2
    <3>6. CASE copy' = [copy EXCEPT ![d] = NoCopy] /\ away' = away
               /\ swept' = IF copy[d].there THEN swept \cup {d} ELSE swept
      <4>1. \A e \in Peers : away'[e] = "away" => ~copy'[e].there
        BY <1>0, <3>6
      <4>2. \A e \in Peers : cursor'[e] = 1 /\ pref'.cleared = 0 => copy'[e].there \/ e \in swept'
        BY <1>0, <2>0, <3>2, <3>6
      <4> QED BY <4>1, <4>2
    <3> QED BY <3>1, <3>3, <3>4, <3>5, <3>6
  <2>2. CASE TakePrefs(d)
    <3>1. gets[d].answer.cleared <= pref.cleared /\ gets[d].answer.cleared \in Nat
      BY <1>0, <2>2 DEF TakePrefs, BoundsInv, Gets, Prefs
    <3>2. pref' = pref /\ swept' = swept
      BY <2>2 DEF TakePrefs
    <3>3. \/ UNCHANGED <<copy, away>>
          \/ /\ gets[d].answer.cleared >= 1
             /\ copy' = [copy EXCEPT ![d] = NoCopy]
             /\ away' = [away EXCEPT ![d] = "away"]
      BY <2>2 DEF TakePrefs, Forgotten
    <3>4. CASE UNCHANGED <<copy, away>>
      BY <1>0, <2>0, <3>2, <3>4
    <3>5. CASE gets[d].answer.cleared >= 1 /\ copy' = [copy EXCEPT ![d] = NoCopy]
               /\ away' = [away EXCEPT ![d] = "away"]
      <4>1. pref'.cleared # 0
        BY <1>0, <3>1, <3>2, <3>5
      <4>2. \A e \in Peers : away'[e] = "away" => ~copy'[e].there
        BY <1>0, <3>5
      <4> QED BY <4>1, <4>2
    <3> QED BY <3>3, <3>4, <3>5
  <2>3. CASE ~(TakeCleared(d) \/ TakePrefs(d))
    <3>1. UNCHANGED <<copy, away, swept>>
      BY <1>4, <2>3 DEF OwnStep, SetChatPref, ServeSet, ServeCache, TakeAnswer, RefuseSet,
         AskClear, ServeClear, AskPrefs, ServePrefs, unchangedCopies, clears
    <3>2. pref'.cleared = 0 => pref.cleared = 0
      BY <1>0, <1>a
    <3> QED BY <1>0, <2>0, <3>1, <3>2
  <2> QED BY <2>1, <2>2, <2>3
<1> QED BY <1>1, <1>2, <1>3, <1>4, Steps

LEMMA ClearStep == TypeOK /\ ClearInv /\ [Next]_vars => ClearInv'
<1> SUFFICES ASSUME TypeOK, ClearInv, [Next]_vars PROVE ClearInv'
  OBVIOUS
<1>1. BoundsInv' /\ LosesWhatWasCleared'
  BY BoundsStep, LosesStep DEF ClearInv
<1>2. PageIsWhole'
  <2>0. AmendTypes /\ PageIsWhole /\ clearedSeqs \in [Devices -> Nat]
    BY ClearedSeqsType DEF TypeOK, ClearInv
  <2>1. CASE MessageStep
    <3> DEFINE c == clearedSeqs
    <3>1. AmendmentsNext(c) /\ c \in [Devices -> Nat]
      BY <2>0, <2>1 DEF MessageStep
    <3> HIDE DEF c
    <3> QED BY <2>0, <3>1, PageStep
  <2>2. CASE RestartAll
    <3>1. Restart
      BY <2>2 DEF RestartAll
    <3>2. \A c \in [Devices -> Nat] : PageIsWhole'
      BY <2>0, <3>1, PageStep
    <3> QED BY <2>0, <3>2
  <2>3. CASE UNCHANGED sync
    BY <2>0, <2>3 DEF PageIsWhole
  <2>4. (\E d \in Peers : OwnStep(d)) \/ UNCHANGED vars => UNCHANGED sync
    BY OwnSteps DEF unchangedMessage, vars, amendmentVars, device
  <2> QED BY <2>1, <2>2, <2>3, <2>4, Steps
<1> QED BY <1>1, <1>2 DEF ClearInv

LEMMA ClearInit == Init => ClearInv
<1> SUFFICES ASSUME Init PROVE ClearInv
  OBVIOUS
<1>1. BoundsInv
  <2>1. /\ pref.cleared = 0
        /\ \A d \in Peers : asks[d].at = "idle" /\ gets[d].at = "idle"
    BY DEF Init, NoPref, NoAsk, NoGet
  <2> QED BY <2>1 DEF BoundsInv
<1>2. PageIsWhole
  <2>1. \A d \in Devices : sync[d].at = "idle"
    BY DEF Init, AmendmentsInit, NoSync
  <2> QED BY <2>1 DEF PageIsWhole
<1>3. LosesWhatWasCleared
  <2>1. \A d \in Peers : away[d] = "no" /\ d \in Devices
    BY DEF Init, Devices
  <2>2. ASSUME NEW d \in Peers, cursor[d] = 1 PROVE copy[d].there
    <3>1. d \in load.synced
      BY <2>1, <2>2 DEF Init, AmendmentsInit
    <3>2. copy[d] = [NoCopy EXCEPT !.there = d \in load.synced]
      BY <2>1 DEF Init, AmendmentsInit
    <3>3. copy[d] = [NoCopy EXCEPT !.there = TRUE]
      BY <3>1, <3>2
    <3> QED BY <3>3 DEF NoCopy
  <2> QED BY <2>1, <2>2 DEF LosesWhatWasCleared
<1> QED BY <1>1, <1>2, <1>3 DEF ClearInv

LEMMA ClearsAreExact == TypeOK /\ ClearInv => ClearIsExact
<1> SUFFICES ASSUME TypeOK, ClearInv PROVE HidesWhatWasThere
  BY DEF ClearIsExact, ClearInv
<1>1. /\ pref.cleared \in covered \cup {0} /\ pref.cleared \in Nat
      /\ covered \subseteq {1, 2}
  BY DEF ClearInv, BoundsInv, TypeOK, PrefTypes, Prefs
<1>2. ASSUME NEW s \in 1 .. pref.cleared PROVE s \in covered \/ \E t \in covered : t > s
  <2>1. s = pref.cleared \/ pref.cleared > s
    BY <1>1
  <2>2. pref.cleared \in covered
    BY <1>1
  <2> QED BY <2>1, <2>2
<1> QED BY <1>2 DEF HidesWhatWasThere

\* chatClearHandler's two statements hide nothing that was not there when the
\* first of them looked, a device that took the message out because it was
\* cleared does not get it back from a page read since, and a device only loses
\* the message to a clear.
THEOREM ClearsExactly == Spec => []ClearIsExact
<1>1. Init => ClearInv
  BY ClearInit
<1>2. TypeOK /\ ClearInv /\ [Next]_vars => ClearInv'
  BY ClearStep
<1>3. TypeOK /\ ClearInv => ClearIsExact
  BY ClearsAreExact
<1> QED BY <1>1, <1>2, <1>3, TypeCorrect, PTL DEF Spec

-----------------------------------------------------------------------------
(* From here to the end: that copies come to agree with the row (CopiesAgree). *)
(* What is said of the row, the handlers, the frames and the pages comes       *)
(* first, then the fields of a copy one by one; AgreeInv is all of it.         *)
(* The queues of a device *)

IsText(f) == f.kind \in {"edit", "delete"}

\* What the operators of Amendments say of a queue of frames.
MarksOf(q) == {q[i].seq : i \in {j \in 1 .. Len(q) : q[j].kind = "react"}}
TextOf(q, v) == \E i \in 1 .. Len(q) : IsText(q[i]) /\ q[i].ver = v
KindOf(q, kind) == \E i \in 1 .. Len(q) : q[i].kind = kind
ReactOf(w) == \E i \in 1 .. Len(w) : w[i] = "react"

LEMMA QueueOf ==
    ASSUME NEW d
    PROVE  /\ MarksIn(d) = MarksOf(inbox[d])
           /\ \A v : Coming(d, v) <=> TextOf(inbox[d], v)
           /\ \A kind : Holds(d, kind) <=> KindOf(inbox[d], kind)
           /\ Unserved(d) <=> ReactOf(wire[d])
<1>1. MarksIn(d) = MarksOf(inbox[d])
  BY DEF MarksIn, Frames, MarksOf
<1>2. \A v : Coming(d, v) <=> TextOf(inbox[d], v)
  BY DEF Coming, Frames, TextOf, IsText
<1>3. \A kind : Holds(d, kind) <=> KindOf(inbox[d], kind)
  BY DEF Holds, Frames, KindOf
<1> QED BY <1>1, <1>2, <1>3 DEF Unserved, ReactOf

LEMMA QueueOfNext ==
    ASSUME NEW d
    PROVE  /\ MarksIn(d)' = MarksOf(inbox'[d])
           /\ \A v : Coming(d, v)' <=> TextOf(inbox'[d], v)
           /\ \A kind : Holds(d, kind)' <=> KindOf(inbox'[d], kind)
<1>1. MarksIn(d)' = MarksOf(inbox'[d])
  BY DEF MarksIn, Frames, MarksOf
<1>2. \A v : Coming(d, v)' <=> TextOf(inbox'[d], v)
  BY DEF Coming, Frames, TextOf, IsText
<1>3. \A kind : Holds(d, kind)' <=> KindOf(inbox'[d], kind)
  BY DEF Holds, Frames, KindOf
<1> QED BY <1>1, <1>2, <1>3

\* A frame more, a frame less, none.
LEMMA QueueAppend ==
    ASSUME NEW q \in Seq(Frame), NEW f \in Frame
    PROVE  /\ Len(Append(q, f)) = Len(q) + 1 /\ Len(q) \in Nat
           /\ \A i \in 1 .. Len(q) : Append(q, f)[i] = q[i]
           /\ Append(q, f)[Len(q) + 1] = f
OBVIOUS

LEMMA QueueTail ==
    ASSUME NEW q \in Seq(Frame), q # << >>
    PROVE  /\ Len(q) \in Nat /\ Len(q) >= 1 /\ Len(Tail(q)) = Len(q) - 1
           /\ Head(q) = q[1] /\ Head(q) \in Frame
           /\ \A i \in 1 .. Len(q) - 1 : Tail(q)[i] = q[i + 1]
OBVIOUS

LEMMA ViewsAppend ==
    ASSUME NEW q \in Seq(Frame), NEW f \in Frame
    PROVE  /\ MarksOf(Append(q, f)) = MarksOf(q) \cup (IF f.kind = "react" THEN {f.seq} ELSE {})
           /\ \A v : TextOf(Append(q, f), v) <=> TextOf(q, v) \/ (IsText(f) /\ f.ver = v)
           /\ \A k : KindOf(Append(q, f), k) <=> KindOf(q, k) \/ f.kind = k
<1> DEFINE r == Append(q, f)
           n == Len(q)
<1>1. /\ Len(r) = n + 1 /\ n \in Nat
      /\ \A i \in 1 .. n : r[i] = q[i]
      /\ r[n + 1] = f
  BY QueueAppend
<1> HIDE DEF r, n
<1>2. 1 .. Len(r) = (1 .. n) \cup {n + 1}
  BY <1>1
<1>3. MarksOf(r) = MarksOf(q) \cup (IF f.kind = "react" THEN {f.seq} ELSE {})
  <2>1. ASSUME NEW x \in MarksOf(r) PROVE x \in MarksOf(q) \cup (IF f.kind = "react" THEN {f.seq} ELSE {})
    BY <1>1, <1>2, <2>1 DEF MarksOf, n
  <2>2. MarksOf(q) \subseteq MarksOf(r)
    BY <1>1, <1>2 DEF MarksOf, n
  <2>3. f.kind = "react" => f.seq \in MarksOf(r)
    BY <1>1, <1>2 DEF MarksOf, n
  <2> QED BY <2>1, <2>2, <2>3
<1>4. ASSUME NEW v PROVE TextOf(r, v) <=> TextOf(q, v) \/ (IsText(f) /\ f.ver = v)
  BY <1>1, <1>2 DEF TextOf, n
<1>5. ASSUME NEW k PROVE KindOf(r, k) <=> KindOf(q, k) \/ f.kind = k
  BY <1>1, <1>2 DEF KindOf, n
<1> QED BY <1>3, <1>4, <1>5 DEF r

LEMMA ViewsTail ==
    ASSUME NEW q \in Seq(Frame), q # << >>
    PROVE  /\ MarksOf(Tail(q)) \subseteq MarksOf(q)
           /\ MarksOf(q) = MarksOf(Tail(q)) \cup (IF q[1].kind = "react" THEN {q[1].seq} ELSE {})
           /\ \A v : TextOf(q, v) <=> TextOf(Tail(q), v) \/ (IsText(q[1]) /\ q[1].ver = v)
           /\ \A k : KindOf(q, k) <=> KindOf(Tail(q), k) \/ q[1].kind = k
<1> DEFINE r == Tail(q)
           n == Len(q)
<1>1. /\ Len(r) = n - 1 /\ n \in Nat /\ n >= 1
      /\ \A i \in 1 .. n - 1 : r[i] = q[i + 1]
  BY QueueTail
<1> HIDE DEF r
<1>2. \A i \in 1 .. n : i = 1 \/ (i - 1 \in 1 .. n - 1 /\ q[i] = r[i - 1])
  BY <1>1
<1>3. MarksOf(q) = MarksOf(r) \cup (IF q[1].kind = "react" THEN {q[1].seq} ELSE {})
  <2>1. ASSUME NEW i \in 1 .. n, q[i].kind = "react"
        PROVE  i = 1 \/ q[i].seq \in MarksOf(r)
    BY <1>1, <1>2, <2>1 DEF MarksOf
  <2>2. MarksOf(r) \subseteq MarksOf(q)
    BY SMTT(30), <1>1 DEF MarksOf
  <2>3. q[1].kind = "react" => q[1].seq \in MarksOf(q)
    BY <1>1 DEF MarksOf
  <2> QED BY <2>1, <2>2, <2>3 DEF MarksOf
<1>4. ASSUME NEW v PROVE TextOf(q, v) <=> TextOf(r, v) \/ (IsText(q[1]) /\ q[1].ver = v)
  BY <1>1, <1>2 DEF TextOf
<1>5. ASSUME NEW k PROVE KindOf(q, k) <=> KindOf(r, k) \/ q[1].kind = k
  BY <1>1, <1>2 DEF KindOf
<1> QED BY <1>3, <1>4, <1>5 DEF r

LEMMA ViewsEmpty ==
    MarksOf(<< >>) = {} /\ (\A v : ~TextOf(<< >>, v)) /\ (\A k : ~KindOf(<< >>, k))
BY DEF MarksOf, TextOf, KindOf
\* The frames of q tell what is so in the row r, of what was told as t.
FramesTrue(q, r, t) ==
    \A i \in 1 .. Len(q) :
        /\ IsText(q[i]) => q[i].ver <= t.text
        /\ q[i].kind = "edit" /\ q[i].ver = r.ver => q[i].body = r.body
        /\ q[i].kind = "delete" => r.deleted
        /\ q[i].kind = "read" => r.read

\* Behind the message itself comes all that was told of it since, and behind a
\* text that has not been overtaken the last that was told.
TextAfter(q, i, v) == \E j \in i + 1 .. Len(q) : IsText(q[j]) /\ q[j].ver = v
KindAfter(q, i, k) == \E j \in i + 1 .. Len(q) : q[j].kind = k
EndsWell(q, t, mine) ==
    \A i \in 1 .. Len(q) :
        /\ q[i].kind = "new" => t.text = 0 \/ TextAfter(q, i, t.text)
        /\ IsText(q[i]) /\ ~q[i].crossed => q[i].ver = t.text \/ TextAfter(q, i, t.text)
        /\ q[i].kind = "new" /\ t.gone => KindAfter(q, i, "delete")
        /\ q[i].kind = "new" /\ t.read /\ mine => KindAfter(q, i, "read")

\* No reaction comes twice.
MarksOnce(q) ==
    \A i, j \in 1 .. Len(q) :
        i # j /\ q[i].kind = "react" /\ q[j].kind = "react" => q[i].seq # q[j].seq

LEMMA EmptyQueue ==
    /\ \A r, t : FramesTrue(<< >>, r, t)
    /\ \A t, mine : EndsWell(<< >>, t, mine)
    /\ MarksOnce(<< >>)
BY DEF FramesTrue, EndsWell, MarksOnce

LEMMA TailOfQueue ==
    ASSUME NEW q \in Seq(Frame), q # << >>
    PROVE  /\ \A r, t : FramesTrue(q, r, t) => FramesTrue(Tail(q), r, t)
           /\ \A t, mine : EndsWell(q, t, mine) => EndsWell(Tail(q), t, mine)
           /\ MarksOnce(q) => MarksOnce(Tail(q))
           /\ MarksOnce(q) /\ q[1].kind = "react" => q[1].seq \notin MarksOf(Tail(q))
           /\ \A v : TextAfter(q, 1, v) <=> TextOf(Tail(q), v)
           /\ \A k : KindAfter(q, 1, k) <=> KindOf(Tail(q), k)
<1> DEFINE x == Tail(q)
           n == Len(q)
<1>1. /\ Len(x) = n - 1 /\ n \in Nat /\ n >= 1
      /\ \A i \in 1 .. n - 1 : x[i] = q[i + 1]
  BY QueueTail
<1> HIDE DEF x
<1>2. \A i \in 1 .. n - 1 : i + 1 \in 1 .. n /\ x[i] = q[i + 1]
  BY <1>1
<1>3. ASSUME NEW i \in 1 .. n - 1, NEW j \in (i + 1) + 1 .. n
      PROVE  j - 1 \in i + 1 .. n - 1 /\ q[j] = x[j - 1]
  BY <1>1, <1>3
<1>4. ASSUME NEW r, NEW t, FramesTrue(q, r, t) PROVE FramesTrue(x, r, t)
  BY SMTT(30), <1>1, <1>2, <1>4 DEF FramesTrue
<1>5. ASSUME NEW t, NEW mine, EndsWell(q, t, mine) PROVE EndsWell(x, t, mine)
  <2> SUFFICES ASSUME NEW i \in 1 .. n - 1
               PROVE  /\ x[i].kind = "new" => t.text = 0 \/ TextAfter(x, i, t.text)
                      /\ IsText(x[i]) /\ ~x[i].crossed => x[i].ver = t.text \/ TextAfter(x, i, t.text)
                      /\ x[i].kind = "new" /\ t.gone => KindAfter(x, i, "delete")
                      /\ x[i].kind = "new" /\ t.read /\ mine => KindAfter(x, i, "read")
    BY <1>1 DEF EndsWell
  <2>1. \A v : TextAfter(q, i + 1, v) => TextAfter(x, i, v)
    BY <1>1, <1>3 DEF TextAfter
  <2>2. \A k : KindAfter(q, i + 1, k) => KindAfter(x, i, k)
    BY <1>1, <1>3 DEF KindAfter
  <2> QED BY <1>2, <1>5, <2>1, <2>2 DEF EndsWell
<1>6. MarksOnce(q) => MarksOnce(x)
  BY SMTT(30), <1>1, <1>2 DEF MarksOnce
<1>7. MarksOnce(q) /\ q[1].kind = "react" => q[1].seq \notin MarksOf(x)
  BY <1>1, <1>2 DEF MarksOnce, MarksOf
<1>8. \A i \in 2 .. n : i - 1 \in 1 .. n - 1 /\ x[i - 1] = q[i]
  BY <1>1
<1>9. ASSUME NEW v PROVE TextAfter(q, 1, v) <=> TextOf(x, v)
  BY <1>1, <1>2, <1>8 DEF TextAfter, TextOf
<1>10. ASSUME NEW k PROVE KindAfter(q, 1, k) <=> KindOf(x, k)
  BY <1>1, <1>2, <1>8 DEF KindAfter, KindOf
<1> QED BY <1>4, <1>5, <1>6, <1>7, <1>9, <1>10 DEF x

\* The row may move on while frames are under way.
LEMMA RowMoves ==
    ASSUME NEW q \in Seq(Frame), NEW r \in Rows, NEW s \in Rows, NEW t \in Tolds,
           FramesTrue(q, r, t), r.deleted => s.deleted, r.read => s.read,
           s.ver > r.ver \/ (s.ver = r.ver /\ s.body = r.body), t.text <= r.ver
    PROVE  FramesTrue(q, s, t)
<1> SUFFICES ASSUME NEW i \in 1 .. Len(q)
             PROVE  /\ q[i].kind = "edit" /\ q[i].ver = s.ver => q[i].body = s.body
                    /\ q[i].kind = "delete" => s.deleted
                    /\ q[i].kind = "read" => s.read
                    /\ IsText(q[i]) => q[i].ver <= t.text
  BY DEF FramesTrue
<1>1. q[i] \in Frame /\ r.ver \in Nat /\ s.ver \in Nat /\ t.text \in Nat
  BY DEF Rows, Tolds
<1>2. IsText(q[i]) => q[i].ver \in Nat
  BY <1>1 DEF Frame, Texts, Reacts, Signs, IsText
<1> QED BY <1>1, <1>2 DEF FramesTrue, IsText

\* What a frame must be for it to be put behind the others.
LEMMA BehindQueue ==
    ASSUME NEW q \in Seq(Frame), NEW f \in Frame, NEW r, NEW t \in Tolds, NEW u \in Tolds, NEW mine \in BOOLEAN,
           FramesTrue(q, r, t), EndsWell(q, t, mine),
           u.text >= t.text,
           IsText(f) => f.ver <= u.text /\ (~f.crossed => f.ver = u.text),
           f.kind = "edit" /\ f.ver = r.ver => f.body = r.body,
           f.kind = "delete" => r.deleted,
           f.kind = "read" => r.read,
           f.kind = "new" => u.text = 0 /\ ~u.gone /\ ~u.read,
           u.text = t.text \/ (IsText(f) /\ f.ver = u.text),
           u.gone = t.gone \/ f.kind = "delete",
           u.read = t.read \/ f.kind = "read"
    PROVE  FramesTrue(Append(q, f), r, u) /\ EndsWell(Append(q, f), u, mine)
<1> DEFINE x == Append(q, f)
           n == Len(q)
<1>1. /\ Len(x) = n + 1 /\ n \in Nat
      /\ \A i \in 1 .. n : x[i] = q[i]
      /\ x[n + 1] = f
  BY QueueAppend
<1> HIDE DEF x
<1>2. \A i \in 1 .. n + 1 : i \in 1 .. n \/ i = n + 1
  BY <1>1
<1>3. /\ \A i \in 1 .. n : q[i] \in Frame
      /\ t.text \in Nat /\ u.text \in Nat
  BY DEF Tolds
<1>4. FramesTrue(x, r, u)
  <2> SUFFICES ASSUME NEW i \in 1 .. n + 1
               PROVE  /\ IsText(x[i]) => x[i].ver <= u.text
                      /\ x[i].kind = "edit" /\ x[i].ver = r.ver => x[i].body = r.body
                      /\ x[i].kind = "delete" => r.deleted
                      /\ x[i].kind = "read" => r.read
    BY <1>1 DEF FramesTrue
  <2>1. CASE i = n + 1
    BY <1>1, <2>1
  <2>2. CASE i \in 1 .. n
    <3>1. IsText(q[i]) => q[i].ver \in Nat
      BY <1>3, <2>2 DEF Frame, Texts, Reacts, Signs, IsText
    <3> QED BY <1>1, <1>3, <2>2, <3>1 DEF FramesTrue
  <2> QED BY <1>2, <2>1, <2>2
<1>5. ASSUME NEW i \in 1 .. n
      PROVE  /\ \A v : TextAfter(q, i, v) => TextAfter(x, i, v)
             /\ \A k : KindAfter(q, i, k) => KindAfter(x, i, k)
             /\ IsText(f) => TextAfter(x, i, f.ver)
             /\ KindAfter(x, i, f.kind)
  <2>1. n + 1 \in i + 1 .. Len(x) /\ \A j \in i + 1 .. n : j \in i + 1 .. Len(x) /\ x[j] = q[j]
    BY <1>1
  <2> QED BY <1>1, <2>1 DEF TextAfter, KindAfter
<1>6. EndsWell(x, u, mine)
  <2> SUFFICES ASSUME NEW i \in 1 .. n + 1
               PROVE  /\ x[i].kind = "new" => u.text = 0 \/ TextAfter(x, i, u.text)
                      /\ IsText(x[i]) /\ ~x[i].crossed => x[i].ver = u.text \/ TextAfter(x, i, u.text)
                      /\ x[i].kind = "new" /\ u.gone => KindAfter(x, i, "delete")
                      /\ x[i].kind = "new" /\ u.read /\ mine => KindAfter(x, i, "read")
    BY <1>1 DEF EndsWell
  <2>1. CASE i = n + 1
    BY <1>1, <2>1
  <2>2. CASE i \in 1 .. n
    BY <1>1, <1>5, <2>2 DEF EndsWell
  <2> QED BY <1>2, <2>1, <2>2
<1> QED BY <1>4, <1>6 DEF x

LEMMA OnceBehind ==
    ASSUME NEW q \in Seq(Frame), NEW f \in Frame, MarksOnce(q),
           f.kind = "react" => f.seq \notin MarksOf(q)
    PROVE  MarksOnce(Append(q, f))
<1> DEFINE x == Append(q, f)
           n == Len(q)
<1>1. /\ Len(x) = n + 1 /\ n \in Nat
      /\ \A i \in 1 .. n : x[i] = q[i]
      /\ x[n + 1] = f
  BY QueueAppend
<1> HIDE DEF x
<1>2. \A i \in 1 .. n + 1 : i \in 1 .. n \/ i = n + 1
  BY <1>1
<1>3. \A i \in 1 .. n : q[i].kind = "react" => q[i].seq \in MarksOf(q)
  BY DEF MarksOf
<1>4. MarksOnce(x)
  BY <1>1, <1>2, <1>3 DEF MarksOnce
<1> QED BY <1>4 DEF x
(* The reactions a device has sent and that are not served yet *)

Bit(b) == IF b THEN 1 ELSE 0

\* Every reaction of w is one toggle: from first they come to last.
Toggles(w, first, last) ==
    \E h \in [0 .. Len(w) -> {0, 1}] :
        /\ h[0] = first /\ h[Len(w)] = last
        /\ \A i \in 1 .. Len(w) : h[i] = IF w[i] = "react" THEN 1 - h[i - 1] ELSE h[i - 1]

LEMMA ToggleMore ==
    ASSUME NEW w \in Seq({"read", "react"}), NEW op \in {"read", "react"},
           NEW m \in {0, 1}, NEW n \in {0, 1}, Toggles(w, m, n)
    PROVE  Toggles(Append(w, op), m, IF op = "react" THEN 1 - n ELSE n)
<1> DEFINE x == Append(w, op)
           k == Len(w)
           l == IF op = "react" THEN 1 - n ELSE n
<1>1. /\ Len(x) = k + 1 /\ k \in Nat
      /\ \A i \in 1 .. k : x[i] = w[i]
      /\ x[k + 1] = op
  OBVIOUS
<1>2. PICK h \in [0 .. k -> {0, 1}] :
         /\ h[0] = m /\ h[k] = n
         /\ \A i \in 1 .. k : h[i] = IF w[i] = "react" THEN 1 - h[i - 1] ELSE h[i - 1]
  BY DEF Toggles
<1> HIDE DEF x
<1> DEFINE g == [i \in 0 .. k + 1 |-> IF i = k + 1 THEN l ELSE h[i]]
<1>3. g \in [0 .. k + 1 -> {0, 1}] /\ g[0] = m /\ g[k + 1] = l /\ g[k] = n
  BY <1>1, <1>2
<1>4. ASSUME NEW i \in 1 .. k + 1
      PROVE  g[i] = IF x[i] = "react" THEN 1 - g[i - 1] ELSE g[i - 1]
  <2>1. CASE i = k + 1
    BY <1>1, <1>3, <2>1
  <2>2. CASE i \in 1 .. k
    <3>1. g[i] = h[i] /\ g[i - 1] = h[i - 1]
      BY <1>1, <2>2
    <3> QED BY <1>1, <1>2, <2>2, <3>1
  <2> QED BY <1>1, <2>1, <2>2
<1> HIDE DEF g
<1>5. Toggles(x, m, l)
  <2>1. /\ g \in [0 .. Len(x) -> {0, 1}] /\ g[0] = m /\ g[Len(x)] = l
        /\ \A i \in 1 .. Len(x) : g[i] = IF x[i] = "react" THEN 1 - g[i - 1] ELSE g[i - 1]
    BY <1>1, <1>3, <1>4
  <2> QED BY <2>1 DEF Toggles
<1> QED BY <1>5 DEF x

LEMMA ToggleLess ==
    ASSUME NEW w \in Seq({"read", "react"}), w # << >>,
           NEW m \in {0, 1}, NEW n \in {0, 1}, Toggles(w, m, n)
    PROVE  Toggles(Tail(w), IF Head(w) = "react" THEN 1 - m ELSE m, n)
<1> DEFINE x == Tail(w)
           k == Len(w)
           l == IF Head(w) = "react" THEN 1 - m ELSE m
<1>1. /\ Len(x) = k - 1 /\ k \in Nat /\ k >= 1 /\ Head(w) = w[1]
      /\ \A i \in 1 .. k - 1 : x[i] = w[i + 1]
  OBVIOUS
<1>2. PICK h \in [0 .. k -> {0, 1}] :
         /\ h[0] = m /\ h[k] = n
         /\ \A i \in 1 .. k : h[i] = IF w[i] = "react" THEN 1 - h[i - 1] ELSE h[i - 1]
  BY DEF Toggles
<1> HIDE DEF x
<1> DEFINE g == [i \in 0 .. k - 1 |-> h[i + 1]]
<1>3. g \in [0 .. k - 1 -> {0, 1}] /\ g[0] = l /\ g[k - 1] = n
  <2>1. h[1] = l
    BY <1>1, <1>2
  <2> QED BY <1>1, <1>2, <2>1
<1>4. ASSUME NEW i \in 1 .. k - 1
      PROVE  g[i] = IF x[i] = "react" THEN 1 - g[i - 1] ELSE g[i - 1]
  <2>1. g[i] = h[i + 1] /\ g[i - 1] = h[i] /\ i + 1 \in 1 .. k
    BY <1>1
  <2> QED BY SMTT(30), <1>1, <1>2, <2>1
<1> HIDE DEF g
<1>5. Toggles(x, l, n)
  <2>1. /\ g \in [0 .. Len(x) -> {0, 1}] /\ g[0] = l /\ g[Len(x)] = n
        /\ \A i \in 1 .. Len(x) : g[i] = IF x[i] = "react" THEN 1 - g[i - 1] ELSE g[i - 1]
    BY <1>1, <1>3, <1>4
  <2> QED BY <2>1 DEF Toggles
<1> QED BY <1>5 DEF x

LEMMA ToggleOther ==
    ASSUME NEW w \in Seq({"read", "react"}), NEW m \in {0, 1}, NEW n \in {0, 1}, Toggles(w, m, n)
    PROVE  Toggles(w, 1 - m, 1 - n)
<1>1. PICK h \in [0 .. Len(w) -> {0, 1}] :
         /\ h[0] = m /\ h[Len(w)] = n
         /\ \A i \in 1 .. Len(w) : h[i] = IF w[i] = "react" THEN 1 - h[i - 1] ELSE h[i - 1]
  BY DEF Toggles
<1> DEFINE g == [i \in 0 .. Len(w) |-> 1 - h[i]]
<1>2. Len(w) \in Nat /\ \A i \in 1 .. Len(w) : i - 1 \in 0 .. Len(w)
  OBVIOUS
<1>3. g \in [0 .. Len(w) -> {0, 1}] /\ g[0] = 1 - m /\ g[Len(w)] = 1 - n
  BY <1>1, <1>2
<1>4. \A i \in 1 .. Len(w) : g[i] = IF w[i] = "react" THEN 1 - g[i - 1] ELSE g[i - 1]
  BY <1>1, <1>2
<1> HIDE DEF g
<1> QED BY <1>3, <1>4 DEF Toggles

\* Without a reaction the ends are the same.
LEMMA ToggleNone ==
    ASSUME NEW w \in Seq({"read", "react"}), ~ReactOf(w), NEW m \in {0, 1}, NEW n \in {0, 1}
    PROVE  Toggles(w, m, n) <=> m = n
<1>0. Len(w) \in Nat /\ \A i \in 1 .. Len(w) : w[i] # "react"
  BY DEF ReactOf
<1>1. ASSUME Toggles(w, m, n) PROVE m = n
  <2>1. PICK h \in [0 .. Len(w) -> {0, 1}] :
           /\ h[0] = m /\ h[Len(w)] = n
           /\ \A i \in 1 .. Len(w) : h[i] = IF w[i] = "react" THEN 1 - h[i - 1] ELSE h[i - 1]
    BY <1>1 DEF Toggles
  <2> DEFINE S == {i \in 0 .. Len(w) : h[i] = m}
  <2>2. S \in SUBSET Nat /\ IsFiniteSet(S) /\ 0 \in S
    <3>1. IsFiniteSet(0 .. Len(w))
      BY <1>0, FS_Interval
    <3> QED BY <1>0, <2>1, <3>1, FS_Subset
  <2>3. Max(S) \in S /\ \A i \in S : Max(S) >= i
    <3> HIDE DEF S
    <3> QED BY <2>2, GreatestElement
  <2>4. PICK k \in S : \A i \in S : k >= i
    BY <2>3
  <2>5. CASE k < Len(w)
    <3>1. k + 1 \in 1 .. Len(w) /\ h[k + 1] = h[(k + 1) - 1] /\ (k + 1) - 1 = k
      BY <1>0, <2>1, <2>4, <2>5
    <3>2. k + 1 \in S
      BY <2>4, <3>1
    <3> QED BY <1>0, <2>4, <3>2
  <2>6. CASE k = Len(w)
    BY <2>1, <2>4, <2>6
  <2> QED BY <1>0, <2>4, <2>5, <2>6
<1>2. Toggles(w, m, m)
  <2> DEFINE g == [i \in 0 .. Len(w) |-> m]
  <2>1. g \in [0 .. Len(w) -> {0, 1}] /\ g[0] = m /\ g[Len(w)] = m
    BY <1>0
  <2>2. \A i \in 1 .. Len(w) : g[i] = g[i - 1]
    BY <1>0
  <2> HIDE DEF g
  <2> QED BY <1>0, <2>1, <2>2 DEF Toggles
<1> QED BY <1>1, <1>2

LEMMA NoToggles ==
    << >> \in Seq({"read", "react"}) /\ ~ReactOf(<< >>)
BY DEF ReactOf
-----------------------------------------------------------------------------
(* The server's side of the agreement *)

NewRow == [body |-> 0, deleted |-> FALSE, read |-> FALSE, ver |-> 0]
NothingTold == [text |-> 0, gone |-> FALSE, read |-> FALSE]

\* Until the message is committed nothing of it is anywhere.
Unsent ==
    1 \notin seqs =>
        /\ row = NewRow /\ mark = [on |-> FALSE, seq |-> 0] /\ posts = {}
        /\ \A o \in Procs \cup Devices : req[o].at = "idle"
        /\ \A d \in Devices : /\ ~copy[d].there /\ ~sync[d].has
                              /\ inbox[d] = << >> /\ wire[d] = << >>
                              /\ told[d] = NothingTold

LEMMA UnsentStep ==
    ASSUME AmendTypes, Unsent, NEW cleared, AmendmentsNext(cleared) \/ Restart
    PROVE  Unsent'
<1> SUFFICES ASSUME 1 \notin seqs'
             PROVE  /\ row' = NewRow /\ mark' = [on |-> FALSE, seq |-> 0] /\ posts' = {}
                    /\ \A o \in Procs \cup Devices : req'[o].at = "idle"
                    /\ \A d \in Devices : /\ ~copy'[d].there /\ ~sync'[d].has
                                          /\ inbox'[d] = << >> /\ wire'[d] = << >>
                                          /\ told'[d] = NothingTold
  BY DEF Unsent
<1>1. 1 \notin seqs
  <2>1. seqs \subseteq seqs'
    BY ZenonT(30) DEF AmendmentsNext, Commit, SubmitEdit, SubmitDelete, SendRead, SendReaction, DropReaction,
       Receive, SyncRows, SyncMarks, SyncMerge, SyncReactions, SyncRefused, SyncEvents, Connect,
       Disconnect, LosePost, Amend, Tell, TellOne, Answer, ServeRead, TellRead, ServeReaction,
       EchoReaction, RelayReaction, Restart
  <2> QED BY <2>1
<1>2. /\ row = NewRow /\ mark = [on |-> FALSE, seq |-> 0] /\ posts = {}
      /\ \A o \in Procs \cup Devices : req[o].at = "idle"
      /\ \A d \in Devices : /\ ~copy[d].there /\ ~sync[d].has
                            /\ inbox[d] = << >> /\ wire[d] = << >>
                            /\ told[d] = NothingTold
  BY <1>1 DEF Unsent
<1>0. sync \in [Devices -> Syncs] /\ inbox \in [Devices -> Seq(Frame)]
      /\ wire \in [Devices -> Seq({"read", "react"})] /\ NoSync \in Syncs /\ ~NoSync.has
  BY Blanks DEF AmendTypes, DeviceTypes, RoadTypes, NoSync
<1>3. ASSUME NEW d \in Devices
      PROVE  /\ ~SubmitEdit(d) /\ ~SubmitDelete(d) /\ ~SendRead(d) /\ ~SendReaction(d)
             /\ ~ServeRead(d) /\ ~TellRead(d) /\ ~DropReaction(d) /\ ~ServeReaction(d)
             /\ ~EchoReaction(d) /\ ~RelayReaction(d) /\ ~Receive(d)
  BY <1>2 DEF SubmitEdit, SubmitDelete, SendRead, SendReaction, SendFrame, ServeRead, TellRead,
     DropReaction, ServeReaction, TakeFrame, EchoReaction, RelayReaction, Receive
<1>4. ASSUME NEW p \in Procs
      PROVE  ~Tell(p) /\ ~Answer(p) /\ \A d \in Devices : ~TellOne(p, d)
  BY <1>2 DEF Tell, Answer, TellOne
<1>5. CASE Commit(2)
  BY <1>2, <1>5 DEF Commit, device, history
<1>6. ~Commit(1)
  BY DEF Commit
<1>7. ASSUME NEW d \in Devices,
             SyncRows(d) \/ SyncMarks(d, cleared[d]) \/ SyncMerge(d) \/ SyncReactions(d)
               \/ SyncRefused(d) \/ SyncEvents(d) \/ Connect(d)
      PROVE  /\ UNCHANGED <<row, mark, req, posts, inbox, wire, told, copy>>
             /\ ~sync'[d].has /\ \A e \in Devices \ {d} : sync'[e] = sync[e]
  <2>0. ~sync[d].has /\ ~copy[d].there
    BY <1>2
  <2>1. CASE SyncRows(d)
    BY <1>0, <1>1, <2>1 DEF SyncRows, roads, history, NoSync
  <2>2. CASE SyncMarks(d, cleared[d])
    <3>1. \E v : v.has = (sync[d].has /\ cleared[d] < 1) /\ sync' = [sync EXCEPT ![d] = v]
      BY <1>0, <2>2 DEF SyncMarks, Syncs
    <3> QED BY <1>0, <2>0, <2>2, <3>1 DEF SyncMarks, roads, history
  <2>3. CASE SyncMerge(d)
    BY <1>0, <2>0, <2>3 DEF SyncMerge, roads, history, NoSync
  <2>4. CASE SyncReactions(d)
    BY <1>0, <2>0, <2>4 DEF SyncReactions, roads, history, Syncs
  <2>5. CASE SyncRefused(d) \/ SyncEvents(d)
    BY <1>0, <2>0, <2>5 DEF SyncRefused, SyncEvents, roads, history, device
  <2>6. CASE Connect(d)
    BY <1>0, <2>0, <2>6 DEF Connect, roads, history, Syncs
  <2> QED BY <1>7, <2>1, <2>2, <2>3, <2>4, <2>5, <2>6
<1>8. ASSUME NEW d \in Devices, Disconnect(d)
      PROVE  /\ UNCHANGED <<row, mark, req, posts, told, copy, sync>>
             /\ \A e \in Devices : inbox'[e] = << >> /\ wire'[e] = << >>
  BY <1>0, <1>2, <1>8 DEF Disconnect, device
<1>9. CASE Restart
  <2>1. \A d \in Devices : ~sync'[d].has
    BY <1>0, <1>2, <1>9 DEF Restart, NoSync
  <2>2. \A d \in Devices : told'[d] = NothingTold
    BY <1>2, <1>9 DEF Restart, NothingTold, NewRow
  <2> QED BY <1>2, <1>9, <2>1, <2>2 DEF Restart, Idle
<1>10. \/ Commit(2)
       \/ \E d \in Devices : \/ SyncRows(d) \/ SyncMarks(d, cleared[d]) \/ SyncMerge(d)
                             \/ SyncReactions(d) \/ SyncRefused(d) \/ SyncEvents(d) \/ Connect(d)
       \/ \E d \in Devices : Disconnect(d)
       \/ Restart
  BY <1>2, <1>3, <1>4, <1>6, ZenonT(30) DEF AmendmentsNext
<1> QED BY <1>2, <1>5, <1>7, <1>8, <1>9, <1>10

\* Handlers tell texts, connections the rest; only a peer sends and serves
\* anything, and nothing waits for a device that is not there.
Roles ==
    /\ \A p \in Procs : req[p].at \in {"idle", "tell", "telling"} /\ req[p].left \subseteq conn
    /\ \A d \in Devices : req[d].at \in {"idle", "ack", "echo", "relay"}
    /\ \A d \in Devices \ Peers : wire[d] = << >> /\ req[d].at = "idle"
    /\ \A d \in Devices \ conn : inbox[d] = << >> /\ wire[d] = << >>

\* What a handler tells is in the row, and is its text if none came after it.
JobsTrue ==
    \A p \in Procs : req[p].at \in {"tell", "telling"} =>
        /\ 0 < req[p].ver /\ req[p].ver <= row.ver
        /\ req[p].op = "delete" => row.deleted
        /\ req[p].op = "edit" /\ req[p].ver = row.ver => req[p].body = row.body

\* A row that was never amended is as it was inserted, every toggle of the
\* reaction has its number, and what is acknowledged was read.
RowTrue ==
    /\ row.ver = 0 => row.body = 0 /\ ~row.deleted
    /\ Bit(mark.on) = mark.seq % 2
    /\ \A d \in Devices : req[d].at = "ack" => row.read

LEMMA ProcsAndDevices == Procs \cap Devices = {}
BY AmendmentsAssumption DEF Devices
\* What the steps of a handler do to it.
LEMMA HandlerSteps ==
    ASSUME AmendTypes, NEW p \in Procs
    PROVE  /\ \A q \in posts : Amend(p, q) =>
                 /\ req[p].at = "idle" /\ req'[p].at = "tell" /\ req'[p].left = {}
                 /\ req'[p].op = q.op /\ req'[p].body = q.body /\ req'[p].ver = row.ver + 1
                 /\ \A o \in (Procs \cup Devices) \ {p} : req'[o] = req[o]
           /\ Tell(p) =>
                 /\ req[p].at = "tell" /\ req'[p].at = "telling" /\ req'[p].left = conn
                 /\ req'[p].op = req[p].op /\ req'[p].body = req[p].body /\ req'[p].ver = req[p].ver
                 /\ \A o \in (Procs \cup Devices) \ {p} : req'[o] = req[o]
           /\ \A d \in Devices : TellOne(p, d) =>
                 /\ req[p].at = "telling" /\ d \in req[p].left
                 /\ req'[p].at = "telling" /\ req'[p].left = req[p].left \ {d}
                 /\ req'[p].op = req[p].op /\ req'[p].body = req[p].body /\ req'[p].ver = req[p].ver
                 /\ \A o \in (Procs \cup Devices) \ {p} : req'[o] = req[o]
           /\ Answer(p) =>
                 /\ req[p].at = "telling" /\ req[p].left = {} /\ req'[p] = Idle
                 /\ \A o \in (Procs \cup Devices) \ {p} : req'[o] = req[o]
<1>0. req \in [Procs \cup Devices -> Jobs] /\ Devices \subseteq Procs \cup Devices
  BY DEF AmendTypes, ServerTypes
<1>1. ASSUME NEW q \in posts, Amend(p, q)
      PROVE  /\ req[p].at = "idle" /\ req'[p].at = "tell" /\ req'[p].left = {}
             /\ req'[p].op = q.op /\ req'[p].body = q.body /\ req'[p].ver = row.ver + 1
             /\ \A o \in (Procs \cup Devices) \ {p} : req'[o] = req[o]
  BY <1>0, <1>1 DEF Amend, Idle
<1>2. ASSUME Tell(p)
      PROVE  /\ req[p].at = "tell" /\ req'[p].at = "telling" /\ req'[p].left = conn
             /\ req'[p].op = req[p].op /\ req'[p].body = req[p].body /\ req'[p].ver = req[p].ver
             /\ \A o \in (Procs \cup Devices) \ {p} : req'[o] = req[o]
  BY <1>0, <1>2 DEF Tell, Recipients, Jobs
<1>3. ASSUME NEW d \in Devices, TellOne(p, d)
      PROVE  /\ req[p].at = "telling" /\ d \in req[p].left
             /\ req'[p].at = "telling" /\ req'[p].left = req[p].left \ {d}
             /\ req'[p].op = req[p].op /\ req'[p].body = req[p].body /\ req'[p].ver = req[p].ver
             /\ \A o \in (Procs \cup Devices) \ {p} : req'[o] = req[o]
  BY <1>0, <1>3 DEF TellOne, Jobs
<1>4. ASSUME Answer(p)
      PROVE  /\ req[p].at = "telling" /\ req[p].left = {} /\ req'[p] = Idle
             /\ \A o \in (Procs \cup Devices) \ {p} : req'[o] = req[o]
  BY <1>0, <1>4 DEF Answer
<1> QED BY <1>1, <1>2, <1>3, <1>4

\* And those of the read loop of a connection.
LEMMA LoopSteps ==
    ASSUME AmendTypes, Roles, NEW d \in Devices
    PROVE  /\ ServeRead(d) => d \in Peers /\ (row.read => UNCHANGED <<row, req>>)
           /\ ServeRead(d) /\ ~row.read =>
                 /\ req[d].at = "idle" /\ req'[d].at = "ack"
                 /\ \A o \in (Procs \cup Devices) \ {d} : req'[o] = req[o]
           /\ ServeReaction(d) =>
                 /\ req[d].at = "idle" /\ d \in Peers
                 /\ req'[d].at = "echo" /\ req'[d].ver = mark.seq + 1
                 /\ \A o \in (Procs \cup Devices) \ {d} : req'[o] = req[o]
           /\ EchoReaction(d) =>
                 /\ req[d].at = "echo" /\ d \in Peers
                 /\ req'[d].at = "relay" /\ req'[d].ver = req[d].ver
                 /\ \A o \in (Procs \cup Devices) \ {d} : req'[o] = req[o]
           /\ RelayReaction(d) =>
                 /\ req[d].at = "relay" /\ d \in Peers /\ req'[d] = Idle
                 /\ \A o \in (Procs \cup Devices) \ {d} : req'[o] = req[o]
           /\ TellRead(d) =>
                 /\ req[d].at = "ack" /\ d \in Peers /\ req'[d] = Idle
                 /\ \A o \in (Procs \cup Devices) \ {d} : req'[o] = req[o]
<1>0. req \in [Procs \cup Devices -> Jobs] /\ Devices \subseteq Procs \cup Devices
  BY DEF AmendTypes, ServerTypes
<1>1. ServeRead(d) => d \in Peers /\ (row.read => UNCHANGED <<row, req>>)
  BY DEF ServeRead, TakeFrame, Roles
<1>2. ASSUME ServeRead(d), ~row.read
      PROVE  /\ req[d].at = "idle" /\ req'[d].at = "ack"
             /\ \A o \in (Procs \cup Devices) \ {d} : req'[o] = req[o]
  BY <1>0, <1>2 DEF ServeRead, TakeFrame, Jobs
<1>3. ASSUME ServeReaction(d)
      PROVE  /\ req[d].at = "idle" /\ d \in Peers
             /\ req'[d].at = "echo" /\ req'[d].ver = mark.seq + 1
             /\ \A o \in (Procs \cup Devices) \ {d} : req'[o] = req[o]
  BY <1>0, <1>3 DEF ServeReaction, TakeFrame, Jobs, Roles
<1>4. ASSUME EchoReaction(d)
      PROVE  /\ req[d].at = "echo" /\ d \in Peers
             /\ req'[d].at = "relay" /\ req'[d].ver = req[d].ver
             /\ \A o \in (Procs \cup Devices) \ {d} : req'[o] = req[o]
  BY <1>0, <1>4 DEF EchoReaction, Jobs, Roles
<1>5. ASSUME RelayReaction(d)
      PROVE  /\ req[d].at = "relay" /\ d \in Peers /\ req'[d] = Idle
             /\ \A o \in (Procs \cup Devices) \ {d} : req'[o] = req[o]
  BY <1>0, <1>5 DEF RelayReaction, Roles
<1>6. ASSUME TellRead(d)
      PROVE  /\ req[d].at = "ack" /\ d \in Peers /\ req'[d] = Idle
             /\ \A o \in (Procs \cup Devices) \ {d} : req'[o] = req[o]
  BY <1>0, <1>6 DEF TellRead, Roles
<1> QED BY <1>1, <1>2, <1>3, <1>4, <1>5, <1>6

LEMMA JobSteps ==
    ASSUME NEW cleared, AmendmentsNext(cleared) \/ Restart
    PROVE  \/ req' = req
           \/ \E p \in Procs, q \in posts : Amend(p, q)
           \/ \E p \in Procs : Tell(p) \/ Answer(p) \/ \E d \in Devices : TellOne(p, d)
           \/ \E d \in Devices : \/ TellRead(d) \/ RelayReaction(d) \/ EchoReaction(d)
                                 \/ ServeReaction(d) \/ (ServeRead(d) /\ ~row.read)
           \/ Restart
BY ZenonT(30) DEF AmendmentsNext, Commit, SubmitEdit, SubmitDelete, SendRead, SendReaction, DropReaction,
   Receive, SyncRows, SyncMarks, SyncMerge, SyncReactions, SyncRefused, SyncEvents, Connect,
   Disconnect, LosePost, ServeRead

LEMMA RolesStep ==
    ASSUME AmendTypes, Roles, NEW cleared, AmendmentsNext(cleared) \/ Restart
    PROVE  Roles'
<1>0. /\ req \in [Procs \cup Devices -> Jobs] /\ inbox \in [Devices -> Seq(Frame)]
      /\ wire \in [Devices -> Seq({"read", "react"})] /\ conn \subseteq Devices
      /\ Procs \cap Devices = {} /\ Peers \subseteq Devices
  BY ProcsAndDevices DEF AmendTypes, ServerTypes, RoadTypes, Devices
<1>1. /\ \A p \in Procs : req'[p].at \in {"idle", "tell", "telling"}
      /\ \A d \in Devices : req'[d].at \in {"idle", "ack", "echo", "relay"}
      /\ \A d \in Devices \ Peers : req'[d].at = "idle"
  <2> DEFINE G == /\ \A p \in Procs : req'[p].at \in {"idle", "tell", "telling"}
                  /\ \A d \in Devices : req'[d].at \in {"idle", "ack", "echo", "relay"}
                  /\ \A d \in Devices \ Peers : req'[d].at = "idle"
  <2>1. CASE req' = req
    BY <2>1 DEF Roles
  <2>2. ASSUME NEW p \in Procs,
               (\E q \in posts : Amend(p, q)) \/ Tell(p) \/ Answer(p) \/ \E d \in Devices : TellOne(p, d)
        PROVE  G
    <3>1. /\ req'[p].at \in {"idle", "tell", "telling"}
          /\ \A o \in (Procs \cup Devices) \ {p} : req'[o] = req[o]
      BY <2>2, HandlerSteps DEF Idle
    <3> QED BY <1>0, <3>1 DEF Roles
  <2>3. ASSUME NEW d \in Devices,
               \/ TellRead(d) \/ RelayReaction(d) \/ EchoReaction(d)
               \/ ServeReaction(d) \/ (ServeRead(d) /\ ~row.read)
        PROVE  G
    <3>1. /\ req'[d].at \in {"idle", "ack", "echo", "relay"} /\ d \in Peers
          /\ \A o \in (Procs \cup Devices) \ {d} : req'[o] = req[o]
      BY <2>3, LoopSteps DEF Idle
    <3> QED BY <1>0, <3>1 DEF Roles
  <2>4. CASE Restart
    BY <2>4 DEF Restart, Idle
  <2>5. \/ req' = req \/ Restart
        \/ \E p \in Procs : (\E q \in posts : Amend(p, q)) \/ Tell(p) \/ Answer(p)
                              \/ \E d \in Devices : TellOne(p, d)
        \/ \E d \in Devices : \/ TellRead(d) \/ RelayReaction(d) \/ EchoReaction(d)
                              \/ ServeReaction(d) \/ (ServeRead(d) /\ ~row.read)
    BY JobSteps
  <2> HIDE DEF G
  <2>6. G
    BY <2>1, <2>2, <2>3, <2>4, <2>5 DEF G
  <2> QED BY <2>6 DEF G
<1>2. \A p \in Procs : req'[p].left \subseteq conn'
  <2>1. CASE UNCHANGED <<req, conn>>
    BY <2>1 DEF Roles
  <2>2. ASSUME NEW p \in Procs,
               (\E q \in posts : Amend(p, q)) \/ Tell(p) \/ Answer(p) \/ \E d \in Devices : TellOne(p, d)
        PROVE  \A o \in Procs : req'[o].left \subseteq conn'
    <3>1. conn' = conn
      BY <2>2 DEF Amend, Tell, Answer, TellOne, roads
    <3>2. req'[p].left \subseteq conn /\ \A o \in Procs \ {p} : req'[o] = req[o]
      BY <2>2, HandlerSteps DEF Roles, Idle
    <3> QED BY <3>1, <3>2 DEF Roles
  <2>3. ASSUME NEW d \in Devices,
               \/ TellRead(d) \/ RelayReaction(d) \/ EchoReaction(d)
               \/ ServeReaction(d) \/ (ServeRead(d) /\ ~row.read)
        PROVE  \A o \in Procs : req'[o].left \subseteq conn'
    <3>1. conn' = conn
      BY <2>3 DEF TellRead, RelayReaction, EchoReaction, ServeReaction, ServeRead
    <3>2. \A o \in Procs : req'[o] = req[o]
      BY <1>0, <2>3, LoopSteps
    <3> QED BY <3>1, <3>2 DEF Roles
  <2>4. ASSUME NEW d \in Devices, Connect(d) \/ Disconnect(d)
        PROVE  \A o \in Procs : req'[o].left \subseteq conn'
    BY <2>4 DEF Connect, Disconnect, Free
  <2>5. CASE Restart
    BY <2>5 DEF Restart, Idle
  <2>6. \/ UNCHANGED <<req, conn>> \/ Restart
        \/ \E p \in Procs : (\E q \in posts : Amend(p, q)) \/ Tell(p) \/ Answer(p)
                              \/ \E d \in Devices : TellOne(p, d)
        \/ \E d \in Devices : \/ TellRead(d) \/ RelayReaction(d) \/ EchoReaction(d)
                              \/ ServeReaction(d) \/ (ServeRead(d) /\ ~row.read)
                              \/ Connect(d) \/ Disconnect(d)
    BY ZenonT(60) DEF AmendmentsNext, Commit, SubmitEdit, SubmitDelete, SendRead, SendReaction, DropReaction,
       Receive, SyncRows, SyncMarks, SyncMerge, SyncReactions, SyncRefused, SyncEvents,
       LosePost, ServeRead, roads
  <2> QED BY <2>1, <2>2, <2>3, <2>4, <2>5, <2>6
<1>3. \A d \in Devices \ Peers : wire'[d] = << >>
  <2>1. ASSUME NEW d \in Devices, SendRead(d) \/ SendReaction(d) PROVE \A e \in Devices \ Peers : wire'[e] = << >>
    BY <1>0, <2>1 DEF SendRead, SendReaction, SendFrame, Roles
  <2>2. ASSUME NEW d \in Devices, ServeRead(d) \/ DropReaction(d) \/ ServeReaction(d)
        PROVE  \A e \in Devices \ Peers : wire'[e] = << >>
    BY <1>0, <2>2 DEF ServeRead, DropReaction, ServeReaction, TakeFrame, Roles
  <2>3. ASSUME NEW d \in Devices, Disconnect(d) PROVE \A e \in Devices \ Peers : wire'[e] = << >>
    BY <1>0, <2>3 DEF Disconnect, Roles
  <2>4. CASE Restart
    BY <2>4 DEF Restart
  <2>5. \/ wire' = wire \/ Restart
        \/ \E d \in Devices : \/ SendRead(d) \/ SendReaction(d) \/ ServeRead(d) \/ DropReaction(d)
                              \/ ServeReaction(d) \/ Disconnect(d)
    BY ZenonT(30) DEF AmendmentsNext, Commit, SubmitEdit, SubmitDelete,
       Receive, SyncRows, SyncMarks, SyncMerge, SyncReactions, SyncRefused, SyncEvents, Connect,
       LosePost, Amend, Tell, TellOne, Answer, TellRead, EchoReaction, RelayReaction, roads
  <2> QED BY <2>1, <2>2, <2>3, <2>4, <2>5 DEF Roles
<1>4. \A d \in Devices \ conn' : wire'[d] = << >>
  <2>1. ASSUME NEW d \in Devices, SendRead(d) \/ SendReaction(d) PROVE \A e \in Devices \ conn' : wire'[e] = << >>
    BY <1>0, <2>1 DEF SendRead, SendReaction, SendFrame, Roles
  <2>2. ASSUME NEW d \in Devices, ServeRead(d) \/ DropReaction(d) \/ ServeReaction(d)
        PROVE  \A e \in Devices \ conn' : wire'[e] = << >>
    BY <1>0, <2>2 DEF ServeRead, DropReaction, ServeReaction, TakeFrame, Roles
  <2>3. ASSUME NEW d \in Devices, Disconnect(d) \/ Connect(d) PROVE \A e \in Devices \ conn' : wire'[e] = << >>
    BY <1>0, <2>3 DEF Disconnect, Connect, Roles
  <2>4. CASE Restart
    BY <2>4 DEF Restart
  <2>5. \/ UNCHANGED <<wire, conn>> \/ Restart
        \/ \E d \in Devices : \/ SendRead(d) \/ SendReaction(d) \/ ServeRead(d) \/ DropReaction(d)
                              \/ ServeReaction(d) \/ Disconnect(d) \/ Connect(d)
    BY ZenonT(60) DEF AmendmentsNext, Commit, SubmitEdit, SubmitDelete,
       Receive, SyncRows, SyncMarks, SyncMerge, SyncReactions, SyncRefused, SyncEvents,
       LosePost, Amend, Tell, TellOne, Answer, TellRead, EchoReaction, RelayReaction, roads
  <2> QED BY <2>1, <2>2, <2>3, <2>4, <2>5 DEF Roles
<1>5. \A d \in Devices \ conn' : inbox'[d] = << >>
  <2>1. ASSUME NEW s \in {1, 2}, Commit(s) PROVE \A e \in Devices \ conn' : inbox'[e] = << >>
    BY <1>0, <2>1 DEF Commit, Roles
  <2>2. ASSUME NEW p \in Procs, NEW d \in Devices, TellOne(p, d)
        PROVE  \A e \in Devices \ conn' : inbox'[e] = << >>
    <3>1. d \in conn
      BY <2>2, HandlerSteps DEF Roles
    <3> QED BY <1>0, <2>2, <3>1 DEF TellOne, Roles
  <2>3. ASSUME NEW d \in Devices, TellRead(d) PROVE \A e \in Devices \ conn' : inbox'[e] = << >>
    BY <1>0, <2>3 DEF TellRead, Roles
  <2>4. ASSUME NEW d \in Devices, EchoReaction(d) \/ RelayReaction(d)
        PROVE  \A e \in Devices \ conn' : inbox'[e] = << >>
    BY <1>0, <2>4 DEF EchoReaction, RelayReaction, MarkTo, Roles
  <2>5. ASSUME NEW d \in Devices, Receive(d) PROVE \A e \in Devices \ conn' : inbox'[e] = << >>
    BY <1>0, <2>5 DEF Receive, Roles
  <2>6. ASSUME NEW d \in Devices, Connect(d) \/ Disconnect(d)
        PROVE  \A e \in Devices \ conn' : inbox'[e] = << >>
    BY <1>0, <2>6 DEF Connect, Disconnect, Roles
  <2>7. CASE Restart
    BY <2>7 DEF Restart
  <2>8. \/ UNCHANGED <<inbox, conn>> \/ Restart
        \/ \E s \in {1, 2} : Commit(s)
        \/ \E p \in Procs, d \in Devices : TellOne(p, d)
        \/ \E d \in Devices : TellRead(d) \/ EchoReaction(d) \/ RelayReaction(d) \/ Receive(d)
                              \/ Connect(d) \/ Disconnect(d)
    BY ZenonT(30) DEF AmendmentsNext, SubmitEdit, SubmitDelete, SendRead, SendReaction, DropReaction,
       SyncRows, SyncMarks, SyncMerge, SyncReactions, SyncRefused, SyncEvents,
       LosePost, Amend, Tell, Answer, ServeRead, ServeReaction, roads
  <2> QED BY <2>1, <2>2, <2>3, <2>4, <2>5, <2>6, <2>7, <2>8 DEF Roles
<1> QED BY <1>1, <1>2, <1>3, <1>4, <1>5 DEF Roles
\* What every step does to the row: it only moves on.
LEMMA RowSteps ==
    ASSUME AmendTypes, NEW cleared, AmendmentsNext(cleared) \/ Restart
    PROVE  /\ row.deleted => row'.deleted
           /\ row.read => row'.read
           /\ \/ row'.ver = row.ver /\ row'.body = row.body /\ row'.deleted = row.deleted
              \/ /\ row'.ver = row.ver + 1
                 /\ \E p \in Procs, q \in posts :
                       /\ Amend(p, q)
                       /\ row'.body = q.body /\ row'.deleted = (row.deleted \/ q.op = "delete")
           /\ row'.read = row.read \/ \E d \in Devices : ServeRead(d) /\ ~row.read
<1>0. row \in Rows
  BY DEF AmendTypes, ServerTypes
<1>1. ASSUME NEW p \in Procs, NEW q \in posts, Amend(p, q)
      PROVE  /\ row'.body = q.body /\ row'.deleted = (row.deleted \/ q.op = "delete")
             /\ row'.ver = row.ver + 1 /\ row'.read = row.read
  BY <1>0, <1>1 DEF Amend, Rows
<1>2. ASSUME NEW d \in Devices, ServeRead(d), ~row.read
      PROVE  /\ row'.ver = row.ver /\ row'.body = row.body /\ row'.deleted = row.deleted
             /\ row'.read
  BY <1>0, <1>2 DEF ServeRead, Rows
<1>3. \/ row' = row
      \/ \E p \in Procs, q \in posts : Amend(p, q)
      \/ \E d \in Devices : ServeRead(d) /\ ~row.read
  BY ZenonT(30) DEF AmendmentsNext, Commit, SubmitEdit, SubmitDelete, SendRead, SendReaction, DropReaction,
     Receive, SyncRows, SyncMarks, SyncMerge, SyncReactions, SyncRefused, SyncEvents, Connect,
     Disconnect, LosePost, Tell, TellOne, Answer, ServeRead, TellRead, ServeReaction,
     EchoReaction, RelayReaction, Restart
<1>4. CASE row' = row
  BY <1>4
<1>5. CASE \E p \in Procs, q \in posts : Amend(p, q)
  BY <1>1, <1>5
<1>6. CASE \E d \in Devices : ServeRead(d) /\ ~row.read
  BY <1>2, <1>6
<1> QED BY <1>3, <1>4, <1>5, <1>6

LEMMA BitToggles ==
    ASSUME NEW n \in Nat, NEW b \in BOOLEAN, Bit(b) = n % 2
    PROVE  Bit(~b) = (n + 1) % 2 /\ Bit(b) \in {0, 1} /\ Bit(~b) = 1 - Bit(b)
<1>1. (n + 1) % 2 = 1 - (n % 2)
  OBVIOUS
<1>2. CASE b
  BY <1>1, <1>2 DEF Bit
<1>3. CASE ~b
  BY <1>1, <1>3 DEF Bit
<1> QED BY <1>2, <1>3

LEMMA RowTrueStep ==
    ASSUME AmendTypes, Roles, RowTrue, NEW cleared, AmendmentsNext(cleared) \/ Restart
    PROVE  RowTrue'
<1>0. row \in Rows /\ mark \in Marks
  BY DEF AmendTypes, ServerTypes
<1>1. row'.ver = 0 => row'.body = 0 /\ ~row'.deleted
  <2>1. row.ver \in Nat
    BY <1>0 DEF Rows
  <2>2. CASE row'.ver = row.ver /\ row'.body = row.body /\ row'.deleted = row.deleted
    BY <2>2 DEF RowTrue
  <2>3. CASE row'.ver = row.ver + 1
    BY <2>1, <2>3
  <2> QED BY <2>2, <2>3, RowSteps
<1>2. Bit(mark'.on) = mark'.seq % 2
  <2>1. ASSUME NEW d \in Devices, ServeReaction(d) PROVE Bit(mark'.on) = mark'.seq % 2
    <3>1. mark'.on = ~mark.on /\ mark'.seq = mark.seq + 1
      BY <2>1 DEF ServeReaction
    <3>2. mark.seq \in Nat /\ mark.on \in BOOLEAN
      BY <1>0 DEF Marks
    <3>3. Bit(~mark.on) = (mark.seq + 1) % 2
      BY <3>2, BitToggles DEF RowTrue
    <3> QED BY <3>1, <3>3
  <2>2. mark' = mark \/ \E d \in Devices : ServeReaction(d)
    BY ZenonT(30) DEF AmendmentsNext, Commit, SubmitEdit, SubmitDelete, SendRead, SendReaction, DropReaction,
       Receive, SyncRows, SyncMarks, SyncMerge, SyncReactions, SyncRefused, SyncEvents, Connect,
       Disconnect, LosePost, Amend, Tell, TellOne, Answer, ServeRead, TellRead,
       EchoReaction, RelayReaction, Restart
  <2>3. CASE mark' = mark
    BY <2>3 DEF RowTrue
  <2> QED BY <2>1, <2>2, <2>3
<1>3. \A d \in Devices : req'[d].at = "ack" => row'.read
  <2>1. row.read => row'.read
    BY RowSteps
  <2>2. Procs \cap Devices = {}
    BY ProcsAndDevices
  <2>3. ASSUME NEW p \in Procs, NEW d \in Devices,
               (\E q \in posts : Amend(p, q)) \/ Tell(p) \/ Answer(p) \/ \E e \in Devices : TellOne(p, e)
        PROVE  req'[d] = req[d]
    BY <2>2, <2>3, HandlerSteps
  <2>4. ASSUME NEW e \in Devices,
               TellRead(e) \/ RelayReaction(e) \/ EchoReaction(e) \/ ServeReaction(e)
        PROVE  req'[e].at # "ack" /\ \A d \in Devices \ {e} : req'[d] = req[d]
    BY <2>4, LoopSteps DEF Idle
  <2>5. ASSUME NEW e \in Devices, ServeRead(e), ~row.read PROVE row'.read
    BY <1>0, <2>5 DEF ServeRead, Rows
  <2>6. ASSUME Restart, NEW d \in Devices PROVE req'[d].at # "ack"
    BY <2>6 DEF Restart, Idle
  <2> QED BY <2>1, <2>3, <2>4, <2>5, <2>6, JobSteps DEF RowTrue
<1> QED BY <1>1, <1>2, <1>3 DEF RowTrue

LEMMA JobsTrueStep ==
    ASSUME AmendTypes, Roles, JobsTrue, NEW cleared, AmendmentsNext(cleared) \/ Restart
    PROVE  JobsTrue'
<1>0. /\ row \in Rows /\ req \in [Procs \cup Devices -> Jobs] /\ posts \subseteq Posts
      /\ Procs \cap Devices = {}
  BY ProcsAndDevices DEF AmendTypes, ServerTypes
<1> DEFINE True(j) == j.at \in {"tell", "telling"} =>
                /\ 0 < j.ver /\ j.ver <= row'.ver
                /\ j.op = "delete" => row'.deleted
                /\ j.op = "edit" /\ j.ver = row'.ver => j.body = row'.body
<1>1. ASSUME NEW p \in Procs PROVE True(req[p])
  <2>1. row.ver \in Nat /\ req[p].ver \in Nat
    BY <1>0 DEF Rows, Jobs
  <2>2. row.deleted => row'.deleted
    BY RowSteps
  <2>3. CASE row'.ver = row.ver /\ row'.body = row.body /\ row'.deleted = row.deleted
    BY <2>3 DEF JobsTrue
  <2>4. CASE row'.ver = row.ver + 1
    BY <2>1, <2>2, <2>4 DEF JobsTrue
  <2> QED BY <2>3, <2>4, RowSteps
<1>2. \A p \in Procs : req'[p] = req[p] => True(req'[p])
  BY <1>1
<1>3. ASSUME NEW p \in Procs, NEW q \in posts, Amend(p, q) PROVE \A o \in Procs : True(req'[o])
  <2>1. /\ row'.body = q.body /\ row'.deleted = (row.deleted \/ q.op = "delete")
        /\ row'.ver = row.ver + 1 /\ row.ver \in Nat
    BY <1>0, <1>3 DEF Amend, Rows
  <2>2. True(req'[p])
    <3>1. req'[p].op = q.op /\ req'[p].body = q.body /\ req'[p].ver = row.ver + 1
      BY <1>3, HandlerSteps
    <3>2. 0 < req'[p].ver /\ req'[p].ver <= row'.ver
      BY <2>1, <3>1
    <3>3. q.op = "delete" => row'.deleted
      BY <2>1
    <3> QED BY <2>1, <3>1, <3>2, <3>3
  <2>3. \A o \in Procs \ {p} : req'[o] = req[o]
    BY <1>3, HandlerSteps
  <2> QED BY <1>2, <2>2, <2>3
<1>4. ASSUME NEW p \in Procs, Tell(p) \/ \E d \in Devices : TellOne(p, d)
      PROVE  \A o \in Procs : True(req'[o])
  <2>1. /\ req[p].at \in {"tell", "telling"}
        /\ req'[p].op = req[p].op /\ req'[p].body = req[p].body /\ req'[p].ver = req[p].ver
        /\ \A o \in Procs \ {p} : req'[o] = req[o]
    BY <1>4, HandlerSteps
  <2>2. True(req'[p])
    BY <1>1, <2>1
  <2> QED BY <1>2, <2>1, <2>2
<1>5. ASSUME NEW p \in Procs, Answer(p) PROVE \A o \in Procs : True(req'[o])
  <2>1. req'[p].at = "idle" /\ \A o \in Procs \ {p} : req'[o] = req[o]
    BY <1>5, HandlerSteps DEF Idle
  <2> QED BY <1>2, <2>1
<1>6. ASSUME NEW d \in Devices,
             \/ TellRead(d) \/ RelayReaction(d) \/ EchoReaction(d)
             \/ ServeReaction(d) \/ (ServeRead(d) /\ ~row.read)
      PROVE  \A o \in Procs : True(req'[o])
  <2>1. \A o \in Procs : req'[o] = req[o]
    BY <1>0, <1>6, LoopSteps
  <2> QED BY <1>2, <2>1
<1>7. ASSUME Restart PROVE \A o \in Procs : True(req'[o])
  BY <1>7 DEF Restart, Idle
<1>9. ASSUME req' = req PROVE \A o \in Procs : True(req'[o])
  BY <1>2, <1>9
<1> HIDE DEF True
<1>8. \A o \in Procs : True(req'[o])
  BY <1>3, <1>4, <1>5, <1>6, <1>7, <1>9, JobSteps
<1> QED BY <1>8 DEF JobsTrue, True
-----------------------------------------------------------------------------
(* What a page under way to a device says *)

\* The row x is the row r, or what came of it.
MovesOn(r, x) ==
    /\ r.deleted => x.deleted
    /\ r.read => x.read
    /\ x.ver > r.ver \/ (x.ver = r.ver /\ x.body = r.body /\ x.deleted = r.deleted)

LEMMA RowMovesOn ==
    ASSUME AmendTypes, NEW cleared, AmendmentsNext(cleared) \/ Restart
    PROVE  MovesOn(row, row') /\ row \in Rows /\ row' \in Rows
<1>1. row \in Rows /\ row' \in Rows
  BY TableTypes DEF AmendTypes, ServerTypes
<1>2. row.ver \in Nat
  BY <1>1 DEF Rows
<1> QED BY <1>1, <1>2, RowSteps DEF MovesOn

LEMMA MarkMovesOn ==
    ASSUME AmendTypes, NEW cleared, AmendmentsNext(cleared) \/ Restart
    PROVE  /\ mark.seq \in Nat /\ mark'.seq \in Nat /\ mark'.seq >= mark.seq
           /\ mark' = mark \/ \E d \in Devices : ServeReaction(d)
<1>1. mark.seq \in Nat /\ mark'.seq \in Nat
  BY TableTypes DEF AmendTypes, ServerTypes, Marks
<1>2. mark' = mark \/ \E d \in Devices : ServeReaction(d)
  BY ZenonT(30) DEF AmendmentsNext, Commit, SubmitEdit, SubmitDelete, SendRead, SendReaction, DropReaction,
     Receive, SyncRows, SyncMarks, SyncMerge, SyncReactions, SyncRefused, SyncEvents, Connect,
     Disconnect, LosePost, Amend, Tell, TellOne, Answer, ServeRead, TellRead,
     EchoReaction, RelayReaction, Restart
<1>3. ASSUME NEW d \in Devices, ServeReaction(d) PROVE mark'.seq = mark.seq + 1
  BY <1>3 DEF ServeReaction
<1> QED BY <1>1, <1>2, <1>3

\* The message of a page is the row as it was, and only before the first page
\* with it has been merged.
PageText(s, r, c) ==
    /\ s.has => s.at \in {"marks", "page"}
    /\ s.at = "marks" /\ s.has => c < 1
    /\ s.at \in {"marks", "page"} =>
          /\ s.ver <= r.ver
          /\ s.deleted => r.deleted
          /\ s.read => r.read
          /\ s.ver = r.ver /\ ~r.deleted => s.body = r.body

\* Its reaction is the one with the number it gives.
PageMark(s, n, rc) ==
    /\ rc <= n
    /\ s.at = "page" \/ (s.at = "events" /\ s.seq > 0) =>
          s.seq <= n /\ Bit(s.on) = s.seq % 2 /\ rc <= s.seq

PagesTrue ==
    \A d \in Devices : PageText(sync[d], row, cursor[d]) /\ PageMark(sync[d], mark.seq, rcursor[d])

\* Nobody shows as deleted or as read what is not.
CopiesTrue ==
    \A d \in Devices : (copy[d].deleted => row.deleted) /\ (copy[d].read => row.read)

LEMMA PageTextMoves ==
    ASSUME NEW s \in Syncs, NEW r \in Rows, NEW x \in Rows, MovesOn(r, x), NEW c, PageText(s, r, c)
    PROVE  PageText(s, x, c)
<1>1. s.ver \in Nat /\ r.ver \in Nat /\ x.ver \in Nat
  BY DEF Syncs, Rows
<1> QED BY <1>1 DEF PageText, MovesOn

LEMMA PageMarkMoves ==
    ASSUME NEW s \in Syncs, NEW m \in Nat, NEW n \in Nat, m <= n, NEW rc \in Nat, PageMark(s, m, rc)
    PROVE  PageMark(s, n, rc)
<1>1. s.seq \in Nat
  BY DEF Syncs
<1> QED BY <1>1 DEF PageMark

\* There is no page, or it is blank.
LEMMA BlankPage ==
    ASSUME NEW s, s.at \in {"idle", "rows", "reacts"}, ~s.has
    PROVE  /\ \A r, c : PageText(s, r, c)
           /\ \A n, rc : rc <= n => PageMark(s, n, rc)
BY DEF PageText, PageMark

LEMMA Blank ==
    /\ NoSync.at = "idle" /\ ~NoSync.has
    /\ [NoSync EXCEPT !.at = "rows"].at = "rows" /\ ~[NoSync EXCEPT !.at = "rows"].has
    /\ [NoSync EXCEPT !.at = "reacts"].at = "reacts" /\ ~[NoSync EXCEPT !.at = "reacts"].has
BY DEF NoSync

\* What the steps of a device's loadHistory make of its page.
LEMMA SyncSteps ==
    ASSUME AmendTypes, NEW d \in Devices
    PROVE  /\ SyncRows(d) =>
                 /\ sync[d].at = "rows"
                 /\ sync'[d].at = "marks" /\ sync'[d].has = (1 \in seqs /\ cursor[d] < 1)
                 /\ sync'[d].body = IF row.deleted THEN Gone ELSE row.body
                 /\ sync'[d].deleted = row.deleted /\ sync'[d].read = row.read
                 /\ sync'[d].ver = row.ver
           /\ \A cleared : SyncMarks(d, cleared) =>
                 /\ sync[d].at = "marks"
                 /\ sync'[d].at = "page" /\ sync'[d].has = (sync[d].has /\ cleared < 1)
                 /\ sync'[d].body = sync[d].body /\ sync'[d].deleted = sync[d].deleted
                 /\ sync'[d].read = sync[d].read /\ sync'[d].ver = sync[d].ver
                 /\ sync'[d].on = mark.on /\ sync'[d].seq = mark.seq
           /\ SyncMerge(d) => sync[d].at = "page" /\ sync'[d] = [NoSync EXCEPT !.at = "reacts"]
           /\ SyncReactions(d) =>
                 /\ sync[d].at = "reacts"
                 /\ sync'[d].at = "events" /\ sync'[d].has = sync[d].has /\ sync'[d].on = mark.on
                 /\ sync'[d].seq = IF mark.seq > rcursor[d] THEN mark.seq ELSE 0
           /\ SyncRefused(d) => sync[d].at = "reacts" /\ sync'[d] = NoSync
           /\ SyncEvents(d) => sync[d].at = "events" /\ sync'[d] = NoSync
           /\ Connect(d) /\ sync[d].at # "idle" => sync'[d] = sync[d]
           /\ Connect(d) /\ sync[d].at = "idle" =>
                 /\ sync'[d].at = "rows" /\ sync'[d].has = sync[d].has
           /\ Restart => \/ sync[d].at \in {"rows", "marks"} /\ sync'[d] = [NoSync EXCEPT !.at = "rows"]
                         \/ sync[d].at = "reacts" /\ sync'[d] = NoSync
                         \/ sync[d].at \in {"idle", "page", "events"} /\ sync'[d] = sync[d]
<1>0. sync \in [Devices -> Syncs] /\ NoSync \in Syncs
  BY Blanks DEF AmendTypes, DeviceTypes
<1>1. ASSUME SyncRows(d)
      PROVE  /\ sync[d].at = "rows"
             /\ sync'[d].at = "marks" /\ sync'[d].has = (1 \in seqs /\ cursor[d] < 1)
             /\ sync'[d].body = IF row.deleted THEN Gone ELSE row.body
             /\ sync'[d].deleted = row.deleted /\ sync'[d].read = row.read
             /\ sync'[d].ver = row.ver
  <2> DEFINE v == [NoSync EXCEPT !.at = "marks", !.has = (1 \in seqs /\ cursor[d] < 1),
                         !.top = Highest({s \in seqs : s > cursor[d]}),
                         !.body = IF row.deleted THEN Gone ELSE row.body,
                         !.deleted = row.deleted, !.read = row.read, !.ver = row.ver]
  <2>1. sync'[d] = v /\ sync[d].at = "rows"
    BY <1>0, <1>1 DEF SyncRows
  <2> QED BY <2>1 DEF NoSync
<1>2. ASSUME NEW cleared, SyncMarks(d, cleared)
      PROVE  /\ sync[d].at = "marks"
             /\ sync'[d].at = "page" /\ sync'[d].has = (sync[d].has /\ cleared < 1)
             /\ sync'[d].body = sync[d].body /\ sync'[d].deleted = sync[d].deleted
             /\ sync'[d].read = sync[d].read /\ sync'[d].ver = sync[d].ver
             /\ sync'[d].on = mark.on /\ sync'[d].seq = mark.seq
  BY <1>0, <1>2 DEF SyncMarks, Syncs
<1>3. SyncMerge(d) => sync[d].at = "page" /\ sync'[d] = [NoSync EXCEPT !.at = "reacts"]
  BY <1>0 DEF SyncMerge
<1>4. ASSUME SyncReactions(d)
      PROVE  /\ sync[d].at = "reacts"
             /\ sync'[d].at = "events" /\ sync'[d].has = sync[d].has /\ sync'[d].on = mark.on
             /\ sync'[d].seq = IF mark.seq > rcursor[d] THEN mark.seq ELSE 0
  BY <1>0, <1>4 DEF SyncReactions, Syncs
<1>5. /\ SyncRefused(d) => sync[d].at = "reacts" /\ sync'[d] = NoSync
      /\ SyncEvents(d) => sync[d].at = "events" /\ sync'[d] = NoSync
  BY <1>0 DEF SyncRefused, SyncEvents
<1>6. /\ Connect(d) /\ sync[d].at # "idle" => sync'[d] = sync[d]
      /\ Connect(d) /\ sync[d].at = "idle" => sync'[d].at = "rows" /\ sync'[d].has = sync[d].has
  BY <1>0 DEF Connect, Syncs
<1>7. ASSUME Restart
      PROVE  \/ sync[d].at \in {"rows", "marks"} /\ sync'[d] = [NoSync EXCEPT !.at = "rows"]
             \/ sync[d].at = "reacts" /\ sync'[d] = NoSync
             \/ sync[d].at \in {"idle", "page", "events"} /\ sync'[d] = sync[d]
  <2>1. sync[d].at \in {"idle", "rows", "marks", "page", "reacts", "events"}
    BY <1>0 DEF Syncs
  <2> QED BY <1>0, <1>7, <2>1 DEF Restart
<1> QED BY <1>1, <1>2, <1>3, <1>4, <1>5, <1>6, <1>7

\* Which leaves the others alone.
LEMMA SyncsOfOthers ==
    ASSUME AmendTypes, NEW cleared, AmendmentsNext(cleared), NEW d \in Devices
    PROVE  \/ UNCHANGED <<sync, cursor, rcursor>>
           \/ \E e \in Devices :
                 /\ \/ SyncRows(e) \/ SyncMarks(e, cleared[e]) \/ SyncMerge(e) \/ SyncReactions(e)
                    \/ SyncRefused(e) \/ SyncEvents(e) \/ Connect(e)
                 /\ d # e => /\ sync'[d] = sync[d] /\ cursor'[d] = cursor[d]
                             /\ rcursor'[d] = rcursor[d]
<1>0. sync \in [Devices -> Syncs] /\ cursor \in [Devices -> Nat] /\ rcursor \in [Devices -> Nat]
  BY DEF AmendTypes, DeviceTypes
<1>1. \/ UNCHANGED <<sync, cursor, rcursor>>
      \/ \E e \in Devices :
            \/ SyncRows(e) \/ SyncMarks(e, cleared[e]) \/ SyncMerge(e) \/ SyncReactions(e)
            \/ SyncRefused(e) \/ SyncEvents(e) \/ Connect(e)
  BY ZenonT(30) DEF AmendmentsNext, Commit, SubmitEdit, SubmitDelete, SendRead, SendReaction, DropReaction,
     Receive, Disconnect, LosePost, Amend, Tell, TellOne, Answer, ServeRead, TellRead,
     ServeReaction, EchoReaction, RelayReaction, device
<1>2. ASSUME NEW e \in Devices, d # e,
             \/ SyncRows(e) \/ SyncMarks(e, cleared[e]) \/ SyncMerge(e) \/ SyncReactions(e)
             \/ SyncRefused(e) \/ SyncEvents(e) \/ Connect(e)
      PROVE  sync'[d] = sync[d] /\ cursor'[d] = cursor[d] /\ rcursor'[d] = rcursor[d]
  <2>1. CASE SyncRows(e)
    BY <1>0, <1>2, <2>1 DEF SyncRows
  <2>2. CASE SyncMarks(e, cleared[e])
    BY <1>0, <1>2, <2>2 DEF SyncMarks
  <2>3. CASE SyncMerge(e)
    BY <1>0, <1>2, <2>3 DEF SyncMerge
  <2>4. CASE SyncReactions(e)
    BY <1>0, <1>2, <2>4 DEF SyncReactions
  <2>5. CASE SyncRefused(e)
    BY <1>0, <1>2, <2>5 DEF SyncRefused
  <2>6. CASE SyncEvents(e)
    BY <1>0, <1>2, <2>6 DEF SyncEvents
  <2>7. CASE Connect(e)
    BY <1>0, <1>2, <2>7 DEF Connect
  <2> QED BY <1>2, <2>1, <2>2, <2>3, <2>4, <2>5, <2>6, <2>7
<1> QED BY <1>1, <1>2
LEMMA PagesTrueStep ==
    ASSUME AmendTypes, PagesTrue, RowTrue, NEW cleared, AmendmentsNext(cleared) \/ Restart
    PROVE  PagesTrue'
<1> SUFFICES ASSUME NEW d \in Devices
             PROVE  PageText(sync'[d], row', cursor'[d]) /\ PageMark(sync'[d], mark'.seq, rcursor'[d])
  BY DEF PagesTrue
<1>0. /\ sync \in [Devices -> Syncs] /\ cursor \in [Devices -> Nat] /\ rcursor \in [Devices -> Nat]
      /\ NoSync \in Syncs /\ sync[d] \in Syncs /\ rcursor[d] \in Nat
  BY Blanks DEF AmendTypes, DeviceTypes
<1>1. PageText(sync[d], row, cursor[d]) /\ PageMark(sync[d], mark.seq, rcursor[d])
  BY DEF PagesTrue
<1>2. /\ PageText(sync[d], row', cursor[d]) /\ PageMark(sync[d], mark'.seq, rcursor[d])
      /\ mark.seq \in Nat /\ mark'.seq \in Nat /\ rcursor[d] <= mark.seq /\ rcursor[d] <= mark'.seq
      /\ row.ver \in Nat
  <2>1. PageText(sync[d], row', cursor[d]) /\ row.ver \in Nat
    BY <1>0, <1>1, RowMovesOn, PageTextMoves DEF Rows
  <2>2. mark.seq \in Nat /\ mark'.seq \in Nat /\ mark.seq <= mark'.seq
    BY MarkMovesOn
  <2>3. PageMark(sync[d], mark'.seq, rcursor[d])
    BY <1>0, <1>1, <2>2, PageMarkMoves
  <2> QED BY <1>0, <1>1, <2>1, <2>2, <2>3 DEF PageMark
<1>3. CASE sync'[d] = sync[d] /\ cursor'[d] = cursor[d] /\ rcursor'[d] = rcursor[d]
  BY <1>2, <1>3
<1>4. CASE SyncRows(d)
  <2>1. UNCHANGED <<row, mark, cursor, rcursor>>
    BY <1>4 DEF SyncRows
  <2>2. PageText(sync'[d], row, cursor[d])
    <3>1. /\ sync'[d].at = "marks" /\ (sync'[d].has => cursor[d] < 1)
          /\ sync'[d].body = IF row.deleted THEN Gone ELSE row.body
          /\ sync'[d].deleted = row.deleted /\ sync'[d].read = row.read
          /\ sync'[d].ver = row.ver
      BY <1>4, SyncSteps
    <3> QED BY <1>2, <3>1 DEF PageText
  <2>3. PageMark(sync'[d], mark.seq, rcursor[d])
    BY <1>2, <1>4, SyncSteps DEF PageMark
  <2> QED BY <2>1, <2>2, <2>3
<1>5. CASE SyncMarks(d, cleared[d])
  <2>1. UNCHANGED <<row, mark, cursor, rcursor>>
    BY <1>5 DEF SyncMarks
  <2>2. PageText(sync'[d], row, cursor[d])
    <3> DEFINE c == cleared[d]
    <3>1. SyncMarks(d, c)
      BY <1>5
    <3> HIDE DEF c
    <3> QED BY <1>1, <3>1, SyncSteps DEF PageText
  <2>3. PageMark(sync'[d], mark.seq, rcursor[d])
    <3>1. sync'[d].at = "page" /\ sync'[d].on = mark.on /\ sync'[d].seq = mark.seq
      BY <1>5, SyncSteps
    <3> QED BY <1>2, <3>1 DEF PageMark, RowTrue
  <2> QED BY <2>1, <2>2, <2>3
<1>6. CASE SyncMerge(d)
  <2>1. UNCHANGED <<row, mark, rcursor>> /\ sync'[d] = [NoSync EXCEPT !.at = "reacts"]
    BY <1>6, SyncSteps DEF SyncMerge
  <2>2. sync'[d].at = "reacts" /\ ~sync'[d].has
    BY <2>1, Blank
  <2>3. PageText(sync'[d], row', cursor'[d]) /\ PageMark(sync'[d], mark.seq, rcursor[d])
    BY <1>2, <2>2 DEF PageText, PageMark
  <2> QED BY <2>1, <2>3
<1>7. CASE SyncReactions(d)
  <2>1. UNCHANGED <<row, mark, cursor, rcursor>>
    BY <1>7 DEF SyncReactions
  <2>2. PageText(sync'[d], row, cursor[d])
    BY <1>1, <1>7, SyncSteps DEF PageText
  <2>3. PageMark(sync'[d], mark.seq, rcursor[d])
    <3>1. sync'[d].at = "events" /\ sync'[d].on = mark.on
          /\ sync'[d].seq = IF mark.seq > rcursor[d] THEN mark.seq ELSE 0
      BY <1>7, SyncSteps
    <3> QED BY <1>0, <1>2, <3>1 DEF PageMark, RowTrue
  <2> QED BY <2>1, <2>2, <2>3
<1>8. CASE SyncRefused(d)
  <2>1. UNCHANGED <<row, mark, cursor, rcursor>> /\ sync'[d] = NoSync
    BY <1>8, SyncSteps DEF SyncRefused
  <2>2. sync'[d].at = "idle" /\ ~sync'[d].has
    BY <2>1, Blank
  <2> QED BY <1>2, <2>1, <2>2, BlankPage
<1>9. CASE SyncEvents(d)
  <2>1. UNCHANGED <<row, mark, cursor>> /\ sync'[d] = NoSync /\ sync[d].at = "events"
    BY <1>9, SyncSteps DEF SyncEvents
  <2>2. rcursor'[d] = IF sync[d].seq = 0 THEN rcursor[d] ELSE sync[d].seq
    BY <1>0, <1>9 DEF SyncEvents
  <2>3. rcursor'[d] \in Nat /\ rcursor'[d] <= mark.seq
    <3>1. sync[d].seq \in Nat
      BY <1>0 DEF Syncs
    <3> QED BY <1>0, <1>1, <1>2, <2>1, <2>2, <3>1 DEF PageMark
  <2>4. sync'[d].at = "idle" /\ ~sync'[d].has
    BY <2>1, Blank
  <2> QED BY <2>1, <2>3, <2>4, BlankPage
<1>10. CASE Connect(d)
  <2>1. UNCHANGED <<row, mark, cursor, rcursor>>
    BY <1>10 DEF Connect
  <2>2. CASE sync[d].at = "idle"
    <3>1. sync'[d].at = "rows" /\ sync'[d].has = sync[d].has
      BY <1>10, <2>2, SyncSteps
    <3> QED BY <1>1, <1>2, <2>1, <2>2, <3>1 DEF PageText, PageMark
  <2>3. CASE sync[d].at # "idle"
    BY <1>1, <1>10, <2>1, <2>3, SyncSteps
  <2> QED BY <2>2, <2>3
<1>11. CASE Restart
  <2>1. UNCHANGED <<row, mark, cursor, rcursor>>
    BY <1>11 DEF Restart
  <2>2. sync'[d] \in {sync[d], NoSync, [NoSync EXCEPT !.at = "rows"]}
    BY <1>11, SyncSteps
  <2>3. sync'[d] = sync[d] \/ (sync'[d].at \in {"idle", "rows"} /\ ~sync'[d].has)
    BY <2>2, Blank
  <2> QED BY <1>1, <1>2, <2>1, <2>3, BlankPage
<1> QED BY <1>3, <1>4, <1>5, <1>6, <1>7, <1>8, <1>9, <1>10, <1>11, SyncsOfOthers
-----------------------------------------------------------------------------
(* What a device was told, and what is on its way to it *)

\* The handler p has not come to d yet.
Pends(p, d) == req[p].at = "tell" \/ (req[p].at = "telling" /\ d \in req[p].left)

\* What a device was not told yet, a handler will tell it.
ToldTrue ==
    \A d \in Devices :
        /\ told[d].text <= row.ver
        /\ told[d].text = row.ver \/ \E p \in Procs : Pends(p, d) /\ req[p].ver = row.ver
        /\ row.deleted => told[d].gone \/ \E p \in Procs : Pends(p, d) /\ req[p].op = "delete"
        /\ row.read /\ d \in Authors => told[d].read \/ \E e \in Devices : req[e].at = "ack"

InboxTrue ==
    \A d \in Devices :
        FramesTrue(inbox[d], row, told[d]) /\ EndsWell(inbox[d], told[d], d \in Authors)

LEMMA ToldOfIs ==
    ASSUME AmendTypes, NEW d \in Devices, NEW p \in Procs
    PROVE  /\ told[d] \in Tolds /\ ToldOf(d, req[p]) \in Tolds
           /\ told[d].text \in Nat /\ req[p].ver \in Nat
           /\ ToldOf(d, req[p]).text = IF told[d].text >= req[p].ver THEN told[d].text ELSE req[p].ver
           /\ ToldOf(d, req[p]).gone = (told[d].gone \/ req[p].op = "delete")
           /\ ToldOf(d, req[p]).read = told[d].read
<1> DEFINE n == Max2(told[d].text, req[p].ver)
           b == told[d].gone \/ req[p].op = "delete"
<1>1. /\ told[d] \in Tolds /\ told[d].text \in Nat /\ req[p].ver \in Nat
      /\ told[d].gone \in BOOLEAN
  BY DEF AmendTypes, HistoryTypes, ServerTypes, Tolds, Jobs
<1>2. n = (IF told[d].text >= req[p].ver THEN told[d].text ELSE req[p].ver) /\ b \in BOOLEAN /\ n \in Nat
  <2>1. n = IF told[d].text >= req[p].ver THEN told[d].text ELSE req[p].ver
    BY <1>1, Max2Is
  <2> QED BY <1>1, <2>1
<1>3. ToldOf(d, req[p]) = [told[d] EXCEPT !.text = n, !.gone = b]
  BY DEF ToldOf
<1> HIDE DEF n, b
<1> DEFINE v == [told[d] EXCEPT !.text = n, !.gone = b]
<1>4. v \in Tolds /\ v.text = n /\ v.gone = b /\ v.read = told[d].read
  BY <1>1, <1>2 DEF Tolds
<1> HIDE DEF v
<1>5. b = (told[d].gone \/ req[p].op = "delete")
  BY DEF b
<1> QED BY <1>1, <1>2, <1>3, <1>4, <1>5 DEF v

LEMMA TellSteps ==
    ASSUME AmendTypes, NEW p \in Procs, NEW d \in Devices
    PROVE  /\ Tell(p) =>
                 /\ inbox' = inbox
                 /\ told'[d] = IF d \in conn THEN told[d] ELSE ToldOf(d, req[p])
           /\ \A e \in Devices : TellOne(p, e) /\ d # e => inbox'[d] = inbox[d] /\ told'[d] = told[d]
           /\ TellOne(p, d) =>
                 /\ told'[d] = ToldOf(d, req[p])
                 /\ \E f \in Texts : /\ f.kind = req[p].op /\ f.body = req[p].body /\ f.ver = req[p].ver
                                     /\ f.crossed = (req[p].ver < told[d].text)
                                     /\ inbox'[d] = Append(inbox[d], f)
<1>0. /\ inbox \in [Devices -> Seq(Frame)] /\ told \in [Devices -> Tolds] /\ conn \subseteq Devices
      /\ req \in [Procs \cup Devices -> Jobs]
  BY DEF AmendTypes, RoadTypes, HistoryTypes, ServerTypes
<1>1. ASSUME Tell(p)
      PROVE  inbox' = inbox /\ told'[d] = IF d \in conn THEN told[d] ELSE ToldOf(d, req[p])
  BY <1>0, <1>1 DEF Tell, roads
<1>2. ASSUME NEW e \in Devices, TellOne(p, e), d # e
      PROVE  inbox'[d] = inbox[d] /\ told'[d] = told[d]
  BY <1>0, <1>2 DEF TellOne
<1>3. ASSUME TellOne(p, d)
      PROVE  /\ told'[d] = ToldOf(d, req[p])
             /\ \E f \in Texts : /\ f.kind = req[p].op /\ f.body = req[p].body /\ f.ver = req[p].ver
                                 /\ f.crossed = (req[p].ver < told[d].text)
                                 /\ inbox'[d] = Append(inbox[d], f)
  <2> DEFINE c == req[p].ver < told[d].text
             f == [kind |-> req[p].op, body |-> req[p].body, ver |-> req[p].ver, crossed |-> c]
  <2>1. inbox'[d] = Append(inbox[d], f) /\ told'[d] = ToldOf(d, req[p])
    BY <1>0, <1>3 DEF TellOne
  <2>2. f \in Texts
    <3>1. req[p] \in Jobs /\ c \in BOOLEAN
      BY <1>0
    <3>2. req[p].op \in {"edit", "delete"} /\ req[p].body \in Int /\ req[p].ver \in Nat
      BY <1>3, <3>1 DEF Jobs, TellOne, AmendTypes, JobsMatch
    <3> HIDE DEF c
    <3> QED BY <3>1, <3>2 DEF Texts
  <2>3. /\ f.kind = req[p].op /\ f.body = req[p].body /\ f.ver = req[p].ver
        /\ f.crossed = (req[p].ver < told[d].text)
    OBVIOUS
  <2> HIDE DEF f
  <2> QED BY <2>1, <2>2, <2>3
<1> QED BY <1>1, <1>2, <1>3

LEMMA TellReadStep ==
    ASSUME AmendTypes, NEW e \in Devices, TellRead(e), NEW d \in Devices
    PROVE  /\ d \notin Authors => inbox'[d] = inbox[d] /\ told'[d] = told[d]
           /\ d \in Authors => /\ told'[d] \in Tolds /\ told'[d].text = told[d].text
                               /\ told'[d].gone = told[d].gone /\ told'[d].read
           /\ d \in Authors \ conn => inbox'[d] = inbox[d]
           /\ d \in Authors \cap conn => inbox'[d] = Append(inbox[d], [kind |-> "read"])
<1>0. /\ inbox \in [Devices -> Seq(Frame)] /\ told \in [Devices -> Tolds] /\ told[d] \in Tolds
      /\ told[d].read \in BOOLEAN
  BY DEF AmendTypes, RoadTypes, HistoryTypes, Tolds
<1>1. inbox'[d] = IF d \in Authors \cap conn THEN Append(inbox[d], [kind |-> "read"]) ELSE inbox[d]
  BY <1>0 DEF TellRead
<1>2. told'[d] = [told[d] EXCEPT !.read = told[d].read \/ d \in Authors]
  BY <1>0 DEF TellRead
<1>3. CASE d \in Authors
  <2>1. told'[d] = [told[d] EXCEPT !.read = TRUE]
    BY <1>2, <1>3
  <2> QED BY <1>0, <1>1, <1>3, <2>1 DEF Tolds
<1>4. CASE d \notin Authors
  <2>1. told'[d] = [told[d] EXCEPT !.read = told[d].read]
    <3>1. (told[d].read \/ d \in Authors) = told[d].read
      BY <1>0, <1>4
    <3> QED BY <1>2, <3>1
  <2>2. [told[d] EXCEPT !.read = told[d].read] = told[d]
    BY <1>0 DEF Tolds
  <2> QED BY <1>1, <1>4, <2>1, <2>2
<1> QED BY <1>3, <1>4

LEMMA MarkToStep ==
    ASSUME AmendTypes, NEW S, NEW n \in Nat, MarkTo(S, n), NEW d \in Devices
    PROVE  inbox'[d] = IF d \in S \cap conn THEN Append(inbox[d], [kind |-> "react", seq |-> n])
                       ELSE inbox[d]
BY DEF MarkTo

LEMMA FrameKinds ==
    /\ [kind |-> "new"] \in Frame /\ [kind |-> "read"] \in Frame
    /\ \A n \in Nat : [kind |-> "react", seq |-> n] \in Frame
    /\ Texts \subseteq Frame
BY DEF Frame, Signs, Reacts
LEMMA ToldTrueStep ==
    ASSUME AmendTypes, Roles, JobsTrue, ToldTrue, NEW cleared, AmendmentsNext(cleared) \/ Restart
    PROVE  ToldTrue'
<1> SUFFICES ASSUME NEW d \in Devices
             PROVE  /\ told'[d].text <= row'.ver
                    /\ told'[d].text = row'.ver \/ \E p \in Procs : Pends(p, d)' /\ req'[p].ver = row'.ver
                    /\ row'.deleted => told'[d].gone \/ \E p \in Procs : Pends(p, d)' /\ req'[p].op = "delete"
                    /\ row'.read /\ d \in Authors => told'[d].read \/ \E e \in Devices : req'[e].at = "ack"
  BY DEF ToldTrue
<1> DEFINE G == /\ told'[d].text <= row'.ver
                /\ told'[d].text = row'.ver \/ \E p \in Procs : Pends(p, d)' /\ req'[p].ver = row'.ver
                /\ row'.deleted => told'[d].gone \/ \E p \in Procs : Pends(p, d)' /\ req'[p].op = "delete"
                /\ row'.read /\ d \in Authors => told'[d].read \/ \E e \in Devices : req'[e].at = "ack"
<1>0. /\ req \in [Procs \cup Devices -> Jobs] /\ told \in [Devices -> Tolds] /\ row \in Rows
      /\ posts \subseteq Posts
      /\ Procs \cap Devices = {} /\ row.ver \in Nat /\ told[d].text \in Nat
  BY ProcsAndDevices DEF AmendTypes, ServerTypes, HistoryTypes, Rows, Tolds
<1>1. /\ told[d].text <= row.ver
      /\ told[d].text = row.ver \/ \E p \in Procs : Pends(p, d) /\ req[p].ver = row.ver
      /\ row.deleted => told[d].gone \/ \E p \in Procs : Pends(p, d) /\ req[p].op = "delete"
      /\ row.read /\ d \in Authors => told[d].read \/ \E e \in Devices : req[e].at = "ack"
  BY DEF ToldTrue
<1>2. \A p \in Procs : req'[p] = req[p] => (Pends(p, d)' <=> Pends(p, d))
  BY DEF Pends
<1>3. ASSUME UNCHANGED <<row, req, told>> PROVE G
  BY <1>1, <1>2, <1>3
<1>4. ASSUME NEW p \in Procs, NEW q \in posts, Amend(p, q) PROVE G
  <2>1. /\ row'.ver = row.ver + 1 /\ row'.read = row.read /\ told' = told
        /\ row'.deleted = (row.deleted \/ q.op = "delete")
    BY <1>0, <1>4 DEF Amend, Rows, history
  <2>2. /\ req[p].at = "idle" /\ req'[p].at = "tell" /\ req'[p].op = q.op
        /\ req'[p].ver = row.ver + 1 /\ \A o \in (Procs \cup Devices) \ {p} : req'[o] = req[o]
    BY <1>4, HandlerSteps
  <2>3. Pends(p, d)' /\ ~Pends(p, d)
    BY <2>2 DEF Pends
  <2>4. told'[d].text <= row'.ver /\ \E o \in Procs : Pends(o, d)' /\ req'[o].ver = row'.ver
    BY <1>0, <1>1, <2>1, <2>2, <2>3
  <2>5. row'.deleted => told'[d].gone \/ \E o \in Procs : Pends(o, d)' /\ req'[o].op = "delete"
    <3>1. CASE q.op = "delete"
      BY <2>2, <2>3, <3>1
    <3>2. CASE q.op # "delete"
      BY <1>1, <1>2, <2>1, <2>2, <2>3, <3>2
    <3> QED BY <3>1, <3>2
  <2>6. \A e \in Devices : req'[e] = req[e]
    BY <1>0, <2>2
  <2> QED BY <1>1, <2>1, <2>4, <2>5, <2>6
<1>5. ASSUME NEW p \in Procs, Tell(p) PROVE G
  <2>1. /\ row' = row /\ told'[d] = IF d \in conn THEN told[d] ELSE ToldOf(d, req[p])
    BY <1>5, TellSteps DEF Tell
  <2>2. /\ req[p].at = "tell" /\ req'[p].at = "telling" /\ req'[p].left = conn
        /\ req'[p].op = req[p].op /\ req'[p].ver = req[p].ver
        /\ \A o \in (Procs \cup Devices) \ {p} : req'[o] = req[o]
    BY <1>5, HandlerSteps
  <2>3. \A e \in Devices : req'[e] = req[e]
    BY <1>0, <2>2
  <2>4. CASE d \in conn
    <3>1. \A o \in Procs : Pends(o, d) => Pends(o, d)' /\ req'[o].ver = req[o].ver /\ req'[o].op = req[o].op
      BY <1>2, <2>2, <2>4 DEF Pends
    <3> QED BY <1>1, <2>1, <2>3, <2>4, <3>1
  <2>5. CASE d \notin conn
    <3>1. \A o \in Procs \ {p} : Pends(o, d) => Pends(o, d)' /\ req'[o].ver = req[o].ver /\ req'[o].op = req[o].op
      BY <1>2, <2>2
    <3>2. /\ told'[d].text = IF told[d].text >= req[p].ver THEN told[d].text ELSE req[p].ver
          /\ told'[d].gone = (told[d].gone \/ req[p].op = "delete")
          /\ told'[d].read = told[d].read /\ req[p].ver \in Nat
      BY <2>1, <2>5, ToldOfIs
    <3>3. req[p].ver <= row.ver
      BY <2>2 DEF JobsTrue
    <3>4. told'[d].text <= row'.ver
      BY <1>0, <1>1, <2>1, <3>2, <3>3
    <3>5. told'[d].text = row'.ver \/ \E o \in Procs : Pends(o, d)' /\ req'[o].ver = row'.ver
      <4>1. CASE req[p].ver = row.ver \/ told[d].text = row.ver
        BY <1>0, <1>1, <2>1, <3>2, <3>3, <4>1
      <4>2. CASE req[p].ver # row.ver /\ told[d].text # row.ver
        BY <1>1, <2>1, <3>1, <4>2
      <4> QED BY <4>1, <4>2
    <3>6. row'.deleted => told'[d].gone \/ \E o \in Procs : Pends(o, d)' /\ req'[o].op = "delete"
      BY <1>1, <2>1, <3>1, <3>2
    <3> QED BY <1>1, <2>1, <2>3, <3>2, <3>4, <3>5, <3>6
  <2> QED BY <2>4, <2>5
<1>6. ASSUME NEW p \in Procs, NEW e \in Devices, TellOne(p, e) PROVE G
  <2>1. /\ req[p].at = "telling" /\ e \in req[p].left
        /\ req'[p].at = "telling" /\ req'[p].left = req[p].left \ {e}
        /\ req'[p].op = req[p].op /\ req'[p].ver = req[p].ver
        /\ \A o \in (Procs \cup Devices) \ {p} : req'[o] = req[o]
    BY <1>6, HandlerSteps
  <2>2. row' = row /\ \A o \in Devices : req'[o] = req[o]
    BY <1>0, <1>6, <2>1 DEF TellOne
  <2>3. CASE d # e
    <3>1. told'[d] = told[d]
      BY <1>6, <2>3, TellSteps
    <3>2. \A o \in Procs : Pends(o, d) => Pends(o, d)' /\ req'[o].ver = req[o].ver /\ req'[o].op = req[o].op
      BY <1>2, <2>1, <2>3 DEF Pends
    <3> QED BY <1>1, <2>2, <3>1, <3>2
  <2>4. CASE d = e
    <3>1. \A o \in Procs \ {p} : Pends(o, d) => Pends(o, d)' /\ req'[o].ver = req[o].ver /\ req'[o].op = req[o].op
      BY <1>2, <2>1
    <3>2. told'[d] = ToldOf(d, req[p])
      BY <1>6, <2>4, TellSteps
    <3>3. /\ told'[d].text = IF told[d].text >= req[p].ver THEN told[d].text ELSE req[p].ver
          /\ told'[d].gone = (told[d].gone \/ req[p].op = "delete")
          /\ told'[d].read = told[d].read /\ req[p].ver \in Nat
      BY <3>2, ToldOfIs
    <3>4. req[p].ver <= row.ver
      BY <2>1 DEF JobsTrue
    <3>5. told'[d].text <= row'.ver
      BY <1>0, <1>1, <2>2, <3>3, <3>4
    <3>6. told'[d].text = row'.ver \/ \E o \in Procs : Pends(o, d)' /\ req'[o].ver = row'.ver
      <4>1. CASE req[p].ver = row.ver \/ told[d].text = row.ver
        BY <1>0, <1>1, <2>2, <3>3, <3>4, <4>1
      <4>2. CASE req[p].ver # row.ver /\ told[d].text # row.ver
        BY <1>1, <2>2, <3>1, <4>2
      <4> QED BY <4>1, <4>2
    <3>7. row'.deleted => told'[d].gone \/ \E o \in Procs : Pends(o, d)' /\ req'[o].op = "delete"
      BY <1>1, <2>2, <3>1, <3>3
    <3> QED BY <1>1, <2>2, <3>3, <3>5, <3>6, <3>7
  <2> QED BY <2>3, <2>4
<1>7. ASSUME NEW p \in Procs, Answer(p) PROVE G
  <2>1. /\ req[p].at = "telling" /\ req[p].left = {}
        /\ \A o \in (Procs \cup Devices) \ {p} : req'[o] = req[o]
    BY <1>7, HandlerSteps
  <2>2. row' = row /\ told' = told
    BY <1>7 DEF Answer, history
  <2>3. ~Pends(p, d) /\ \A o \in Procs \ {p} : Pends(o, d) => Pends(o, d)' /\ req'[o] = req[o]
    BY <1>2, <2>1 DEF Pends
  <2>4. \A o \in Devices : req'[o] = req[o]
    BY <1>0, <2>1
  <2> QED BY <1>1, <2>2, <2>3, <2>4
<1>8. ASSUME NEW e \in Devices, ServeRead(e), ~row.read PROVE G
  <2>1. req'[e].at = "ack" /\ \A o \in (Procs \cup Devices) \ {e} : req'[o] = req[o]
    BY <1>8, LoopSteps
  <2>2. /\ row'.ver = row.ver /\ row'.deleted = row.deleted /\ told' = told
    BY <1>0, <1>8 DEF ServeRead, Rows, history
  <2>3. \A p \in Procs : (Pends(p, d)' <=> Pends(p, d)) /\ req'[p] = req[p]
    BY <1>0, <1>2, <2>1
  <2> QED BY <1>1, <2>1, <2>2, <2>3
<1>9. ASSUME NEW e \in Devices, TellRead(e) PROVE G
  <2>1. \A o \in (Procs \cup Devices) \ {e} : req'[o] = req[o]
    BY <1>9, LoopSteps
  <2>2. /\ row' = row /\ (d \notin Authors => told'[d] = told[d])
        /\ d \in Authors => told'[d].text = told[d].text /\ told'[d].gone = told[d].gone /\ told'[d].read
    BY <1>9, TellReadStep DEF TellRead
  <2>3. \A p \in Procs : (Pends(p, d)' <=> Pends(p, d)) /\ req'[p] = req[p]
    BY <1>0, <1>2, <2>1
  <2> QED BY <1>1, <2>2, <2>3
<1>10. ASSUME NEW e \in Devices, ServeReaction(e) \/ EchoReaction(e) \/ RelayReaction(e) PROVE G
  <2>1. req[e].at # "ack" /\ \A o \in (Procs \cup Devices) \ {e} : req'[o] = req[o]
    BY <1>10, LoopSteps
  <2>2. row' = row /\ told' = told
    BY <1>10 DEF ServeReaction, EchoReaction, RelayReaction
  <2>3. \A p \in Procs : (Pends(p, d)' <=> Pends(p, d)) /\ req'[p] = req[p]
    BY <1>0, <1>2, <2>1
  <2>4. \A o \in Devices : req[o].at = "ack" => req'[o].at = "ack"
    BY <2>1
  <2> QED BY <1>1, <2>2, <2>3, <2>4
<1>11. ASSUME Restart PROVE G
  <2>1. told'[d] = [text |-> row.ver, gone |-> row.deleted, read |-> row.read] /\ row' = row
    BY <1>11 DEF Restart
  <2> QED BY <1>0, <2>1
<1>12. \/ UNCHANGED <<row, req, told>>
       \/ \E p \in Procs, q \in posts : Amend(p, q)
       \/ \E p \in Procs : Tell(p) \/ Answer(p) \/ \E e \in Devices : TellOne(p, e)
       \/ \E e \in Devices : \/ TellRead(e) \/ RelayReaction(e) \/ EchoReaction(e)
                             \/ ServeReaction(e) \/ (ServeRead(e) /\ ~row.read)
       \/ Restart
  BY ZenonT(60) DEF AmendmentsNext, Commit, SubmitEdit, SubmitDelete, SendRead, SendReaction, DropReaction,
     Receive, SyncRows, SyncMarks, SyncMerge, SyncReactions, SyncRefused, SyncEvents, Connect,
     Disconnect, LosePost, ServeRead, history
<1> HIDE DEF G
<1>13. G
  BY <1>3, <1>4, <1>5, <1>6, <1>7, <1>8, <1>9, <1>10, <1>11, <1>12
<1> QED BY <1>13 DEF G
\* What every step does to the frames on their way to d.
LEMMA InboxSteps ==
    ASSUME AmendTypes, NEW cleared, AmendmentsNext(cleared) \/ Restart, NEW d \in Devices
    PROVE  \/ inbox'[d] = inbox[d] /\ told'[d] = told[d]
           \/ Commit(1) /\ d \in conn
           \/ \E p \in Procs : Tell(p) \/ TellOne(p, d)
           \/ \E e \in Devices : TellRead(e) \/ EchoReaction(e) \/ RelayReaction(e)
           \/ Receive(d) \/ Disconnect(d) \/ Restart
<1>0. inbox \in [Devices -> Seq(Frame)]
  BY DEF AmendTypes, RoadTypes
<1>1. \/ UNCHANGED <<inbox, told>>
      \/ \E s \in {1, 2} : Commit(s)
      \/ \E p \in Procs : Tell(p) \/ \E e \in Devices : TellOne(p, e)
      \/ \E e \in Devices : \/ TellRead(e) \/ EchoReaction(e) \/ RelayReaction(e) \/ Receive(e)
                            \/ Disconnect(e)
      \/ Restart
  BY ZenonT(60) DEF AmendmentsNext, SubmitEdit, SubmitDelete, SendRead, SendReaction, DropReaction,
     SyncRows, SyncMarks, SyncMerge, SyncReactions, SyncRefused, SyncEvents, Connect,
     LosePost, Amend, Answer, ServeRead, ServeReaction, roads, history
<1>2. ASSUME NEW s \in {1, 2}, Commit(s), ~(s = 1 /\ d \in conn)
      PROVE  inbox'[d] = inbox[d] /\ told'[d] = told[d]
  BY <1>0, <1>2 DEF Commit, history
<1>3. ASSUME NEW p \in Procs, NEW e \in Devices, TellOne(p, e), d # e
      PROVE  inbox'[d] = inbox[d] /\ told'[d] = told[d]
  BY <1>3, TellSteps
<1>4. ASSUME NEW e \in Devices, Receive(e) \/ Disconnect(e), d # e
      PROVE  inbox'[d] = inbox[d] /\ told'[d] = told[d]
  BY <1>0, <1>4 DEF Receive, Disconnect
<1> QED BY <1>1, <1>2, <1>3, <1>4

LEMMA InboxTrueStep ==
    ASSUME AmendTypes, Unsent, Roles, JobsTrue, RowTrue, ToldTrue, InboxTrue,
           NEW cleared, AmendmentsNext(cleared) \/ Restart
    PROVE  InboxTrue'
<1> SUFFICES ASSUME NEW d \in Devices
             PROVE  FramesTrue(inbox'[d], row', told'[d]) /\ EndsWell(inbox'[d], told'[d], d \in Authors)
  BY DEF InboxTrue
<1> DEFINE mine == d \in Authors
           G == FramesTrue(inbox'[d], row', told'[d]) /\ EndsWell(inbox'[d], told'[d], mine)
<1>0. /\ inbox[d] \in Seq(Frame) /\ told[d] \in Tolds /\ row \in Rows /\ row' \in Rows
      /\ req \in [Procs \cup Devices -> Jobs] /\ told[d].text \in Nat
      /\ told[d].gone \in BOOLEAN /\ told[d].read \in BOOLEAN
  BY RowMovesOn DEF AmendTypes, ServerTypes, HistoryTypes, RoadTypes, Tolds
<1>b. mine \in BOOLEAN
  OBVIOUS
<1>1. /\ FramesTrue(inbox[d], row, told[d]) /\ EndsWell(inbox[d], told[d], mine)
      /\ told[d].text <= row.ver
  BY DEF InboxTrue, ToldTrue
<1> HIDE DEF mine
<1>2. FramesTrue(inbox[d], row', told[d])
  BY <1>0, <1>1, RowMovesOn, RowMoves DEF MovesOn
<1>3. ASSUME inbox'[d] = inbox[d], told'[d] = told[d] PROVE G
  BY <1>1, <1>2, <1>3
<1>4. ASSUME Commit(1), d \in conn PROVE G
  <2> DEFINE f == [kind |-> "new"]
  <2>1. /\ inbox'[d] = Append(inbox[d], f) /\ told'[d] = told[d] /\ row' = row
        /\ told[d] = NothingTold
    BY <1>0, <1>4 DEF Commit, Unsent, history
  <2>2. f \in Frame /\ f.kind = "new" /\ ~IsText(f)
    BY FrameKinds DEF IsText
  <2>3. told[d].text = 0 /\ ~told[d].gone /\ ~told[d].read
    BY <2>1 DEF NothingTold
  <2> HIDE DEF f
  <2> QED BY <1>0, <1>b, <1>1, <2>1, <2>2, <2>3, BehindQueue
<1>5. ASSUME NEW p \in Procs, Tell(p) PROVE G
  <2>1. inbox' = inbox /\ row' = row
    BY <1>5, TellSteps DEF Tell
  <2>2. CASE d \in conn
    BY <1>1, <1>5, <2>1, <2>2, TellSteps
  <2>3. CASE d \notin conn
    <3>1. inbox[d] = << >>
      BY <2>3 DEF Roles
    <3> QED BY <2>1, <3>1, EmptyQueue
  <2> QED BY <2>2, <2>3
<1>6. ASSUME NEW p \in Procs, TellOne(p, d) PROVE G
  <2>1. row' = row /\ told'[d] = ToldOf(d, req[p]) /\ req[p].at = "telling"
    BY <1>6, TellSteps DEF TellOne
  <2>2. PICK f \in Texts : /\ f.kind = req[p].op /\ f.body = req[p].body /\ f.ver = req[p].ver
                           /\ f.crossed = (req[p].ver < told[d].text)
                           /\ inbox'[d] = Append(inbox[d], f)
    BY <1>6, TellSteps
  <2>3. /\ f \in Frame /\ f.kind \in {"edit", "delete"} /\ IsText(f)
    BY FrameKinds DEF Texts, IsText
  <2>4. /\ told'[d] \in Tolds /\ req[p].ver \in Nat
        /\ told'[d].text = IF told[d].text >= req[p].ver THEN told[d].text ELSE req[p].ver
        /\ told'[d].gone = (told[d].gone \/ req[p].op = "delete")
        /\ told'[d].read = told[d].read
    BY <2>1, ToldOfIs
  <2>5. /\ req[p].op = "delete" => row.deleted
        /\ req[p].op = "edit" /\ req[p].ver = row.ver => req[p].body = row.body
    BY <2>1 DEF JobsTrue
  <2>6. /\ told'[d].text >= told[d].text /\ f.ver <= told'[d].text
        /\ told'[d].text = told[d].text \/ f.ver = told'[d].text
    BY <1>0, <2>2, <2>4
  <2>7. ~f.crossed => f.ver = told'[d].text
    <3>1. CASE f.ver < told[d].text
      BY <2>2, <3>1
    <3>2. CASE ~(f.ver < told[d].text)
      BY <1>0, <2>2, <2>4, <3>2
    <3> QED BY <3>1, <3>2
  <2>8. told'[d].gone = told[d].gone \/ f.kind = "delete"
    BY <1>0, <2>2, <2>4
  <2> QED BY <1>0, <1>b, <1>1, <2>1, <2>2, <2>3, <2>4, <2>5, <2>6, <2>7, <2>8, BehindQueue
<1>7. ASSUME NEW e \in Devices, TellRead(e) PROVE G
  <2> DEFINE f == [kind |-> "read"]
  <2>1. row' = row /\ row.read
    <3>1. row' = row /\ req[e].at = "ack"
      BY <1>7 DEF TellRead
    <3> QED BY <3>1 DEF RowTrue
  <2>2. f \in Frame /\ f.kind = "read" /\ ~IsText(f)
    BY FrameKinds DEF IsText
  <2> HIDE DEF f
  <2>3. CASE d \notin Authors
    BY <1>7, <1>1, <2>1, <2>3, TellReadStep
  <2>4. CASE d \in Authors \ conn
    <3>1. inbox'[d] = << >>
      BY <1>7, <2>4, TellReadStep DEF Roles
    <3> QED BY <3>1, EmptyQueue
  <2>5. CASE d \in Authors \cap conn
    <3>1. /\ told'[d] \in Tolds /\ told'[d].text = told[d].text
          /\ told'[d].gone = told[d].gone
          /\ inbox'[d] = Append(inbox[d], f)
      BY <1>7, <2>5, TellReadStep DEF f
    <3> QED BY <1>0, <1>b, <1>1, <2>1, <2>2, <3>1, BehindQueue
  <2> QED BY <2>3, <2>4, <2>5
<1>8. ASSUME NEW e \in Devices, EchoReaction(e) \/ RelayReaction(e) PROVE G
  <2>1. row' = row /\ told' = told /\ \E S : MarkTo(S, req[e].ver)
    BY <1>8 DEF EchoReaction, RelayReaction
  <2>2. req[e].ver \in Nat
    BY <1>0 DEF Jobs
  <2> DEFINE f == [kind |-> "react", seq |-> req[e].ver]
  <2>3. inbox'[d] = inbox[d] \/ inbox'[d] = Append(inbox[d], f)
    BY <2>1, <2>2, MarkToStep
  <2>4. f \in Frame /\ f.kind = "react" /\ ~IsText(f)
    BY <2>2, FrameKinds DEF IsText
  <2> HIDE DEF f
  <2>5. CASE inbox'[d] = inbox[d]
    BY <1>1, <2>1, <2>5
  <2>6. CASE inbox'[d] = Append(inbox[d], f)
    BY SMTT(30), <1>0, <1>b, <1>1, <2>1, <2>4, <2>6, BehindQueue
  <2> QED BY <2>3, <2>5, <2>6
<1>9. ASSUME Receive(d) PROVE G
  <2>1. row' = row /\ told' = told /\ inbox[d] # << >> /\ inbox'[d] = Tail(inbox[d])
    BY <1>9 DEF Receive, AmendTypes, RoadTypes
  <2> QED BY <1>0, <1>1, <2>1, TailOfQueue
<1>10. ASSUME Disconnect(d) \/ Restart PROVE G
  <2>1. inbox'[d] = << >>
    BY <1>10 DEF Disconnect, Restart, AmendTypes, RoadTypes
  <2> QED BY <2>1, EmptyQueue
<1> HIDE DEF G
<1>11. G
  BY <1>3, <1>4, <1>5, <1>6, <1>7, <1>8, <1>9, <1>10, InboxSteps
<1> QED BY <1>11 DEF G, mine
-----------------------------------------------------------------------------
(* What a device shows *)

LEMMA ShownIs ==
    ASSUME NEW c \in Copies, NEW f \in Frame
    PROVE  /\ Shown(c, f) \in Copies
           /\ f.kind \in {"new", "edit", "delete", "read", "react"}
           /\ ~c.there /\ f.kind = "new" =>
                 /\ Shown(c, f).there /\ Shown(c, f).body = 0 /\ ~Shown(c, f).deleted
                 /\ ~Shown(c, f).read /\ ~Shown(c, f).on
           /\ ~c.there /\ f.kind # "new" => Shown(c, f) = c
           /\ c.there =>
                 /\ Shown(c, f).there
                 /\ Shown(c, f).body = IF f.kind = "edit" THEN f.body
                                       ELSE IF f.kind = "delete" THEN Gone ELSE c.body
                 /\ Shown(c, f).deleted = (c.deleted \/ f.kind = "delete")
                 /\ Shown(c, f).read = (c.read \/ f.kind = "read")
                 /\ Shown(c, f).on = IF f.kind = "react" THEN ~c.on ELSE c.on
<1>0. /\ f.kind \in {"new", "edit", "delete", "read", "react"}
      /\ f.kind = "edit" => f.body \in Int
      /\ c.there \in BOOLEAN /\ c.body \in Int /\ c.deleted \in BOOLEAN /\ c.read \in BOOLEAN
      /\ c.on \in BOOLEAN /\ Gone \in Int /\ NoCopy \in Copies
  BY Blanks DEF Frame, Texts, Reacts, Signs, Copies, Gone
<1>1. CASE ~c.there /\ f.kind = "new"
  <2>1. Shown(c, f) = [NoCopy EXCEPT !.there = TRUE]
    BY <1>1 DEF Shown
  <2> QED BY <1>0, <1>1, <2>1 DEF NoCopy, Copies
<1>2. CASE ~c.there /\ f.kind # "new"
  BY <1>0, <1>2 DEF Shown
<1>3. CASE c.there /\ f.kind = "new"
  <2>1. Shown(c, f) = c
    BY <1>3 DEF Shown
  <2> QED BY <1>0, <1>3, <2>1
<1>4. CASE c.there /\ f.kind = "edit"
  <2>1. Shown(c, f) = [c EXCEPT !.body = f.body]
    BY <1>4 DEF Shown
  <2> QED BY <1>0, <1>4, <2>1 DEF Copies
<1>5. CASE c.there /\ f.kind = "delete"
  <2>1. Shown(c, f) = [c EXCEPT !.body = Gone, !.deleted = TRUE]
    BY <1>5 DEF Shown
  <2> QED BY <1>0, <1>5, <2>1 DEF Copies
<1>6. CASE c.there /\ f.kind = "read"
  <2>1. Shown(c, f) = [c EXCEPT !.read = TRUE]
    BY <1>6 DEF Shown
  <2> QED BY <1>0, <1>6, <2>1 DEF Copies
<1>7. CASE c.there /\ f.kind = "react"
  <2>1. Shown(c, f) = [c EXCEPT !.on = ~c.on]
    BY <1>7 DEF Shown
  <2> QED BY <1>0, <1>7, <2>1 DEF Copies
<1> QED BY <1>0, <1>1, <1>2, <1>3, <1>4, <1>5, <1>6, <1>7
LEMMA ShownThere ==
    ASSUME NEW c \in Copies, c.there, NEW f \in Frame, NEW x, x = Shown(c, f)
    PROVE  /\ x.there
           /\ x.body = IF f.kind = "edit" THEN f.body ELSE IF f.kind = "delete" THEN Gone ELSE c.body
           /\ x.deleted = (c.deleted \/ f.kind = "delete")
           /\ x.read = (c.read \/ f.kind = "read")
           /\ x.on = IF f.kind = "react" THEN ~c.on ELSE c.on
BY ShownIs

LEMMA ShownNew ==
    ASSUME NEW c \in Copies, ~c.there, NEW f \in Frame, NEW x, x = Shown(c, f)
    PROVE  /\ f.kind = "new" => x.there /\ x.body = 0 /\ ~x.deleted /\ ~x.read /\ ~x.on
           /\ f.kind # "new" => x = c
BY ShownIs

\* What every step does to the copy of d.
LEMMA CopySteps ==
    ASSUME AmendTypes, NEW cleared, AmendmentsNext(cleared) \/ Restart, NEW d \in Devices
    PROVE  \/ copy'[d] = copy[d]
           \/ SubmitEdit(d) /\ copy'[d] = [copy[d] EXCEPT !.body = changes + 1]
           \/ SendReaction(d) /\ copy'[d] = [copy[d] EXCEPT !.on = ~copy[d].on]
           \/ \E p \in Procs :
                 /\ Answer(p) /\ req[p].at = "telling" /\ req[p].op = "delete"
                 /\ copy'[d] = [copy[d] EXCEPT !.deleted = TRUE, !.body = Gone]
           \/ Receive(d) /\ inbox[d] # << >> /\ copy'[d] = Shown(copy[d], inbox[d][1])
           \/ /\ SyncMerge(d) /\ sync[d].at = "page" /\ sync[d].has
              /\ copy'[d] = [there |-> TRUE, body |-> sync[d].body, deleted |-> sync[d].deleted,
                             read |-> sync[d].read, on |-> sync[d].on]
           \/ /\ SyncEvents(d) /\ sync[d].at = "events" /\ sync[d].seq # 0 /\ copy[d].there
              /\ copy'[d] = [copy[d] EXCEPT !.on = sync[d].on]
<1>0. copy \in [Devices -> Copies] /\ inbox \in [Devices -> Seq(Frame)]
  BY DEF AmendTypes, DeviceTypes, RoadTypes
<1>1. ASSUME NEW e \in Devices, SubmitEdit(e)
      PROVE  IF d = e THEN copy'[d] = [copy[d] EXCEPT !.body = changes + 1] ELSE copy'[d] = copy[d]
  BY <1>0, <1>1 DEF SubmitEdit
<1>2. ASSUME NEW e \in Devices, SendReaction(e)
      PROVE  IF d = e THEN copy'[d] = [copy[d] EXCEPT !.on = ~copy[d].on] ELSE copy'[d] = copy[d]
  BY <1>0, <1>2 DEF SendReaction
<1>3. ASSUME NEW p \in Procs, Answer(p)
      PROVE  \/ copy'[d] = copy[d]
             \/ /\ req[p].at = "telling" /\ req[p].op = "delete"
                /\ copy'[d] = [copy[d] EXCEPT !.deleted = TRUE, !.body = Gone]
  BY <1>0, <1>3 DEF Answer
<1>4. ASSUME NEW e \in Devices, Receive(e)
      PROVE  IF d = e THEN inbox[d] # << >> /\ copy'[d] = Shown(copy[d], inbox[d][1])
             ELSE copy'[d] = copy[d]
  <2>1. inbox[e] # << >> /\ copy' = [copy EXCEPT ![e] = Shown(copy[e], Head(inbox[e]))]
    BY <1>4 DEF Receive
  <2>2. Head(inbox[e]) = inbox[e][1]
    BY <1>0, <2>1
  <2> QED BY <1>0, <2>1, <2>2
<1>5. ASSUME NEW e \in Devices, SyncMerge(e)
      PROVE  IF d = e /\ sync[d].has
             THEN /\ sync[d].at = "page"
                  /\ copy'[d] = [there |-> TRUE, body |-> sync[d].body, deleted |-> sync[d].deleted,
                                 read |-> sync[d].read, on |-> sync[d].on]
             ELSE copy'[d] = copy[d]
  BY <1>0, <1>5 DEF SyncMerge
<1>6. ASSUME NEW e \in Devices, SyncEvents(e)
      PROVE  \/ copy'[d] = copy[d]
             \/ /\ d = e /\ sync[d].at = "events" /\ sync[d].seq # 0 /\ copy[d].there
                /\ copy'[d] = [copy[d] EXCEPT !.on = sync[d].on]
  BY <1>0, <1>6 DEF SyncEvents
<1>7. \/ copy' = copy
      \/ \E p \in Procs : Answer(p)
      \/ \E e \in Devices : SubmitEdit(e) \/ SendReaction(e) \/ Receive(e) \/ SyncMerge(e)
                            \/ SyncEvents(e)
  BY ZenonT(30) DEF AmendmentsNext, Commit, SubmitDelete, SendRead, DropReaction,
     SyncRows, SyncMarks, SyncReactions, SyncRefused, Connect, Disconnect,
     LosePost, Amend, Tell, TellOne, ServeRead, TellRead, ServeReaction,
     EchoReaction, RelayReaction, Restart, device
<1> QED BY <1>1, <1>2, <1>3, <1>4, <1>5, <1>6, <1>7

LEMMA CopiesTrueStep ==
    ASSUME AmendTypes, JobsTrue, InboxTrue, PagesTrue, CopiesTrue,
           NEW cleared, AmendmentsNext(cleared) \/ Restart
    PROVE  CopiesTrue'
<1> SUFFICES ASSUME NEW d \in Devices
             PROVE  (copy'[d].deleted => row'.deleted) /\ (copy'[d].read => row'.read)
  BY DEF CopiesTrue
<1>0. copy[d] \in Copies /\ inbox[d] \in Seq(Frame) /\ sync[d] \in Syncs
  BY DEF AmendTypes, DeviceTypes, RoadTypes
<1>1. /\ copy[d].deleted => row'.deleted
      /\ copy[d].read => row'.read
      /\ row.deleted => row'.deleted
      /\ row.read => row'.read
  BY RowSteps DEF CopiesTrue
<1>2. CASE copy'[d] = copy[d]
  BY <1>1, <1>2
<1>3. CASE copy'[d] = [copy[d] EXCEPT !.body = changes + 1]
  BY <1>0, <1>1, <1>3 DEF Copies
<1>4. CASE copy'[d] = [copy[d] EXCEPT !.on = ~copy[d].on]
  BY <1>0, <1>1, <1>4 DEF Copies
<1>5. ASSUME NEW p \in Procs, req[p].at = "telling", req[p].op = "delete",
             copy'[d] = [copy[d] EXCEPT !.deleted = TRUE, !.body = Gone]
      PROVE  (copy'[d].deleted => row'.deleted) /\ (copy'[d].read => row'.read)
  <2>1. row.deleted
    BY <1>5 DEF JobsTrue
  <2> QED BY <1>0, <1>1, <1>5, <2>1 DEF Copies
<1>6. CASE inbox[d] # << >> /\ copy'[d] = Shown(copy[d], inbox[d][1])
  <2> DEFINE f == inbox[d][1]
  <2>1. f \in Frame /\ 1 \in 1 .. Len(inbox[d])
    BY <1>0, <1>6
  <2>2. (f.kind = "delete" => row.deleted) /\ (f.kind = "read" => row.read)
    BY <2>1 DEF InboxTrue, FramesTrue
  <2> HIDE DEF f
  <2>3. copy'[d] = Shown(copy[d], f)
    BY <1>6 DEF f
  <2>4. CASE copy[d].there
    <3>1. /\ copy'[d].deleted = (copy[d].deleted \/ f.kind = "delete")
          /\ copy'[d].read = (copy[d].read \/ f.kind = "read")
      BY <1>0, <2>1, <2>3, <2>4, ShownThere
    <3> QED BY <1>1, <2>2, <3>1
  <2>5. CASE ~copy[d].there
    BY <1>0, <1>1, <2>1, <2>2, <2>3, <2>5, ShownNew
  <2> QED BY <2>4, <2>5
<1>7. CASE /\ sync[d].at = "page"
           /\ copy'[d] = [there |-> TRUE, body |-> sync[d].body, deleted |-> sync[d].deleted,
                          read |-> sync[d].read, on |-> sync[d].on]
  <2>1. (sync[d].deleted => row.deleted) /\ (sync[d].read => row.read)
    BY <1>7 DEF PagesTrue, PageText
  <2> QED BY <1>1, <1>7, <2>1
<1>8. CASE copy'[d] = [copy[d] EXCEPT !.on = sync[d].on]
  BY <1>0, <1>1, <1>8 DEF Copies
<1> QED BY <1>2, <1>3, <1>4, <1>5, <1>6, <1>7, <1>8, CopySteps
\* The ways a copy is left wrong, step by step.
LEMMA AmissByHandlers ==
    ASSUME AmendTypes, NEW d \in Devices
    PROVE  /\ \A q \in posts : LosePost(q) =>
                 /\ q.op = "edit" /\ q.dev = d => amiss'[d].text
                 /\ amiss[d].text => amiss'[d].text
                 /\ amiss'[d].gone = amiss[d].gone /\ amiss'[d].read = amiss[d].read
                 /\ amiss'[d].on = amiss[d].on
           /\ \A p \in Procs : Tell(p) =>
                 /\ d \notin conn /\ Loses(d) /\ req[p].ver > told[d].text => amiss'[d].text
                 /\ d \notin conn /\ Loses(d) /\ req[p].op = "delete" => amiss'[d].gone
                 /\ amiss[d].text => amiss'[d].text
                 /\ amiss[d].gone => amiss'[d].gone
                 /\ amiss'[d].read = amiss[d].read /\ amiss'[d].on = amiss[d].on
           /\ \A e \in Devices : TellRead(e) =>
                 /\ d \in Authors \ conn /\ Loses(d) => copy[d].read \/ amiss'[d].read
                 /\ amiss[d].read => amiss'[d].read
                 /\ amiss'[d].text = amiss[d].text /\ amiss'[d].gone = amiss[d].gone
                 /\ amiss'[d].on = amiss[d].on
           /\ \A S, n : MarkTo(S, n) =>
                 /\ d \in S \ conn /\ LosesMark(d, n) => amiss'[d].on
                 /\ amiss[d].on => amiss'[d].on
                 /\ amiss'[d].text = amiss[d].text /\ amiss'[d].gone = amiss[d].gone
                 /\ amiss'[d].read = amiss[d].read
           /\ \A e \in Devices : DropReaction(e) =>
                 /\ d = e => amiss'[d].on
                 /\ d # e => amiss'[d] = amiss[d]
                 /\ amiss'[d].text = amiss[d].text /\ amiss'[d].gone = amiss[d].gone
                 /\ amiss'[d].read = amiss[d].read
<1>0. /\ amiss \in [Devices -> Faults] /\ amiss[d] \in Faults /\ posts \subseteq Posts
      /\ amiss[d].text \in BOOLEAN /\ amiss[d].gone \in BOOLEAN
      /\ amiss[d].read \in BOOLEAN /\ amiss[d].on \in BOOLEAN
  BY DEF AmendTypes, HistoryTypes, ServerTypes, Faults
<1>1. ASSUME NEW q \in posts, LosePost(q)
      PROVE  /\ q.op = "edit" /\ q.dev = d => amiss'[d].text
             /\ amiss[d].text => amiss'[d].text
             /\ amiss'[d].gone = amiss[d].gone /\ amiss'[d].read = amiss[d].read
             /\ amiss'[d].on = amiss[d].on
  <2>1. amiss' = amiss \/ amiss' = [amiss EXCEPT ![q.dev].text = TRUE]
    BY <1>1 DEF LosePost
  <2>2. q.op = "edit" => amiss' = [amiss EXCEPT ![q.dev].text = TRUE]
    BY <1>1 DEF LosePost
  <2> QED BY <1>0, <2>1, <2>2 DEF Faults
<1>2. ASSUME NEW p \in Procs, Tell(p)
      PROVE  /\ d \notin conn /\ Loses(d) /\ req[p].ver > told[d].text => amiss'[d].text
             /\ d \notin conn /\ Loses(d) /\ req[p].op = "delete" => amiss'[d].gone
             /\ amiss[d].text => amiss'[d].text
             /\ amiss[d].gone => amiss'[d].gone
             /\ amiss'[d].read = amiss[d].read /\ amiss'[d].on = amiss[d].on
  <2> DEFINE b == amiss[d].text \/ req[p].ver > told[d].text
             c == amiss[d].gone \/ req[p].op = "delete"
  <2>1. amiss'[d] = IF d \in Devices \ conn /\ Loses(d)
                    THEN [amiss[d] EXCEPT !.text = b, !.gone = c] ELSE amiss[d]
    BY <1>2 DEF Tell
  <2>2. /\ amiss[d].text => b
        /\ amiss[d].gone => c
        /\ req[p].ver > told[d].text => b
        /\ req[p].op = "delete" => c
    OBVIOUS
  <2> HIDE DEF b, c
  <2> QED BY <1>0, <2>1, <2>2 DEF Faults
<1>3. ASSUME NEW e \in Devices, TellRead(e)
      PROVE  /\ d \in Authors \ conn /\ Loses(d) => copy[d].read \/ amiss'[d].read
             /\ amiss[d].read => amiss'[d].read
             /\ amiss'[d].text = amiss[d].text /\ amiss'[d].gone = amiss[d].gone
             /\ amiss'[d].on = amiss[d].on
  <2>1. amiss'[d] = IF d \in Authors \ conn /\ Loses(d) /\ ~copy[d].read
                    THEN [amiss[d] EXCEPT !.read = TRUE] ELSE amiss[d]
    BY <1>3 DEF TellRead
  <2> QED BY <1>0, <2>1 DEF Faults
<1>4. ASSUME NEW S, NEW n, MarkTo(S, n)
      PROVE  /\ d \in S \ conn /\ LosesMark(d, n) => amiss'[d].on
             /\ amiss[d].on => amiss'[d].on
             /\ amiss'[d].text = amiss[d].text /\ amiss'[d].gone = amiss[d].gone
             /\ amiss'[d].read = amiss[d].read
  <2>1. amiss'[d] = IF d \in S \ conn /\ LosesMark(d, n)
                    THEN [amiss[d] EXCEPT !.on = TRUE] ELSE amiss[d]
    BY <1>4 DEF MarkTo
  <2> QED BY <1>0, <2>1 DEF Faults
<1>5. ASSUME NEW e \in Devices, DropReaction(e)
      PROVE  /\ d = e => amiss'[d].on
             /\ d # e => amiss'[d] = amiss[d]
             /\ amiss'[d].text = amiss[d].text /\ amiss'[d].gone = amiss[d].gone
             /\ amiss'[d].read = amiss[d].read
  <2>1. amiss' = [amiss EXCEPT ![e].on = TRUE]
    BY <1>5 DEF DropReaction
  <2> QED BY <1>0, <2>1 DEF Faults
<1> QED BY <1>1, <1>2, <1>3, <1>4, <1>5

LEMMA AmissBySync ==
    ASSUME AmendTypes, NEW d \in Devices
    PROVE  /\ Receive(d) =>
                 LET f == inbox[d][1] IN
                 /\ f.kind \in {"edit", "delete"} => amiss'[d].text = f.crossed
                 /\ f.kind \notin {"edit", "delete"} => amiss'[d].text = amiss[d].text
                 /\ amiss'[d].gone = (amiss[d].gone /\ f.kind # "delete")
                 /\ amiss'[d].read = (amiss[d].read /\ f.kind # "read")
           /\ \A c : SyncMarks(d, c) =>
                 /\ amiss[d].text => amiss'[d].text
                 /\ amiss[d].gone => amiss'[d].gone
                 /\ amiss[d].read => amiss'[d].read
                 /\ amiss'[d].on = amiss[d].on
                 /\ sync[d].has /\ c >= 1 /\ copy[d].there =>
                       amiss'[d].text /\ amiss'[d].gone /\ amiss'[d].read
           /\ SyncMerge(d) /\ sync[d].has =>
                 /\ sync[d].ver < told[d].text => amiss'[d].text \/ Coming(d, told[d].text)
                 /\ told[d].gone => sync[d].deleted \/ amiss'[d].gone \/ Holds(d, "delete")
                 /\ told[d].read => sync[d].read \/ amiss'[d].read \/ Holds(d, "read")
                 /\ Overtaken(d, sync[d].seq) => amiss'[d].on
           /\ SyncMerge(d) /\ ~sync[d].has => amiss'[d] = amiss[d]
           /\ SyncRefused(d) =>
                 /\ amiss'[d].text = amiss[d].text /\ amiss'[d].gone = amiss[d].gone
                 /\ amiss'[d].read = amiss[d].read /\ amiss'[d].on
           /\ SyncEvents(d) =>
                 /\ amiss'[d].text = amiss[d].text /\ amiss'[d].gone = amiss[d].gone
                 /\ amiss'[d].read = amiss[d].read
                 /\ sync[d].seq = 0 \/ ~copy[d].there => amiss'[d] = amiss[d]
                 /\ sync[d].seq # 0 /\ copy[d].there => (Overtaken(d, sync[d].seq) => amiss'[d].on)
<1>0. /\ amiss \in [Devices -> Faults] /\ amiss[d] \in Faults /\ inbox[d] \in Seq(Frame)
      /\ amiss[d].text \in BOOLEAN /\ amiss[d].gone \in BOOLEAN
      /\ amiss[d].read \in BOOLEAN /\ amiss[d].on \in BOOLEAN
  BY DEF AmendTypes, HistoryTypes, RoadTypes, Faults
<1>1. ASSUME Receive(d)
      PROVE  LET f == inbox[d][1] IN
             /\ f.kind \in {"edit", "delete"} => amiss'[d].text = f.crossed
             /\ f.kind \notin {"edit", "delete"} => amiss'[d].text = amiss[d].text
             /\ amiss'[d].gone = (amiss[d].gone /\ f.kind # "delete")
             /\ amiss'[d].read = (amiss[d].read /\ f.kind # "read")
  <2> DEFINE f == Head(inbox[d])
             t == IF f.kind \in {"edit", "delete"} THEN f.crossed ELSE amiss[d].text
             x == amiss[d].gone /\ f.kind # "delete"
             y == amiss[d].read /\ f.kind # "read"
             z == IF f.kind = "new" /\ ~copy[d].there THEN ComesBare(d)
                  ELSE amiss[d].on \/ (f.kind = "react" /\ f.seq <= base[d])
  <2>1. inbox[d] # << >> /\ amiss'[d] = [text |-> t, gone |-> x, read |-> y, on |-> z]
    BY <1>0, <1>1 DEF Receive
  <2>2. f = inbox[d][1]
    BY <1>0, <2>1
  <2> HIDE DEF z
  <2> QED BY <2>1, <2>2
<1>2. ASSUME NEW c, SyncMarks(d, c)
      PROVE  /\ amiss[d].text => amiss'[d].text
             /\ amiss[d].gone => amiss'[d].gone
             /\ amiss[d].read => amiss'[d].read
             /\ amiss'[d].on = amiss[d].on
             /\ sync[d].has /\ c >= 1 /\ copy[d].there =>
                   amiss'[d].text /\ amiss'[d].gone /\ amiss'[d].read
  <2>1. amiss' = IF sync[d].has /\ c >= 1 /\ copy[d].there
                 THEN [amiss EXCEPT ![d].text = TRUE, ![d].gone = TRUE, ![d].read = TRUE]
                 ELSE amiss
    BY <1>2 DEF SyncMarks
  <2>2. CASE sync[d].has /\ c >= 1 /\ copy[d].there
    <3>1. amiss'[d] = [amiss[d] EXCEPT !.text = TRUE, !.gone = TRUE, !.read = TRUE]
      BY <1>0, <2>1, <2>2 DEF Faults
    <3> QED BY <1>0, <3>1 DEF Faults
  <2>3. CASE ~(sync[d].has /\ c >= 1 /\ copy[d].there)
    BY <2>1, <2>3
  <2> QED BY <2>2, <2>3
<1>3. ASSUME SyncMerge(d), sync[d].has
      PROVE  /\ sync[d].ver < told[d].text => amiss'[d].text \/ Coming(d, told[d].text)
             /\ told[d].gone => sync[d].deleted \/ amiss'[d].gone \/ Holds(d, "delete")
             /\ told[d].read => sync[d].read \/ amiss'[d].read \/ Holds(d, "read")
             /\ Overtaken(d, sync[d].seq) => amiss'[d].on
  <2> DEFINE t == sync[d].ver < told[d].text /\ ~Coming(d, told[d].text)
             x == ~sync[d].deleted /\ told[d].gone /\ ~Holds(d, "delete")
             y == ~sync[d].read /\ told[d].read /\ ~Holds(d, "read")
             z == Overtaken(d, sync[d].seq)
  <2>1. amiss'[d] = [text |-> t, gone |-> x, read |-> y, on |-> z]
    BY <1>0, <1>3 DEF SyncMerge
  <2>2. /\ sync[d].ver < told[d].text => t \/ Coming(d, told[d].text)
        /\ told[d].gone => sync[d].deleted \/ x \/ Holds(d, "delete")
        /\ told[d].read => sync[d].read \/ y \/ Holds(d, "read")
        /\ Overtaken(d, sync[d].seq) => z
    OBVIOUS
  <2> HIDE DEF t, x, y, z
  <2>3. amiss'[d].text = t /\ amiss'[d].gone = x /\ amiss'[d].read = y /\ amiss'[d].on = z
    BY <2>1
  <2> QED BY <2>2, <2>3
<1>4. ASSUME SyncMerge(d), ~sync[d].has PROVE amiss'[d] = amiss[d]
  BY <1>4 DEF SyncMerge
<1>5. ASSUME SyncRefused(d)
      PROVE  /\ amiss'[d].text = amiss[d].text /\ amiss'[d].gone = amiss[d].gone
             /\ amiss'[d].read = amiss[d].read /\ amiss'[d].on
  BY <1>0, <1>5 DEF SyncRefused, Faults
<1>6. ASSUME SyncEvents(d)
      PROVE  /\ amiss'[d].text = amiss[d].text /\ amiss'[d].gone = amiss[d].gone
             /\ amiss'[d].read = amiss[d].read
             /\ sync[d].seq = 0 \/ ~copy[d].there => amiss'[d] = amiss[d]
             /\ sync[d].seq # 0 /\ copy[d].there => (Overtaken(d, sync[d].seq) => amiss'[d].on)
  <2> DEFINE o == Overtaken(d, sync[d].seq)
  <2>1. amiss' = IF sync[d].seq # 0 /\ copy[d].there THEN [amiss EXCEPT ![d].on = o] ELSE amiss
    BY <1>6 DEF SyncEvents
  <2> HIDE DEF o
  <2>2. CASE sync[d].seq # 0 /\ copy[d].there
    <3>1. amiss'[d] = [amiss[d] EXCEPT !.on = o]
      BY <1>0, <2>1, <2>2 DEF Faults
    <3> QED BY <1>0, <2>2, <3>1 DEF Faults, o
  <2>3. CASE ~(sync[d].seq # 0 /\ copy[d].there)
    BY <2>1, <2>3
  <2> QED BY <2>2, <2>3
<1> QED BY <1>1, <1>2, <1>3, <1>4, <1>5, <1>6

\* And when connections break.
LosesAll(d) ==
    copy[d].there /\ ~(cursor[d] < 1 /\ sync[d].at \in {"idle", "rows", "marks"}) /\ ~PageComing(d)

LEMMA AmissByBreaks ==
    ASSUME AmendTypes, NEW d \in Devices
    PROVE  /\ Disconnect(d) =>
                 /\ amiss[d].text \/ (Loses(d) /\ Coming(d, told[d].text)) => amiss'[d].text
                 /\ amiss[d].gone \/ (Loses(d) /\ Holds(d, "delete")) => amiss'[d].gone
                 /\ amiss[d].read \/ (Loses(d) /\ Holds(d, "read")) => amiss'[d].read
                 /\ amiss[d].on \/ Unserved(d) \/ (\E n \in MarksIn(d) : LosesMark(d, n)) => amiss'[d].on
           /\ Restart =>
                 /\ amiss[d].text \/ (Loses(d) /\ Coming(d, told[d].text)) => amiss'[d].text
                 /\ amiss[d].gone \/ (Loses(d) /\ Holds(d, "delete")) => amiss'[d].gone
                 /\ amiss[d].read \/ (Loses(d) /\ Holds(d, "read")) => amiss'[d].read
                 /\ amiss[d].on \/ Unserved(d) \/ (\E n \in MarksIn(d) : LosesMark(d, n)) => amiss'[d].on
                 /\ LosesAll(d) /\ row.ver > told[d].text => amiss'[d].text
                 /\ (\E q \in posts : q.op = "edit" /\ q.dev = d) => amiss'[d].text
                 /\ LosesAll(d) /\ row.deleted => amiss'[d].gone
                 /\ LosesAll(d) /\ row.read => amiss'[d].read
                 /\ LosesMark(d, mark.seq) => amiss'[d].on
<1> DEFINE w == AmissWithout(d)
           t == amiss[d].text \/ (Loses(d) /\ Coming(d, told[d].text))
           x == amiss[d].gone \/ (Loses(d) /\ Holds(d, "delete"))
           y == amiss[d].read \/ (Loses(d) /\ Holds(d, "read"))
           z == amiss[d].on \/ Unserved(d) \/ \E n \in MarksIn(d) : LosesMark(d, n)
           tt == w.text \/ (LosesAll(d) /\ row.ver > told[d].text) \/ \E q \in posts : q.op = "edit" /\ q.dev = d
           xx == w.gone \/ (LosesAll(d) /\ row.deleted)
           yy == w.read \/ (LosesAll(d) /\ row.read)
           zz == w.on \/ LosesMark(d, mark.seq)
<1>0. amiss \in [Devices -> Faults]
  BY DEF AmendTypes, HistoryTypes
<1>1. w = [text |-> t, gone |-> x, read |-> y, on |-> z]
  BY DEF AmissWithout
<1>2. Disconnect(d) => amiss'[d] = w
  BY <1>0 DEF Disconnect
<1>3. Restart => amiss'[d] = [text |-> tt, gone |-> xx, read |-> yy, on |-> zz]
  BY DEF Restart, LosesAll
<1>4. /\ amiss[d].text \/ (Loses(d) /\ Coming(d, told[d].text)) => t
      /\ amiss[d].gone \/ (Loses(d) /\ Holds(d, "delete")) => x
      /\ amiss[d].read \/ (Loses(d) /\ Holds(d, "read")) => y
      /\ amiss[d].on \/ Unserved(d) \/ (\E n \in MarksIn(d) : LosesMark(d, n)) => z
  OBVIOUS
<1>5. /\ LosesAll(d) /\ row.ver > told[d].text => tt
      /\ (\E q \in posts : q.op = "edit" /\ q.dev = d) => tt
      /\ LosesAll(d) /\ row.deleted => xx
      /\ LosesAll(d) /\ row.read => yy
      /\ LosesMark(d, mark.seq) => zz
      /\ w.text => tt
      /\ w.gone => xx
      /\ w.read => yy
      /\ w.on => zz
  OBVIOUS
<1> HIDE DEF w, t, x, y, z, tt, xx, yy, zz
<1>6. w.text = t /\ w.gone = x /\ w.read = y /\ w.on = z
  BY <1>1
<1>7. Restart => amiss'[d].text = tt /\ amiss'[d].gone = xx /\ amiss'[d].read = yy /\ amiss'[d].on = zz
  BY <1>3
<1> QED BY <1>2, <1>4, <1>5, <1>6, <1>7

\* Only what sets a copy anew ends what is amiss with it.
LEMMA AmissStays ==
    ASSUME AmendTypes, NEW cleared, AmendmentsNext(cleared) \/ Restart, NEW d \in Devices
    PROVE  \/ Receive(d) \/ (SyncMerge(d) /\ sync[d].has)
           \/ /\ SyncEvents(d) /\ sync[d].seq # 0 /\ copy[d].there
              /\ amiss'[d].text = amiss[d].text /\ amiss'[d].gone = amiss[d].gone
              /\ amiss'[d].read = amiss[d].read
           \/ /\ amiss[d].text => amiss'[d].text
              /\ amiss[d].gone => amiss'[d].gone
              /\ amiss[d].read => amiss'[d].read
              /\ amiss[d].on => amiss'[d].on
<1> DEFINE Stays == /\ amiss[d].text => amiss'[d].text
                    /\ amiss[d].gone => amiss'[d].gone
                    /\ amiss[d].read => amiss'[d].read
                    /\ amiss[d].on => amiss'[d].on
<1>0. amiss \in [Devices -> Faults] /\ posts \subseteq Posts
  BY DEF AmendTypes, HistoryTypes, ServerTypes
<1>1. ASSUME amiss'[d] = amiss[d] PROVE Stays
  BY <1>1
<1>2. ASSUME NEW q \in posts, LosePost(q) PROVE Stays
  BY <1>2, AmissByHandlers
<1>3. ASSUME NEW p \in Procs, Tell(p) PROVE Stays
  BY <1>3, AmissByHandlers
<1>4. ASSUME NEW e \in Devices, TellRead(e) PROVE Stays
  BY <1>4, AmissByHandlers
<1>5. ASSUME NEW e \in Devices, EchoReaction(e) \/ RelayReaction(e) PROVE Stays
  <2>1. \E S, n : MarkTo(S, n)
    BY <1>5 DEF EchoReaction, RelayReaction
  <2> QED BY <2>1, AmissByHandlers
<1>6. ASSUME NEW e \in Devices, DropReaction(e) PROVE Stays
  BY <1>6, AmissByHandlers
<1>7. ASSUME NEW e \in Devices, NEW c, SyncMarks(e, c) PROVE Stays
  <2>1. CASE d = e
    BY <1>7, <2>1, AmissBySync
  <2>2. CASE d # e
    <3>1. amiss'[d] = amiss[d]
      BY <1>0, <1>7, <2>2 DEF SyncMarks
    <3> QED BY <3>1
  <2> QED BY <2>1, <2>2
<1>8. ASSUME NEW e \in Devices, SyncRefused(e) PROVE Stays
  <2>1. CASE d = e
    BY <1>8, <2>1, AmissBySync
  <2>2. CASE d # e
    <3>1. amiss'[d] = amiss[d]
      BY <1>0, <1>8, <2>2 DEF SyncRefused
    <3> QED BY <3>1
  <2> QED BY <2>1, <2>2
<1>9. ASSUME NEW e \in Devices, SyncEvents(e)
      PROVE  \/ /\ SyncEvents(d) /\ sync[d].seq # 0 /\ copy[d].there
                /\ amiss'[d].text = amiss[d].text /\ amiss'[d].gone = amiss[d].gone
                /\ amiss'[d].read = amiss[d].read
             \/ Stays
  <2>1. CASE d = e
    <3>1. SyncEvents(d)
      BY <1>9, <2>1
    <3>2. /\ amiss'[d].text = amiss[d].text /\ amiss'[d].gone = amiss[d].gone
          /\ amiss'[d].read = amiss[d].read
          /\ sync[d].seq = 0 \/ ~copy[d].there => amiss'[d] = amiss[d]
      BY <3>1, AmissBySync
    <3> QED BY <3>1, <3>2
  <2>2. CASE d # e
    <3>1. amiss'[d] = amiss[d]
      BY <1>0, <1>9, <2>2 DEF SyncEvents
    <3> QED BY <3>1
  <2> QED BY <2>1, <2>2
<1>10. ASSUME NEW e \in Devices, SyncMerge(e) PROVE (SyncMerge(d) /\ sync[d].has) \/ Stays
  <2>1. (SyncMerge(d) /\ sync[d].has) \/ amiss'[d] = amiss[d]
    BY <1>0, <1>10 DEF SyncMerge
  <2> QED BY <2>1
<1>11. ASSUME NEW e \in Devices, Receive(e) PROVE Receive(d) \/ Stays
  <2>1. Receive(d) \/ amiss'[d] = amiss[d]
    BY <1>0, <1>11 DEF Receive
  <2> QED BY <2>1
<1>12. ASSUME NEW e \in Devices, Disconnect(e) PROVE Stays
  <2>1. CASE d = e
    BY <1>12, <2>1, AmissByBreaks
  <2>2. CASE d # e
    <3>1. amiss'[d] = amiss[d]
      BY <1>0, <1>12, <2>2 DEF Disconnect
    <3> QED BY <3>1
  <2> QED BY <2>1, <2>2
<1>13. ASSUME Restart PROVE Stays
  BY <1>13, AmissByBreaks
<1>14. \/ amiss' = amiss
       \/ \E q \in posts : LosePost(q)
       \/ \E p \in Procs : Tell(p)
       \/ \E e \in Devices : \/ TellRead(e) \/ EchoReaction(e) \/ RelayReaction(e) \/ DropReaction(e)
                             \/ Receive(e) \/ SyncMarks(e, cleared[e]) \/ SyncMerge(e)
                             \/ SyncRefused(e) \/ SyncEvents(e) \/ Disconnect(e)
       \/ Restart
  BY ZenonT(30) DEF AmendmentsNext, Commit, SubmitEdit, SubmitDelete, SendRead, SendReaction,
     SyncRows, SyncReactions, Connect, Amend, TellOne, Answer, ServeRead, ServeReaction, history
<1> HIDE DEF Stays
<1>15. \/ Receive(d) \/ (SyncMerge(d) /\ sync[d].has)
       \/ /\ SyncEvents(d) /\ sync[d].seq # 0 /\ copy[d].there
          /\ amiss'[d].text = amiss[d].text /\ amiss'[d].gone = amiss[d].gone
          /\ amiss'[d].read = amiss[d].read
       \/ Stays
  <2>1. CASE amiss' = amiss
    BY <1>1, <2>1
  <2> QED BY <1>2, <1>3, <1>4, <1>5, <1>6, <1>7, <1>8, <1>9, <1>10, <1>11, <1>12, <1>13, <1>14, <2>1
<1> QED BY <1>15 DEF Stays

-----------------------------------------------------------------------------
(* A page that is still to come *)

\* It will ask for a page, which will have the message.
WillRead(d) == cursor[d] < 1 /\ (sync[d].at = "rows" \/ (sync[d].at = "idle" /\ d \notin conn))
OnPage(d) == PageComing(d) \/ WillRead(d)

LEMMA NobodyAppears ==
    ASSUME AmendTypes, NEW cleared, AmendmentsNext(cleared) \/ Restart, NEW d \in Devices, d \notin conn
    PROVE  d \notin conn' \/ Connect(d)
<1>1. \/ conn' = conn
      \/ \E e \in Devices : Connect(e) \/ Disconnect(e)
      \/ Restart
  BY ZenonT(30) DEF AmendmentsNext, Commit, SubmitEdit, SubmitDelete, SendRead, SendReaction, DropReaction,
     Receive, SyncRows, SyncMarks, SyncMerge, SyncReactions, SyncRefused, SyncEvents,
     LosePost, Amend, Tell, TellOne, Answer, ServeRead, TellRead, ServeReaction,
     EchoReaction, RelayReaction, roads
<1>2. ASSUME NEW e \in Devices, Connect(e) PROVE conn' = conn \cup {e}
  BY <1>2 DEF Connect
<1>3. ASSUME NEW e \in Devices, Disconnect(e) PROVE conn' \subseteq conn
  BY <1>3 DEF Disconnect
<1>4. Restart => conn' = {}
  BY DEF Restart
<1> QED BY <1>1, <1>2, <1>3, <1>4

\* Who is not there and does not lose what it misses gets it with a page.
LEMMA NotLost ==
    ASSUME AmendTypes, NEW d \in Devices, copy[d].there, ~Loses(d), d \notin conn',
           sync'[d] = sync[d], cursor'[d] = cursor[d]
    PROVE  OnPage(d)'
BY DEF Loses, Rereads, OnPage, PageComing, WillRead

LEMMA NotLostByRestart ==
    ASSUME AmendTypes, PagesTrue, NEW d \in Devices, Restart, copy[d].there, ~LosesAll(d) \/ ~Loses(d) \/ OnPage(d)
    PROVE  OnPage(d)'
<1>1. ~LosesAll(d)
  BY DEF LosesAll, Loses, OnPage, PageComing, WillRead, Rereads
<1>2. /\ sync[d].at = "marks" /\ sync[d].has => cursor[d] < 1
      /\ sync[d].has => sync[d].at \in {"marks", "page"}
  BY DEF PagesTrue, PageText
<1>3. d \notin conn' /\ cursor'[d] = cursor[d]
  BY DEF Restart
<1>4. \/ sync[d].at \in {"rows", "marks"} /\ sync'[d].at = "rows"
      \/ sync[d].at \in {"idle", "page", "events"} /\ sync'[d] = sync[d]
      \/ sync[d].at = "reacts"
  <2>1. \/ sync[d].at \in {"rows", "marks"} /\ sync'[d] = [NoSync EXCEPT !.at = "rows"]
        \/ sync[d].at = "reacts" /\ sync'[d] = NoSync
        \/ sync[d].at \in {"idle", "page", "events"} /\ sync'[d] = sync[d]
    BY SyncSteps
  <2> QED BY <2>1, Blank
<1> QED BY <1>1, <1>2, <1>3, <1>4 DEF LosesAll, OnPage, PageComing, WillRead

LEMMA PageStays ==
    ASSUME AmendTypes, Unsent, PagesTrue, NEW cleared, AmendmentsNext(cleared) \/ Restart,
           NEW d \in Devices, copy[d].there, OnPage(d)
    PROVE  \/ OnPage(d)'
           \/ SyncMarks(d, cleared[d]) /\ sync[d].has /\ ~(cleared[d] < 1)
           \/ SyncMerge(d) /\ sync[d].has
<1>1. CASE Restart
  BY <1>1, NotLostByRestart
<1>2. ASSUME sync'[d] = sync[d], cursor'[d] = cursor[d], ~Connect(d) PROVE OnPage(d)'
  <2>1. d \notin conn => d \notin conn'
    BY <1>2, NobodyAppears
  <2> QED BY <1>2, <2>1 DEF OnPage, PageComing, WillRead
<1>3. ASSUME Connect(d) PROVE OnPage(d)'
  <2>1. cursor'[d] = cursor[d]
    BY <1>3 DEF Connect
  <2>2. /\ sync[d].at # "idle" => sync'[d] = sync[d]
        /\ sync[d].at = "idle" => sync'[d].at = "rows"
    BY <1>3, SyncSteps
  <2> QED BY <2>1, <2>2 DEF OnPage, PageComing, WillRead
<1>4. ASSUME SyncRows(d) PROVE OnPage(d)'
  <2>1. sync[d].at = "rows" /\ sync'[d].at = "marks" /\ sync'[d].has = (1 \in seqs /\ cursor[d] < 1)
    BY <1>4, SyncSteps
  <2>2. 1 \in seqs
    BY DEF Unsent
  <2> QED BY <2>1, <2>2 DEF OnPage, PageComing, WillRead
<1>5. ASSUME SyncMarks(d, cleared[d])
      PROVE  OnPage(d)' \/ (SyncMarks(d, cleared[d]) /\ sync[d].has /\ ~(cleared[d] < 1))
  <2>1. /\ sync[d].at = "marks" /\ sync'[d].at = "page"
        /\ sync'[d].has = (sync[d].has /\ cleared[d] < 1)
    BY <1>5, SyncSteps
  <2> QED BY <1>5, <2>1 DEF OnPage, PageComing, WillRead
<1>6. ASSUME SyncMerge(d) PROVE sync[d].has
  <2>1. sync[d].at = "page"
    BY <1>6, SyncSteps
  <2> QED BY <2>1 DEF OnPage, PageComing, WillRead
<1>7. ~SyncReactions(d) /\ ~SyncRefused(d) /\ ~SyncEvents(d)
  <2>1. /\ SyncReactions(d) => sync[d].at = "reacts"
        /\ SyncRefused(d) => sync[d].at = "reacts"
        /\ SyncEvents(d) => sync[d].at = "events"
    BY SyncSteps
  <2> QED BY <2>1 DEF OnPage, PageComing, WillRead
<1>8. CASE AmendmentsNext(cleared)
  <2>1. CASE sync'[d] = sync[d] /\ cursor'[d] = cursor[d]
    BY <1>2, <1>3, <2>1
  <2>2. CASE ~(sync'[d] = sync[d] /\ cursor'[d] = cursor[d])
    <3>1. \E e \in Devices :
                 /\ \/ SyncRows(e) \/ SyncMarks(e, cleared[e]) \/ SyncMerge(e) \/ SyncReactions(e)
                    \/ SyncRefused(e) \/ SyncEvents(e) \/ Connect(e)
                 /\ d # e => sync'[d] = sync[d] /\ cursor'[d] = cursor[d]
      BY <1>8, <2>2, SyncsOfOthers
    <3> QED BY <1>3, <1>4, <1>5, <1>6, <1>7, <2>2, <3>1
  <2> QED BY <2>1, <2>2
<1> QED BY <1>1, <1>8

-----------------------------------------------------------------------------
(* Text, deletion, reading *)

\* A step that has no part in what d shows of them.
Quiet(d) ==
    /\ row' = row /\ told'[d] = told[d] /\ posts \subseteq posts'
    /\ copy'[d].there = copy[d].there /\ copy'[d].body = copy[d].body
    /\ copy'[d].deleted = copy[d].deleted /\ copy'[d].read = copy[d].read
    /\ \A v : Coming(d, v) => TextOf(inbox'[d], v)
    /\ \A kind : Holds(d, kind) => KindOf(inbox'[d], kind)

LEMMA QuietSteps ==
    ASSUME AmendTypes, NEW cleared, AmendmentsNext(cleared) \/ Restart, NEW d \in Devices
    PROVE  \/ Quiet(d)
           \/ SubmitEdit(d) \/ Receive(d) \/ (SyncMerge(d) /\ sync[d].has)
           \/ \E q \in posts : LosePost(q) \/ \E p \in Procs : Amend(p, q)
           \/ \E p \in Procs : (Tell(p) /\ d \notin conn) \/ TellOne(p, d) \/ Answer(p)
           \/ \E e \in Devices : ServeRead(e) \/ TellRead(e)
           \/ Disconnect(d) \/ Restart
<1> DEFINE Loud == \/ SubmitEdit(d) \/ Receive(d) \/ (SyncMerge(d) /\ sync[d].has)
                   \/ \E q \in posts : LosePost(q) \/ \E p \in Procs : Amend(p, q)
                   \/ \E p \in Procs : (Tell(p) /\ d \notin conn) \/ TellOne(p, d) \/ Answer(p)
                   \/ \E e \in Devices : ServeRead(e) \/ TellRead(e)
                   \/ Disconnect(d) \/ Restart
           SameCopy == /\ copy'[d].there = copy[d].there /\ copy'[d].body = copy[d].body
                       /\ copy'[d].deleted = copy[d].deleted /\ copy'[d].read = copy[d].read
           MoreFrames == /\ told'[d] = told[d]
                         /\ \A v : Coming(d, v) => TextOf(inbox'[d], v)
                         /\ \A kind : Holds(d, kind) => KindOf(inbox'[d], kind)
<1>0. copy[d] \in Copies /\ inbox[d] \in Seq(Frame) /\ inbox \in [Devices -> Seq(Frame)]
      /\ req \in [Procs \cup Devices -> Jobs]
  BY DEF AmendTypes, DeviceTypes, RoadTypes, ServerTypes
<1>1. (row' = row /\ posts \subseteq posts') \/ Loud
  <2>1. \/ UNCHANGED row /\ posts \subseteq posts'
        \/ \E q \in posts : LosePost(q) \/ \E p \in Procs : Amend(p, q)
        \/ \E e \in Devices : ServeRead(e)
        \/ Restart
    BY ZenonT(60) DEF AmendmentsNext, Commit, SubmitEdit, SubmitDelete, SendRead, SendReaction, DropReaction,
       Receive, SyncRows, SyncMarks, SyncMerge, SyncReactions, SyncRefused, SyncEvents, Connect,
       Disconnect, Tell, TellOne, Answer, TellRead, ServeReaction,
       EchoReaction, RelayReaction, roads
  <2> QED BY <2>1
<1>2. SameCopy \/ Loud
  <2>1. CASE copy'[d] = copy[d]
    BY <2>1
  <2>2. CASE copy'[d] = [copy[d] EXCEPT !.on = ~copy[d].on]
    <3>1. SameCopy
      BY <1>0, <2>2 DEF Copies
    <3> QED BY <3>1
  <2>3. CASE copy'[d] = [copy[d] EXCEPT !.on = sync[d].on]
    <3>1. SameCopy
      BY <1>0, <2>3 DEF Copies
    <3> QED BY <3>1
  <2>4. CASE SubmitEdit(d) \/ Receive(d) \/ (SyncMerge(d) /\ sync[d].has) \/ \E p \in Procs : Answer(p)
    BY <2>4
  <2> HIDE DEF SameCopy, Loud
  <2> QED BY <2>1, <2>2, <2>3, <2>4, CopySteps
<1>3. MoreFrames \/ Loud
  <2>1. /\ \A v : Coming(d, v) <=> TextOf(inbox[d], v)
        /\ \A kind : Holds(d, kind) <=> KindOf(inbox[d], kind)
    BY QueueOf
  <2>2. ASSUME NEW f \in Frame, inbox'[d] = Append(inbox[d], f), told'[d] = told[d] PROVE MoreFrames
    BY <1>0, <2>1, <2>2, ViewsAppend
  <2>3. ASSUME inbox'[d] = inbox[d], told'[d] = told[d] PROVE MoreFrames
    BY <2>1, <2>3
  <2>4. ASSUME Commit(1), d \in conn PROVE MoreFrames
    <3>1. inbox'[d] = Append(inbox[d], [kind |-> "new"]) /\ told'[d] = told[d]
      BY <2>4 DEF Commit, history
    <3>2. [kind |-> "new"] \in Frame
      BY FrameKinds
    <3> QED BY <2>2, <3>1, <3>2
  <2>5. ASSUME NEW p \in Procs, Tell(p), d \in conn PROVE MoreFrames
    BY <2>3, <2>5, TellSteps
  <2>6. ASSUME NEW e \in Devices, EchoReaction(e) \/ RelayReaction(e) PROVE MoreFrames
    <3>1. told'[d] = told[d] /\ req[e].ver \in Nat
      BY <1>0, <2>6 DEF EchoReaction, RelayReaction, Jobs
    <3>2. PICK S : MarkTo(S, req[e].ver)
      BY <2>6 DEF EchoReaction, RelayReaction
    <3> DEFINE f == [kind |-> "react", seq |-> req[e].ver]
    <3>3. f \in Frame
      BY <3>1, FrameKinds
    <3>4. inbox'[d] = inbox[d] \/ inbox'[d] = Append(inbox[d], f)
      BY <3>1, <3>2, MarkToStep
    <3> HIDE DEF f, MoreFrames
    <3> QED BY <2>2, <2>3, <3>1, <3>3, <3>4
  <2>7. CASE Receive(d) \/ Disconnect(d) \/ Restart
    BY <2>7
  <2>8. ASSUME NEW p \in Procs, TellOne(p, d) \/ (Tell(p) /\ d \notin conn) PROVE Loud
    BY <2>8
  <2>9. ASSUME NEW e \in Devices, TellRead(e) PROVE Loud
    BY <2>9
  <2> HIDE DEF MoreFrames, Loud
  <2> QED BY <2>3, <2>4, <2>5, <2>6, <2>7, <2>8, <2>9, InboxSteps
<1>4. SameCopy /\ MoreFrames /\ row' = row /\ posts \subseteq posts' => Quiet(d)
  BY DEF Quiet
<1> HIDE DEF SameCopy, MoreFrames, Loud
<1>5. Quiet(d) \/ Loud
  BY <1>1, <1>2, <1>3, <1>4
<1> QED BY <1>5 DEF Loud

LEMMA StaysWrong ==
    ASSUME AmendTypes, Unsent, PagesTrue, NEW cleared \in [Devices -> Nat],
           AmendmentsNext(cleared) \/ Restart,
           NEW d \in Devices, ~Receive(d), ~(SyncMerge(d) /\ sync[d].has)
    PROVE  /\ amiss[d].text => amiss'[d].text
           /\ amiss[d].gone => amiss'[d].gone
           /\ amiss[d].read => amiss'[d].read
           /\ copy[d].there /\ OnPage(d) =>
                 OnPage(d)' \/ (amiss'[d].text /\ amiss'[d].gone /\ amiss'[d].read)
<1>1. /\ amiss[d].text => amiss'[d].text
      /\ amiss[d].gone => amiss'[d].gone
      /\ amiss[d].read => amiss'[d].read
  BY AmissStays
<1>2. ASSUME copy[d].there, OnPage(d)
      PROVE  OnPage(d)' \/ (amiss'[d].text /\ amiss'[d].gone /\ amiss'[d].read)
  <2>1. CASE OnPage(d)'
    BY <2>1
  <2>2. CASE SyncMarks(d, cleared[d]) /\ sync[d].has /\ ~(cleared[d] < 1)
    <3>1. cleared[d] >= 1
      BY <2>2
    <3>2. SyncMarks(d, cleared[d]) /\ sync[d].has /\ cleared[d] >= 1 /\ copy[d].there =>
             amiss'[d].text /\ amiss'[d].gone /\ amiss'[d].read
      BY AmissBySync
    <3> QED BY <1>2, <2>2, <3>1, <3>2
  <2> QED BY <1>2, <2>1, <2>2, PageStays
<1> QED BY <1>1, <1>2

\* A frame leaves the page where it is.
LEMMA PageOnReceive ==
    ASSUME NEW d \in Devices, Receive(d)
    PROVE  OnPage(d) => OnPage(d)'
BY DEF Receive, OnPage, PageComing, WillRead

\* Whatever was last told of the text, the copy has it, or it is still to come.
TextInv ==
    \A d \in Devices :
        copy[d].there /\ told[d].text = row.ver /\ ~row.deleted =>
            \/ copy[d].body = row.body \/ amiss[d].text
            \/ Coming(d, told[d].text) \/ OnPage(d)
            \/ \E q \in posts : q.op = "edit" /\ q.dev = d

LEMMA TextByFrame ==
    ASSUME AmendTypes, RowTrue, ToldTrue, InboxTrue, TextInv, NEW d \in Devices, Receive(d),
           copy'[d].there, told[d].text = row.ver, ~row.deleted
    PROVE  \/ copy'[d].body = row.body \/ amiss'[d].text
           \/ TextOf(inbox'[d], told[d].text) \/ OnPage(d)'
           \/ \E q \in posts : q.op = "edit" /\ q.dev = d
<1> DEFINE q == inbox[d]
           f == q[1]
           v == told[d].text
<1>0. /\ copy[d] \in Copies /\ q \in Seq(Frame) /\ q # << >> /\ inbox'[d] = Tail(q)
      /\ copy'[d] = Shown(copy[d], f)
  <2>1. copy \in [Devices -> Copies] /\ inbox \in [Devices -> Seq(Frame)]
    BY DEF AmendTypes, DeviceTypes, RoadTypes
  <2>2. q # << >> /\ inbox'[d] = Tail(q) /\ copy'[d] = Shown(copy[d], Head(q))
    BY <2>1 DEF Receive
  <2> QED BY <2>1, <2>2
<1>1. /\ f \in Frame /\ 1 \in 1 .. Len(q)
  BY <1>0
<1>2. /\ \A w : TextAfter(q, 1, w) <=> TextOf(Tail(q), w)
      /\ TextOf(q, v) => TextOf(Tail(q), v) \/ (IsText(f) /\ f.ver = v)
  BY <1>0, TailOfQueue, ViewsTail
<1>3. /\ f.kind = "new" => v = 0 \/ TextAfter(q, 1, v)
      /\ IsText(f) /\ ~f.crossed => f.ver = v \/ TextAfter(q, 1, v)
  BY <1>1 DEF InboxTrue, EndsWell
<1>4. /\ f.kind = "edit" /\ f.ver = row.ver => f.body = row.body
      /\ f.kind # "delete"
  BY <1>1 DEF InboxTrue, FramesTrue
<1>5. /\ IsText(f) => amiss'[d].text = f.crossed
      /\ ~IsText(f) => amiss'[d].text = amiss[d].text
  BY AmissBySync DEF IsText
<1>6. OnPage(d) => OnPage(d)'
  BY PageOnReceive
<1>7. TextOf(q, v) <=> Coming(d, v)
  BY QueueOf
<1>8. f.crossed \in BOOLEAN \/ ~IsText(f)
  BY <1>1 DEF Frame, Texts, Reacts, Signs, IsText
<1> HIDE DEF f
<1>9. CASE copy[d].there
  <2>1. copy'[d].body = IF f.kind = "edit" THEN f.body ELSE IF f.kind = "delete" THEN Gone ELSE copy[d].body
    BY <1>0, <1>1, <1>9, ShownThere
  <2>2. CASE IsText(f)
    BY <1>0, <1>2, <1>3, <1>4, <1>5, <1>8, <2>1, <2>2 DEF IsText
  <2>3. CASE ~IsText(f)
    <3>1. \/ copy[d].body = row.body \/ amiss[d].text
          \/ Coming(d, v) \/ OnPage(d) \/ \E p \in posts : p.op = "edit" /\ p.dev = d
      BY <1>9 DEF TextInv
    <3> QED BY <1>0, <1>2, <1>4, <1>5, <1>6, <1>7, <2>1, <2>3, <3>1 DEF IsText
  <2> QED BY <2>2, <2>3
<1>10. CASE ~copy[d].there
  <2>1. f.kind = "new" /\ copy'[d].body = 0
    BY <1>0, <1>1, <1>10, ShownNew
  <2>2. v = 0 => row.body = 0
    BY DEF RowTrue
  <2> QED BY <1>0, <1>2, <1>3, <2>1, <2>2
<1> QED BY <1>9, <1>10

LEMMA TextStep ==
    ASSUME AmendTypes, Unsent, Roles, JobsTrue, RowTrue, PagesTrue, ToldTrue, InboxTrue, TextInv,
           NEW cleared \in [Devices -> Nat], AmendmentsNext(cleared) \/ Restart
    PROVE  TextInv'
<1> SUFFICES ASSUME NEW d \in Devices, copy'[d].there, told'[d].text = row'.ver, ~row'.deleted
             PROVE  \/ copy'[d].body = row'.body \/ amiss'[d].text
                    \/ TextOf(inbox'[d], told'[d].text) \/ OnPage(d)'
                    \/ \E q \in posts' : q.op = "edit" /\ q.dev = d
  BY QueueOfNext DEF TextInv
<1> DEFINE Own(S) == \E q \in S : q.op = "edit" /\ q.dev = d
           G == \/ copy'[d].body = row'.body \/ amiss'[d].text
                \/ TextOf(inbox'[d], told'[d].text) \/ OnPage(d)' \/ Own(posts')
<1>0. /\ copy \in [Devices -> Copies] /\ row \in Rows /\ row' \in Rows /\ told[d] \in Tolds
      /\ told[d].text \in Nat /\ row.ver \in Nat /\ told[d].text <= row.ver
      /\ inbox[d] \in Seq(Frame)
  BY RowMovesOn DEF AmendTypes, DeviceTypes, HistoryTypes, RoadTypes, Tolds, Rows, ToldTrue
<1>1. copy[d].there /\ told[d].text = row.ver /\ ~row.deleted =>
            \/ copy[d].body = row.body \/ amiss[d].text
            \/ TextOf(inbox[d], told[d].text) \/ OnPage(d) \/ Own(posts)
  <2>1. TextOf(inbox[d], told[d].text) <=> Coming(d, told[d].text)
    BY QueueOf
  <2> QED BY <2>1 DEF TextInv
<1>2. ~Receive(d) /\ ~(SyncMerge(d) /\ sync[d].has) =>
         /\ amiss[d].text => amiss'[d].text
         /\ copy[d].there /\ OnPage(d) => OnPage(d)' \/ amiss'[d].text
  BY StaysWrong
<1>3. row.deleted => row'.deleted
  BY RowSteps
\* The copy, the row and what was told are the same: what came still comes.
<1>4. ASSUME copy[d].there, copy'[d].body = copy[d].body, row'.ver = row.ver, row'.body = row.body,
             told'[d].text = told[d].text,
             TextOf(inbox[d], told[d].text) => TextOf(inbox'[d], told[d].text),
             Own(posts) => Own(posts') \/ amiss'[d].text,
             ~Receive(d), ~(SyncMerge(d) /\ sync[d].has)
      PROVE  G
  BY <1>1, <1>2, <1>3, <1>4
<1>5. ASSUME Quiet(d), ~Receive(d), ~(SyncMerge(d) /\ sync[d].has) PROVE G
  <2>1. Coming(d, told[d].text) => TextOf(inbox'[d], told[d].text)
    BY <1>5 DEF Quiet
  <2>2. TextOf(inbox[d], told[d].text) <=> Coming(d, told[d].text)
    BY QueueOf
  <2> HIDE DEF G
  <2> QED BY <1>4, <1>5, <2>1, <2>2 DEF Quiet
<1>6. ASSUME SubmitEdit(d) PROVE G
  <2> DEFINE q == [op |-> "edit", body |-> changes + 1, dev |-> d]
  <2>1. q \in posts' /\ q.op = "edit" /\ q.dev = d
    BY <1>6 DEF SubmitEdit
  <2> QED BY <2>1
<1>7. ASSUME NEW q \in posts, LosePost(q), ~Receive(d), ~(SyncMerge(d) /\ sync[d].has) PROVE G
  <2>1. /\ copy' = copy /\ row' = row /\ told' = told /\ inbox' = inbox /\ posts' = posts \ {q}
    BY <1>7 DEF LosePost, device
  <2>2. q.op = "edit" /\ q.dev = d => amiss'[d].text
    BY <1>7, AmissByHandlers
  <2>3. Own(posts) => Own(posts') \/ amiss'[d].text
    BY <2>1, <2>2
  <2> HIDE DEF G, Own
  <2> QED BY <1>4, <1>7, <2>1, <2>3
<1>8. ASSUME NEW q \in posts, NEW p \in Procs, Amend(p, q) PROVE FALSE
  <2>1. row'.ver = row.ver + 1 /\ told' = told
    BY <1>0, <1>8 DEF Amend, Rows, history
  <2> QED BY <1>0, <2>1
<1>9. ASSUME NEW p \in Procs, Tell(p), d \notin conn, ~Receive(d), ~(SyncMerge(d) /\ sync[d].has) PROVE G
  <2>1. /\ copy' = copy /\ row' = row /\ posts' = posts /\ inbox' = inbox /\ conn' = conn
        /\ sync' = sync /\ cursor' = cursor
    BY <1>9 DEF Tell, device, roads
  <2>2. told'[d].text = told[d].text \/ req[p].ver > told[d].text
    <3>1. told'[d] = ToldOf(d, req[p])
      BY <1>9, TellSteps
    <3> QED BY <3>1, ToldOfIs
  <2>3. CASE told'[d].text = told[d].text
    <3> HIDE DEF G, Own
    <3> QED BY <1>4, <1>9, <2>1, <2>3
  <2>4. CASE req[p].ver > told[d].text
    <3>1. Loses(d) => amiss'[d].text
      BY <1>9, <2>4, AmissByHandlers
    <3>2. ~Loses(d) => OnPage(d)'
      BY <1>9, <2>1, NotLost
    <3> QED BY <3>1, <3>2
  <2> QED BY <2>2, <2>3, <2>4
<1>10. ASSUME NEW p \in Procs, TellOne(p, d), ~Receive(d), ~(SyncMerge(d) /\ sync[d].has) PROVE G
  <2>1. copy' = copy /\ row' = row /\ posts' = posts
    BY <1>10 DEF TellOne, device
  <2>2. PICK f \in Texts : f.ver = req[p].ver /\ inbox'[d] = Append(inbox[d], f)
    BY <1>10, TellSteps
  <2>3. told'[d].text = told[d].text \/ told'[d].text = f.ver
    <3>1. told'[d] = ToldOf(d, req[p])
      BY <1>10, TellSteps
    <3> QED BY <2>2, <3>1, ToldOfIs
  <2>4. f \in Frame /\ IsText(f)
    BY FrameKinds DEF Texts, IsText
  <2>5. \A v : TextOf(inbox'[d], v) <=> TextOf(inbox[d], v) \/ f.ver = v
    BY <1>0, <2>2, <2>4, ViewsAppend
  <2>6. CASE told'[d].text = told[d].text
    <3>1. TextOf(inbox[d], told[d].text) => TextOf(inbox'[d], told[d].text)
      BY <2>5
    <3> HIDE DEF G, Own
    <3> QED BY <1>4, <1>10, <2>1, <2>6, <3>1
  <2>7. CASE told'[d].text = f.ver
    BY <2>5, <2>7
  <2> QED BY <2>3, <2>6, <2>7
<1>11. ASSUME NEW p \in Procs, Answer(p), ~Receive(d), ~(SyncMerge(d) /\ sync[d].has) PROVE G
  <2>1. row' = row /\ told' = told /\ posts' = posts /\ inbox' = inbox
    BY <1>11 DEF Answer, roads, history
  <2>2. CASE req[p].op = "delete"
    <3>1. row.deleted
      BY <1>11, <2>2 DEF JobsTrue, Answer
    <3> QED BY <2>1, <3>1
  <2>3. CASE req[p].op # "delete"
    <3>1. copy' = copy
      BY <1>11, <2>3 DEF Answer
    <3> HIDE DEF G, Own
    <3> QED BY <1>4, <1>11, <2>1, <3>1
  <2> QED BY <2>2, <2>3
<1>12. ASSUME NEW e \in Devices, ServeRead(e) \/ TellRead(e), ~Receive(d), ~(SyncMerge(d) /\ sync[d].has) PROVE G
  <2>1. copy' = copy /\ posts' = posts /\ row'.ver = row.ver /\ row'.body = row.body
    BY <1>0, <1>12 DEF ServeRead, TellRead, device, Rows
  <2>2. told'[d].text = told[d].text
    <3>1. ServeRead(e) => told' = told
      BY DEF ServeRead, history
    <3> QED BY <1>12, <3>1, TellReadStep
  <2>3. TextOf(inbox[d], told[d].text) => TextOf(inbox'[d], told[d].text)
    <3>1. ServeRead(e) => inbox' = inbox
      BY DEF ServeRead
    <3>2. inbox'[d] = inbox[d] \/ inbox'[d] = Append(inbox[d], [kind |-> "read"])
      BY <1>12, <3>1, TellReadStep
    <3>3. [kind |-> "read"] \in Frame
      BY FrameKinds
    <3>4. inbox'[d] = Append(inbox[d], [kind |-> "read"]) =>
             (TextOf(inbox[d], told[d].text) => TextOf(inbox'[d], told[d].text))
      BY <1>0, <3>3, ViewsAppend
    <3> QED BY <3>2, <3>4
  <2> HIDE DEF G, Own
  <2> QED BY <1>4, <1>12, <2>1, <2>2, <2>3
<1>13. ASSUME Receive(d) PROVE G
  <2>1. row' = row /\ told' = told /\ posts' = posts
    BY <1>13 DEF Receive
  <2>2. \/ copy'[d].body = row.body \/ amiss'[d].text
        \/ TextOf(inbox'[d], told[d].text) \/ OnPage(d)' \/ Own(posts)
    BY <1>13, <2>1, TextByFrame
  <2> QED BY <2>1, <2>2
<1>14. ASSUME SyncMerge(d), sync[d].has PROVE G
  <2>1. /\ row' = row /\ told' = told /\ inbox' = inbox /\ sync[d].at = "page" /\ sync[d].ver \in Nat
        /\ copy'[d].body = sync[d].body
    <3>1. row' = row /\ told' = told /\ inbox' = inbox /\ sync[d].at = "page"
      BY <1>14 DEF SyncMerge, roads
    <3>2. sync[d].ver \in Nat
      BY DEF AmendTypes, DeviceTypes, Syncs
    <3>3. copy'[d] = [there |-> TRUE, body |-> sync[d].body, deleted |-> sync[d].deleted,
                      read |-> sync[d].read, on |-> sync[d].on]
      BY <1>0, <1>14 DEF SyncMerge
    <3> QED BY <3>1, <3>2, <3>3
  <2>2. /\ sync[d].ver <= row.ver
        /\ sync[d].ver = row.ver /\ ~row.deleted => sync[d].body = row.body
    BY <2>1 DEF PagesTrue, PageText
  <2>3. CASE sync[d].ver < told[d].text
    <3>1. amiss'[d].text \/ Coming(d, told[d].text)
      BY <1>14, <2>3, AmissBySync
    <3>2. Coming(d, told[d].text) => TextOf(inbox[d], told[d].text)
      BY QueueOf
    <3> QED BY <2>1, <3>1, <3>2
  <2>4. CASE ~(sync[d].ver < told[d].text)
    BY <1>0, <2>1, <2>2, <2>4
  <2> QED BY <2>3, <2>4
<1>15. ASSUME Disconnect(d), ~Receive(d), ~(SyncMerge(d) /\ sync[d].has) PROVE G
  <2>1. /\ copy' = copy /\ row' = row /\ posts' = posts /\ told' = told
        /\ sync' = sync /\ cursor' = cursor /\ d \notin conn'
    BY <1>15 DEF Disconnect, device
  <2>2. CASE TextOf(inbox[d], told[d].text)
    <3>1. Loses(d) => amiss'[d].text
      <4>1. Coming(d, told[d].text)
        BY <2>2, QueueOf
      <4> QED BY <1>15, <4>1, AmissByBreaks
    <3>2. ~Loses(d) => OnPage(d)'
      BY <2>1, NotLost
    <3> QED BY <3>1, <3>2
  <2>3. CASE ~TextOf(inbox[d], told[d].text)
    <3> HIDE DEF G, Own
    <3> QED BY <1>4, <1>15, <2>1, <2>3
  <2> QED BY <2>2, <2>3
<1>16. ASSUME Restart, ~Receive(d), ~(SyncMerge(d) /\ sync[d].has) PROVE G
  <2>1. copy' = copy /\ row' = row
    BY <1>16 DEF Restart
  <2>2. ~Loses(d) => OnPage(d)'
    BY <1>16, <2>1, NotLostByRestart
  <2>3. CASE LosesAll(d) /\ row.ver > told[d].text
    BY <1>16, <2>3, AmissByBreaks
  <2>4. CASE ~LosesAll(d)
    BY <1>16, <2>1, <2>4, NotLostByRestart
  <2>5. CASE ~(row.ver > told[d].text)
    <3>1. told[d].text = row.ver
      BY <1>0, <2>5
    <3>2. CASE TextOf(inbox[d], told[d].text) /\ Loses(d)
      <4>1. Coming(d, told[d].text)
        BY <3>2, QueueOf
      <4> QED BY <1>16, <3>2, <4>1, AmissByBreaks
    <3>3. Own(posts) => amiss'[d].text
      BY <1>16, AmissByBreaks
    <3> QED BY <1>1, <1>2, <1>16, <2>1, <2>2, <3>1, <3>2, <3>3
  <2> QED BY <2>3, <2>4, <2>5
<1> HIDE DEF G
<1>17. G
  <2>1. CASE Receive(d)
    BY <1>13, <2>1
  <2>2. CASE SyncMerge(d) /\ sync[d].has
    BY <1>14, <2>2
  <2>3. CASE ~Receive(d) /\ ~(SyncMerge(d) /\ sync[d].has)
    BY <1>5, <1>6, <1>7, <1>8, <1>9, <1>10, <1>11, <1>12, <1>15, <1>16, <2>3, QuietSteps
  <2> QED BY <2>1, <2>2, <2>3
<1> QED BY <1>17 DEF G

\* And of the deletion, and of its being read.
GoneInv ==
    \A d \in Devices : copy[d].there /\ told[d].gone =>
        copy[d].deleted \/ amiss[d].gone \/ Holds(d, "delete") \/ OnPage(d)
ReadInv ==
    \A d \in Authors : copy[d].there /\ told[d].read =>
        copy[d].read \/ amiss[d].read \/ Holds(d, "read") \/ OnPage(d)

\* What a frame makes of the two.
LEMMA SeenByFrame ==
    ASSUME AmendTypes, InboxTrue, GoneInv, ReadInv, NEW d \in Devices, Receive(d), copy'[d].there
    PROVE  /\ told[d].gone => \/ copy'[d].deleted \/ amiss'[d].gone
                              \/ KindOf(inbox'[d], "delete") \/ OnPage(d)'
           /\ told[d].read /\ d \in Authors => \/ copy'[d].read \/ amiss'[d].read
                                               \/ KindOf(inbox'[d], "read") \/ OnPage(d)'
<1> DEFINE q == inbox[d]
           f == q[1]
<1>0. /\ copy[d] \in Copies /\ q \in Seq(Frame) /\ q # << >> /\ inbox'[d] = Tail(q)
      /\ copy'[d] = Shown(copy[d], f)
  <2>1. copy \in [Devices -> Copies] /\ inbox \in [Devices -> Seq(Frame)]
    BY DEF AmendTypes, DeviceTypes, RoadTypes
  <2>2. q # << >> /\ inbox'[d] = Tail(q) /\ copy'[d] = Shown(copy[d], Head(q))
    BY <2>1 DEF Receive
  <2> QED BY <2>1, <2>2
<1>1. f \in Frame /\ 1 \in 1 .. Len(q)
  BY <1>0
<1>2. /\ \A k : KindAfter(q, 1, k) <=> KindOf(Tail(q), k)
      /\ KindOf(q, "delete") => KindOf(Tail(q), "delete") \/ f.kind = "delete"
      /\ KindOf(q, "read") => KindOf(Tail(q), "read") \/ f.kind = "read"
  BY <1>0, TailOfQueue, ViewsTail
<1>3. /\ f.kind = "new" /\ told[d].gone => KindAfter(q, 1, "delete")
      /\ f.kind = "new" /\ told[d].read /\ d \in Authors => KindAfter(q, 1, "read")
  BY <1>1 DEF InboxTrue, EndsWell
<1>4. /\ amiss[d].gone => amiss'[d].gone \/ f.kind = "delete"
      /\ amiss[d].read => amiss'[d].read \/ f.kind = "read"
  BY AmissBySync
<1>5. OnPage(d) => OnPage(d)'
  BY PageOnReceive
<1>6. (KindOf(q, "delete") <=> Holds(d, "delete")) /\ (KindOf(q, "read") <=> Holds(d, "read"))
  BY QueueOf
<1> HIDE DEF f, q
<1>7. CASE copy[d].there
  <2>1. /\ copy'[d].deleted = (copy[d].deleted \/ f.kind = "delete")
        /\ copy'[d].read = (copy[d].read \/ f.kind = "read")
    BY <1>0, <1>1, <1>7, ShownThere
  <2>2. /\ told[d].gone =>
              copy[d].deleted \/ amiss[d].gone \/ Holds(d, "delete") \/ OnPage(d)
        /\ told[d].read /\ d \in Authors =>
              copy[d].read \/ amiss[d].read \/ Holds(d, "read") \/ OnPage(d)
    BY <1>7 DEF GoneInv, ReadInv
  <2> QED BY <1>0, <1>2, <1>4, <1>5, <1>6, <2>1, <2>2
<1>8. CASE ~copy[d].there
  <2>1. f.kind = "new"
    BY <1>0, <1>1, <1>8, ShownNew
  <2> QED BY <1>0, <1>2, <1>3, <2>1
<1> QED BY <1>7, <1>8

\* What a page makes of them.
LEMMA SeenByPage ==
    ASSUME AmendTypes, NEW d \in Devices, SyncMerge(d), sync[d].has
    PROVE  /\ told' = told
           /\ told[d].gone => copy'[d].deleted \/ amiss'[d].gone \/ KindOf(inbox'[d], "delete")
           /\ told[d].read => copy'[d].read \/ amiss'[d].read \/ KindOf(inbox'[d], "read")
<1>1. told' = told /\ inbox' = inbox
  BY DEF SyncMerge, roads
<1>2. copy'[d].deleted = sync[d].deleted /\ copy'[d].read = sync[d].read
  <2>1. copy \in [Devices -> Copies]
    BY DEF AmendTypes, DeviceTypes
  <2>2. copy'[d] = [there |-> TRUE, body |-> sync[d].body, deleted |-> sync[d].deleted,
                    read |-> sync[d].read, on |-> sync[d].on]
    BY <2>1 DEF SyncMerge
  <2> QED BY <2>2
<1>3. /\ told[d].gone => sync[d].deleted \/ amiss'[d].gone \/ Holds(d, "delete")
      /\ told[d].read => sync[d].read \/ amiss'[d].read \/ Holds(d, "read")
  BY AmissBySync
<1> QED BY <1>1, <1>2, <1>3, QueueOf

LEMMA GoneStep ==
    ASSUME AmendTypes, Unsent, Roles, PagesTrue, InboxTrue, GoneInv, ReadInv,
           NEW cleared \in [Devices -> Nat], AmendmentsNext(cleared) \/ Restart
    PROVE  GoneInv'
<1> SUFFICES ASSUME NEW d \in Devices, copy'[d].there, told'[d].gone
             PROVE  \/ copy'[d].deleted \/ amiss'[d].gone
                    \/ KindOf(inbox'[d], "delete") \/ OnPage(d)'
  BY QueueOfNext DEF GoneInv
<1> DEFINE G == copy'[d].deleted \/ amiss'[d].gone \/ KindOf(inbox'[d], "delete") \/ OnPage(d)'
           other == ~Receive(d) /\ ~(SyncMerge(d) /\ sync[d].has)
<1>0. copy \in [Devices -> Copies] /\ copy[d] \in Copies /\ inbox[d] \in Seq(Frame)
  BY DEF AmendTypes, DeviceTypes, RoadTypes
<1>1. copy[d].there /\ told[d].gone =>
            copy[d].deleted \/ amiss[d].gone \/ KindOf(inbox[d], "delete") \/ OnPage(d)
  BY QueueOf DEF GoneInv
<1>2. other => /\ amiss[d].gone => amiss'[d].gone
               /\ copy[d].there /\ OnPage(d) => OnPage(d)' \/ amiss'[d].gone
  BY StaysWrong
<1>3. ASSUME copy[d].there, copy[d].deleted => copy'[d].deleted, told'[d].gone = told[d].gone,
             KindOf(inbox[d], "delete") => KindOf(inbox'[d], "delete"), other
      PROVE  G
  BY <1>1, <1>2, <1>3
<1>4. ASSUME Quiet(d), other PROVE G
  <2>1. KindOf(inbox[d], "delete") => KindOf(inbox'[d], "delete")
    <3>1. Holds(d, "delete") => KindOf(inbox'[d], "delete")
      BY <1>4 DEF Quiet
    <3> QED BY <3>1, QueueOf
  <2> HIDE DEF G, other
  <2> QED BY <1>3, <1>4, <2>1 DEF Quiet
<1>5. ASSUME SubmitEdit(d), other PROVE G
  <2>1. told' = told /\ inbox' = inbox /\ copy[d].there /\ copy'[d].deleted = copy[d].deleted
    BY <1>0, <1>5 DEF SubmitEdit, history, Copies
  <2> HIDE DEF G, other
  <2> QED BY <1>3, <1>5, <2>1
<1>6. ASSUME NEW q \in posts, LosePost(q) \/ \E p \in Procs : Amend(p, q), other PROVE G
  <2>1. copy' = copy /\ told' = told /\ inbox' = inbox
    BY <1>6 DEF LosePost, Amend, device, history
  <2> HIDE DEF G, other
  <2> QED BY <1>3, <1>6, <2>1
<1>7. ASSUME NEW p \in Procs, Tell(p), d \notin conn, other PROVE G
  <2>1. copy' = copy /\ inbox' = inbox /\ conn' = conn /\ sync' = sync /\ cursor' = cursor
    BY <1>7 DEF Tell, device, roads
  <2>2. told'[d].gone = (told[d].gone \/ req[p].op = "delete")
    <3>1. told'[d] = ToldOf(d, req[p])
      BY <1>7, TellSteps
    <3> QED BY <3>1, ToldOfIs
  <2>3. CASE req[p].op = "delete"
    <3>1. Loses(d) => amiss'[d].gone
      BY <1>7, <2>3, AmissByHandlers
    <3>2. ~Loses(d) => OnPage(d)'
      BY <1>7, <2>1, NotLost
    <3> QED BY <3>1, <3>2
  <2>4. CASE req[p].op # "delete"
    <3>1. told'[d].gone = told[d].gone
      <4>1. told[d].gone \in BOOLEAN
        BY DEF AmendTypes, HistoryTypes, Tolds
      <4> QED BY <2>2, <2>4, <4>1
    <3> HIDE DEF G, other
    <3> QED BY <1>3, <1>7, <2>1, <3>1
  <2> QED BY <2>3, <2>4
<1>8. ASSUME NEW p \in Procs, TellOne(p, d), other PROVE G
  <2>1. copy' = copy
    BY <1>8 DEF TellOne, device
  <2>2. PICK f \in Texts : f.kind = req[p].op /\ inbox'[d] = Append(inbox[d], f)
    BY <1>8, TellSteps
  <2>3. told'[d].gone = (told[d].gone \/ req[p].op = "delete")
    <3>1. told'[d] = ToldOf(d, req[p])
      BY <1>8, TellSteps
    <3> QED BY <3>1, ToldOfIs
  <2>4. f \in Frame
    BY FrameKinds
  <2>5. \A k : KindOf(inbox'[d], k) <=> KindOf(inbox[d], k) \/ f.kind = k
    BY <1>0, <2>2, <2>4, ViewsAppend
  <2>6. CASE req[p].op = "delete"
    BY <2>2, <2>5, <2>6
  <2>7. CASE req[p].op # "delete"
    <3>1. told'[d].gone = told[d].gone
      <4>1. told[d].gone \in BOOLEAN
        BY DEF AmendTypes, HistoryTypes, Tolds
      <4> QED BY <2>3, <2>7, <4>1
    <3>2. KindOf(inbox[d], "delete") => KindOf(inbox'[d], "delete")
      BY <2>5
    <3> HIDE DEF G, other
    <3> QED BY <1>3, <1>8, <2>1, <3>1, <3>2
  <2> QED BY <2>6, <2>7
<1>9. ASSUME NEW p \in Procs, Answer(p), other PROVE G
  <2>1. told' = told /\ inbox' = inbox
    BY <1>9 DEF Answer, roads, history
  <2>2. copy'[d] = copy[d] \/ copy'[d] = [copy[d] EXCEPT !.deleted = TRUE, !.body = Gone]
    BY <1>0, <1>9 DEF Answer
  <2>3. CASE copy'[d] = copy[d]
    <3> HIDE DEF G, other
    <3> QED BY <1>3, <1>9, <2>1, <2>3
  <2>4. CASE copy'[d] = [copy[d] EXCEPT !.deleted = TRUE, !.body = Gone]
    <3>1. copy'[d].deleted
      BY <1>0, <2>4 DEF Copies
    <3> QED BY <3>1
  <2> QED BY <2>2, <2>3, <2>4
<1>10. ASSUME NEW e \in Devices, ServeRead(e) \/ TellRead(e), other PROVE G
  <2>1. copy' = copy
    BY <1>10 DEF ServeRead, TellRead, device
  <2>2. told'[d].gone = told[d].gone
    <3>1. ServeRead(e) => told' = told
      BY DEF ServeRead, history
    <3> QED BY <1>10, <3>1, TellReadStep
  <2>3. KindOf(inbox[d], "delete") => KindOf(inbox'[d], "delete")
    <3>1. ServeRead(e) => inbox' = inbox
      BY DEF ServeRead
    <3>2. inbox'[d] = inbox[d] \/ inbox'[d] = Append(inbox[d], [kind |-> "read"])
      BY <1>10, <3>1, TellReadStep
    <3>3. [kind |-> "read"] \in Frame
      BY FrameKinds
    <3>4. inbox'[d] = Append(inbox[d], [kind |-> "read"]) =>
             (KindOf(inbox[d], "delete") => KindOf(inbox'[d], "delete"))
      BY <1>0, <3>3, ViewsAppend
    <3> QED BY <3>2, <3>4
  <2> HIDE DEF G, other
  <2> QED BY <1>3, <1>10, <2>1, <2>2, <2>3
<1>11. ASSUME Receive(d) PROVE G
  <2>1. told' = told
    BY <1>11 DEF Receive
  <2> QED BY <1>11, <2>1, SeenByFrame
<1>12. ASSUME SyncMerge(d), sync[d].has PROVE G
  BY <1>12, SeenByPage
<1>13. ASSUME Disconnect(d), other PROVE G
  <2>1. /\ copy' = copy /\ told' = told
        /\ sync' = sync /\ cursor' = cursor /\ d \notin conn'
    BY <1>13 DEF Disconnect, device
  <2>2. CASE KindOf(inbox[d], "delete")
    <3>1. Loses(d) => amiss'[d].gone
      <4>1. Holds(d, "delete")
        BY <2>2, QueueOf
      <4> QED BY <1>13, <4>1, AmissByBreaks
    <3>2. ~Loses(d) => OnPage(d)'
      BY <2>1, NotLost
    <3> QED BY <3>1, <3>2
  <2>3. CASE ~KindOf(inbox[d], "delete")
    <3> HIDE DEF G, other
    <3> QED BY <1>3, <1>13, <2>1, <2>3
  <2> QED BY <2>2, <2>3
<1>14. ASSUME Restart PROVE G
  <2>1. copy' = copy /\ row.deleted
    <3>1. told'[d] = [text |-> row.ver, gone |-> row.deleted, read |-> row.read]
      BY <1>14 DEF Restart
    <3> QED BY <1>14, <3>1 DEF Restart
  <2>2. CASE LosesAll(d)
    BY <1>14, <2>1, <2>2, AmissByBreaks
  <2>3. CASE ~LosesAll(d)
    BY <1>14, <2>1, <2>3, NotLostByRestart
  <2> QED BY <2>2, <2>3
<1> HIDE DEF G, other
<1>15. G
  <2>1. CASE Receive(d)
    BY <1>11, <2>1
  <2>2. CASE SyncMerge(d) /\ sync[d].has
    BY <1>12, <2>2
  <2>3. CASE ~Receive(d) /\ ~(SyncMerge(d) /\ sync[d].has)
    <3>1. other
      BY <2>3 DEF other
    <3> QED BY <1>4, <1>5, <1>6, <1>7, <1>8, <1>9, <1>10, <1>13, <1>14, <2>3, <3>1, QuietSteps
  <2> QED BY <2>1, <2>2, <2>3
<1> QED BY <1>15 DEF G

LEMMA ReadStep ==
    ASSUME AmendTypes, Unsent, PagesTrue, InboxTrue, GoneInv, ReadInv,
           NEW cleared \in [Devices -> Nat], AmendmentsNext(cleared) \/ Restart
    PROVE  ReadInv'
<1> SUFFICES ASSUME NEW d \in Authors, copy'[d].there, told'[d].read
             PROVE  \/ copy'[d].read \/ amiss'[d].read
                    \/ KindOf(inbox'[d], "read") \/ OnPage(d)'
  BY QueueOfNext DEF ReadInv
<1> DEFINE G == copy'[d].read \/ amiss'[d].read \/ KindOf(inbox'[d], "read") \/ OnPage(d)'
           other == ~Receive(d) /\ ~(SyncMerge(d) /\ sync[d].has)
<1>0. /\ d \in Devices /\ copy \in [Devices -> Copies] /\ copy[d] \in Copies
      /\ inbox[d] \in Seq(Frame)
  BY DEF AmendTypes, DeviceTypes, RoadTypes, Devices
<1>1. copy[d].there /\ told[d].read =>
            copy[d].read \/ amiss[d].read \/ KindOf(inbox[d], "read") \/ OnPage(d)
  BY QueueOf DEF ReadInv
<1>2. other => /\ amiss[d].read => amiss'[d].read
               /\ copy[d].there /\ OnPage(d) => OnPage(d)' \/ amiss'[d].read
  BY <1>0, StaysWrong
<1>3. ASSUME copy[d].there, copy[d].read => copy'[d].read, told'[d].read = told[d].read,
             KindOf(inbox[d], "read") => KindOf(inbox'[d], "read"), other
      PROVE  G
  BY <1>1, <1>2, <1>3
<1>4. ASSUME Quiet(d), other PROVE G
  <2>1. KindOf(inbox[d], "read") => KindOf(inbox'[d], "read")
    <3>1. Holds(d, "read") => KindOf(inbox'[d], "read")
      BY <1>4 DEF Quiet
    <3> QED BY <3>1, QueueOf
  <2> HIDE DEF G, other
  <2> QED BY <1>3, <1>4, <2>1 DEF Quiet
<1>5. ASSUME SubmitEdit(d), other PROVE G
  <2>1. told' = told /\ inbox' = inbox /\ copy[d].there /\ copy'[d].read = copy[d].read
    BY <1>0, <1>5 DEF SubmitEdit, history, Copies
  <2> HIDE DEF G, other
  <2> QED BY <1>3, <1>5, <2>1
<1>6. ASSUME NEW q \in posts, LosePost(q) \/ \E p \in Procs : Amend(p, q), other PROVE G
  <2>1. copy' = copy /\ told' = told /\ inbox' = inbox
    BY <1>6 DEF LosePost, Amend, device, history
  <2> HIDE DEF G, other
  <2> QED BY <1>3, <1>6, <2>1
<1>7. ASSUME NEW p \in Procs, Tell(p), d \notin conn, other PROVE G
  <2>1. copy' = copy /\ inbox' = inbox
    BY <1>7 DEF Tell, device, roads
  <2>2. told'[d].read = told[d].read
    <3>1. told'[d] = ToldOf(d, req[p])
      BY <1>0, <1>7, TellSteps
    <3> QED BY <1>0, <3>1, ToldOfIs
  <2> HIDE DEF G, other
  <2> QED BY <1>3, <1>7, <2>1, <2>2
<1>8. ASSUME NEW p \in Procs, TellOne(p, d), other PROVE G
  <2>1. copy' = copy
    BY <1>8 DEF TellOne, device
  <2>2. PICK f \in Texts : inbox'[d] = Append(inbox[d], f)
    BY <1>0, <1>8, TellSteps
  <2>3. told'[d].read = told[d].read
    <3>1. told'[d] = ToldOf(d, req[p])
      BY <1>0, <1>8, TellSteps
    <3> QED BY <1>0, <3>1, ToldOfIs
  <2>4. f \in Frame
    BY FrameKinds
  <2>5. KindOf(inbox[d], "read") => KindOf(inbox'[d], "read")
    BY <1>0, <2>2, <2>4, ViewsAppend
  <2> HIDE DEF G, other
  <2> QED BY <1>3, <1>8, <2>1, <2>3, <2>5
<1>9. ASSUME NEW p \in Procs, Answer(p), other PROVE G
  <2>1. told' = told /\ inbox' = inbox
    BY <1>9 DEF Answer, roads, history
  <2>2. copy'[d] = copy[d] \/ copy'[d] = [copy[d] EXCEPT !.deleted = TRUE, !.body = Gone]
    BY <1>0, <1>9 DEF Answer
  <2>3. copy'[d].there = copy[d].there /\ copy'[d].read = copy[d].read
    BY <1>0, <2>2 DEF Copies
  <2> HIDE DEF G, other
  <2> QED BY <1>3, <1>9, <2>1, <2>3
<1>10. ASSUME NEW e \in Devices, ServeRead(e), other PROVE G
  <2>1. copy' = copy /\ inbox' = inbox /\ told' = told
    BY <1>10 DEF ServeRead, device, history
  <2> HIDE DEF G, other
  <2> QED BY <1>3, <1>10, <2>1
\* The acknowledgement goes to the devices of the author that are there.
<1>11. ASSUME NEW e \in Devices, TellRead(e), other PROVE G
  <2>1. copy' = copy /\ conn' = conn /\ sync' = sync /\ cursor' = cursor
    BY <1>11 DEF TellRead, device
  <2>2. CASE d \in conn
    <3>1. inbox'[d] = Append(inbox[d], [kind |-> "read"])
      BY <1>0, <1>11, <2>2, TellReadStep
    <3>2. [kind |-> "read"] \in Frame
      BY FrameKinds
    <3>3. KindOf(inbox'[d], "read")
      BY <1>0, <3>1, <3>2, ViewsAppend
    <3> QED BY <3>3
  <2>3. CASE d \notin conn
    <3>1. Loses(d) => copy[d].read \/ amiss'[d].read
      BY <1>0, <1>11, <2>3, AmissByHandlers
    <3>2. ~Loses(d) => OnPage(d)'
      BY <1>0, <2>1, <2>3, NotLost
    <3> QED BY <2>1, <3>1, <3>2
  <2> QED BY <2>2, <2>3
<1>12. ASSUME Receive(d) PROVE G
  <2>1. told' = told
    BY <1>12 DEF Receive
  <2> QED BY <1>0, <1>12, <2>1, SeenByFrame
<1>13. ASSUME SyncMerge(d), sync[d].has PROVE G
  BY <1>0, <1>13, SeenByPage
<1>14. ASSUME Disconnect(d), other PROVE G
  <2>1. /\ copy' = copy /\ told' = told
        /\ sync' = sync /\ cursor' = cursor /\ d \notin conn'
    BY <1>14 DEF Disconnect, device
  <2>2. CASE KindOf(inbox[d], "read")
    <3>1. Loses(d) => amiss'[d].read
      <4>1. Holds(d, "read")
        BY <2>2, QueueOf
      <4> QED BY <1>0, <1>14, <4>1, AmissByBreaks
    <3>2. ~Loses(d) => OnPage(d)'
      BY <1>0, <2>1, NotLost
    <3> QED BY <3>1, <3>2
  <2>3. CASE ~KindOf(inbox[d], "read")
    <3> HIDE DEF G, other
    <3> QED BY <1>3, <1>14, <2>1, <2>3
  <2> QED BY <2>2, <2>3
<1>15. ASSUME Restart PROVE G
  <2>1. copy' = copy /\ row.read
    <3>1. told'[d] = [text |-> row.ver, gone |-> row.deleted, read |-> row.read]
      BY <1>0, <1>15 DEF Restart
    <3> QED BY <1>15, <3>1 DEF Restart
  <2>2. CASE LosesAll(d)
    BY <1>0, <1>15, <2>1, <2>2, AmissByBreaks
  <2>3. CASE ~LosesAll(d)
    BY <1>0, <1>15, <2>1, <2>3, NotLostByRestart
  <2> QED BY <2>2, <2>3
<1> HIDE DEF G, other
<1>16. G
  <2>1. CASE Receive(d)
    BY <1>12, <2>1
  <2>2. CASE SyncMerge(d) /\ sync[d].has
    BY <1>13, <2>2
  <2>3. CASE ~Receive(d) /\ ~(SyncMerge(d) /\ sync[d].has)
    <3>1. other
      BY <2>3 DEF other
    <3> QED BY <1>0, <1>4, <1>5, <1>6, <1>7, <1>8, <1>9, <1>10, <1>11, <1>14, <1>15, <2>3, <3>1,
               QuietSteps
  <2> QED BY <2>1, <2>2, <2>3
<1> QED BY <1>16 DEF G

-----------------------------------------------------------------------------
(* The reactions a device has yet to be told of *)

Carries(e) == req[e].at \in {"echo", "relay"}

\* Every upsert is told by the read loop that did it, and by no other.
JobsOnce ==
    /\ \A e \in Devices : Carries(e) => req[e].ver \in 1 .. mark.seq
    /\ \A e, o \in Devices : e # o /\ Carries(e) /\ Carries(o) => req[e].ver # req[o].ver

\* What each step makes of a read loop.
LEMMA LoopsOf ==
    ASSUME AmendTypes, Roles, NEW cleared, AmendmentsNext(cleared) \/ Restart, NEW e \in Devices
    PROVE  \/ req'[e] = req[e]
           \/ EchoReaction(e) /\ req[e].at = "echo" /\ req'[e].at = "relay" /\ req'[e].ver = req[e].ver
           \/ RelayReaction(e) /\ req[e].at = "relay" /\ req'[e] = Idle
           \/ ServeReaction(e) /\ req[e].at = "idle" /\ req'[e].at = "echo" /\ req'[e].ver = mark.seq + 1
           \/ ~Carries(e) /\ req'[e].at \in {"ack", "idle"}
           \/ Restart /\ req'[e] = Idle
<1>0. Procs \cap Devices = {}
  BY ProcsAndDevices
<1>1. ASSUME NEW p \in Procs, NEW q \in posts, Amend(p, q) PROVE req'[e] = req[e]
  <2>1. \A o \in (Procs \cup Devices) \ {p} : req'[o] = req[o]
    BY <1>1, HandlerSteps
  <2> QED BY <1>0, <2>1
<1>2. ASSUME NEW p \in Procs, Tell(p) \/ Answer(p) \/ \E d \in Devices : TellOne(p, d)
      PROVE  req'[e] = req[e]
  <2>1. \A o \in (Procs \cup Devices) \ {p} : req'[o] = req[o]
    BY <1>2, HandlerSteps
  <2> QED BY <1>0, <2>1
<1>3. ASSUME NEW d \in Devices, d # e,
             TellRead(d) \/ RelayReaction(d) \/ EchoReaction(d) \/ ServeReaction(d) \/ (ServeRead(d) /\ ~row.read)
      PROVE  req'[e] = req[e]
  <2>1. \A o \in (Procs \cup Devices) \ {d} : req'[o] = req[o]
    BY <1>3, LoopSteps
  <2> QED BY <1>3, <2>1
<1>4. ASSUME TellRead(e) PROVE ~Carries(e) /\ req'[e].at \in {"ack", "idle"}
  <2>1. req[e].at = "ack" /\ req'[e] = Idle
    BY <1>4, LoopSteps
  <2> QED BY <2>1 DEF Carries, Idle
<1>5. ASSUME ServeRead(e), ~row.read PROVE ~Carries(e) /\ req'[e].at \in {"ack", "idle"}
  <2>1. req[e].at = "idle" /\ req'[e].at = "ack"
    BY <1>5, LoopSteps
  <2> QED BY <2>1 DEF Carries
<1>6. EchoReaction(e) => req[e].at = "echo" /\ req'[e].at = "relay" /\ req'[e].ver = req[e].ver
  BY LoopSteps
<1>7. RelayReaction(e) => req[e].at = "relay" /\ req'[e] = Idle
  BY LoopSteps
<1>8. ServeReaction(e) => req[e].at = "idle" /\ req'[e].at = "echo" /\ req'[e].ver = mark.seq + 1
  BY LoopSteps
<1>9. Restart => req'[e] = Idle
  BY DEF Restart
<1> QED BY <1>1, <1>2, <1>3, <1>4, <1>5, <1>6, <1>7, <1>8, <1>9, JobSteps

LEMMA JobsOnceStep ==
    ASSUME AmendTypes, Roles, JobsOnce, NEW cleared, AmendmentsNext(cleared) \/ Restart
    PROVE  JobsOnce'
<1>0. mark.seq \in Nat /\ mark'.seq \in Nat /\ mark'.seq >= mark.seq
  BY MarkMovesOn
<1>1. ASSUME NEW e \in Devices, Carries(e)'
      PROVE  \/ Carries(e) /\ req'[e].ver = req[e].ver
             \/ ServeReaction(e) /\ req'[e].ver = mark.seq + 1 /\ mark'.seq = mark.seq + 1
  <2>1. ServeReaction(e) => mark'.seq = mark.seq + 1
    BY DEF ServeReaction
  <2>2. Idle.at \notin {"echo", "relay"}
    BY DEF Idle
  <2> QED BY <1>1, <2>1, <2>2, LoopsOf DEF Carries
<1>2. ASSUME NEW e \in Devices, Carries(e)' PROVE req'[e].ver \in 1 .. mark'.seq
  <2>1. Carries(e) => req[e].ver \in 1 .. mark.seq
    BY DEF JobsOnce
  <2> QED BY <1>0, <1>1, <1>2, <2>1
<1>3. ASSUME NEW e \in Devices, NEW o \in Devices, e # o, Carries(e)', Carries(o)'
      PROVE  req'[e].ver # req'[o].ver
  <2>1. ~(ServeReaction(e) /\ ServeReaction(o))
    <3>1. ASSUME ServeReaction(e), ServeReaction(o) PROVE FALSE
      <4>1. req[o].at = "idle" /\ \A x \in (Procs \cup Devices) \ {e} : req'[x] = req[x]
        BY <3>1, LoopSteps
      <4>2. req'[o].at = "idle"
        BY <1>3, <4>1
      <4> QED BY <1>3, <4>2 DEF Carries
    <3> QED BY <3>1
  <2>2. /\ Carries(e) => req[e].ver \in 1 .. mark.seq
        /\ Carries(o) => req[o].ver \in 1 .. mark.seq
        /\ Carries(e) /\ Carries(o) => req[e].ver # req[o].ver
    BY <1>3 DEF JobsOnce
  <2> QED BY <1>0, <1>1, <1>3, <2>1, <2>2
<1> QED BY <1>2, <1>3 DEF JobsOnce

\* The read loop of e has not come to d yet.
JobFor(e, d) == (req[e].at = "echo" /\ d # e) \/ (req[e].at = "relay" /\ d \in Authors)
JobMarks(d) == {req[e].ver : e \in {x \in Devices : JobFor(x, d)}}
Owed(d) == MarksIn(d) \cup JobMarks(d)

\* They are served, none is owed twice, and no copy is ahead of them.
MarksTrue ==
    \A d \in Devices :
        /\ MarksOnce(inbox[d])
        /\ MarksIn(d) \subseteq 1 .. mark.seq
        /\ MarksIn(d) \cap JobMarks(d) = {}
        /\ base[d] <= mark.seq

\* Whatever it was not told of, it is owed.
TopTrue == \A d \in Devices : \A n \in 1 .. mark.seq : n <= top[d] \/ n \in Owed(d)

LEMMA JobMarksStay ==
    ASSUME NEW d \in Devices,
           \A e \in Devices : /\ JobFor(e, d)' <=> JobFor(e, d)
                              /\ JobFor(e, d) => req'[e].ver = req[e].ver
    PROVE  JobMarks(d)' = JobMarks(d)
<1>1. JobMarks(d)' = {req'[e].ver : e \in {x \in Devices : JobFor(x, d)'}}
  BY DEF JobMarks
<1>2. {x \in Devices : JobFor(x, d)'} = {x \in Devices : JobFor(x, d)}
  OBVIOUS
<1>3. {req'[e].ver : e \in {x \in Devices : JobFor(x, d)}} = {req[e].ver : e \in {x \in Devices : JobFor(x, d)}}
  OBVIOUS
<1> QED BY <1>1, <1>2, <1>3 DEF JobMarks

\* Nothing happens to what d is owed.
Calm(d) ==
    /\ MarksOf(inbox'[d]) = MarksIn(d) /\ (MarksOnce(inbox[d]) => MarksOnce(inbox'[d]))
    /\ JobMarks(d)' = JobMarks(d) /\ mark'.seq = mark.seq /\ top'[d] = top[d]

\* The read loop of e comes to d.
Comes(e, d) ==
    LET n == req[e].ver IN
    /\ JobFor(e, d) /\ n \in JobMarks(d)
    /\ JobMarks(d)' = JobMarks(d) \ {n} /\ mark'.seq = mark.seq
    /\ \/ /\ d \in conn /\ inbox'[d] = Append(inbox[d], [kind |-> "react", seq |-> n])
          /\ top'[d] = top[d]
       \/ /\ d \notin conn /\ inbox'[d] = inbox[d] /\ top'[d] = Max2(top[d], n)
          /\ LosesMark(d, n) => amiss'[d].on

LEMMA LoopComes ==
    ASSUME AmendTypes, Roles, JobsOnce, NEW e \in Devices, EchoReaction(e) \/ RelayReaction(e),
           NEW d \in Devices
    PROVE  \/ /\ inbox'[d] = inbox[d] /\ JobMarks(d)' = JobMarks(d) /\ mark' = mark
              /\ top'[d] = top[d]
           \/ Comes(e, d)
<1> DEFINE n == req[e].ver
           S == IF EchoReaction(e) THEN Peers \ {e} ELSE Authors
<1>0. /\ req \in [Procs \cup Devices -> Jobs] /\ n \in Nat /\ mark' = mark
      /\ Authors \cap Peers = {} /\ d \in Authors \cup Peers
      /\ top \in [Devices -> Nat] /\ inbox \in [Devices -> Seq(Frame)]
  BY AmendmentsAssumption DEF AmendTypes, ServerTypes, HistoryTypes, RoadTypes, Jobs, EchoReaction,
     RelayReaction, Devices
<1>1. /\ e \in Peers /\ Carries(e)
      /\ \A o \in Devices \ {e} : req'[o] = req[o]
      /\ EchoReaction(e) => req[e].at = "echo" /\ req'[e].at = "relay" /\ req'[e].ver = n
      /\ RelayReaction(e) => req[e].at = "relay" /\ req'[e].at = "idle"
  BY LoopSteps DEF Carries, Idle
<1>2. MarkTo(S, n)
  BY <1>1 DEF EchoReaction, RelayReaction
<1>3. /\ inbox'[d] = IF d \in S \cap conn THEN Append(inbox[d], [kind |-> "react", seq |-> n])
                     ELSE inbox[d]
      /\ top'[d] = IF d \in S \ conn THEN Max2(top[d], n) ELSE top[d]
      /\ d \in S \ conn /\ LosesMark(d, n) => amiss'[d].on
  <2>1. top'[d] = IF d \in S \ conn THEN Max2(top[d], n) ELSE top[d]
    BY <1>2 DEF MarkTo
  <2>2. d \in S \ conn /\ LosesMark(d, n) => amiss'[d].on
    BY <1>2, AmissByHandlers
  <2>3. inbox'[d] = IF d \in S \cap conn THEN Append(inbox[d], [kind |-> "react", seq |-> n])
                    ELSE inbox[d]
    BY <1>2 DEF MarkTo
  <2> QED BY <2>1, <2>2, <2>3
<1>4. ASSUME NEW o \in Devices, o # e
      PROVE  (JobFor(o, d)' <=> JobFor(o, d)) /\ req'[o].ver = req[o].ver
  BY <1>1, <1>4 DEF JobFor
<1>5. CASE d \notin S
  <2>1. JobFor(e, d)' <=> JobFor(e, d)
    BY <1>0, <1>1, <1>5 DEF JobFor
  <2>2. JobFor(e, d) => req'[e].ver = n
    BY <1>0, <1>1, <1>5, <2>1 DEF JobFor
  <2>3. JobMarks(d)' = JobMarks(d)
    BY <1>4, <2>1, <2>2, JobMarksStay
  <2> QED BY <1>0, <1>3, <1>5, <2>3
<1>6. CASE d \in S
  <2>1. JobFor(e, d) /\ ~JobFor(e, d)'
    BY <1>0, <1>1, <1>6 DEF JobFor
  <2>2. \A o \in Devices : JobFor(o, d) /\ o # e => req[o].ver # n
    <3>1. \A o \in Devices : JobFor(o, d) => Carries(o)
      BY DEF JobFor, Carries
    <3> QED BY <1>1, <3>1 DEF JobsOnce
  <2>3. n \in JobMarks(d)
    BY <2>1 DEF JobMarks
  <2>4. JobMarks(d)' = JobMarks(d) \ {n}
    <3>1. JobMarks(d)' = {req'[x].ver : x \in {o \in Devices : JobFor(o, d)'}}
      BY DEF JobMarks
    <3>2. ASSUME NEW x \in Devices, JobFor(x, d)' PROVE req'[x].ver \in JobMarks(d) \ {n}
      BY <1>4, <2>1, <2>2, <3>2 DEF JobMarks
    <3>3. ASSUME NEW x \in Devices, JobFor(x, d), req[x].ver # n
          PROVE  req[x].ver \in {req'[o].ver : o \in {y \in Devices : JobFor(y, d)'}}
      BY <1>4, <3>3
    <3> QED BY <3>1, <3>2, <3>3 DEF JobMarks
  <2> QED BY <1>0, <1>3, <1>6, <2>1, <2>3, <2>4 DEF Comes
<1> QED BY <1>5, <1>6

LEMMA LoopServes ==
    ASSUME AmendTypes, Roles, NEW e \in Devices, ServeReaction(e), NEW d \in Devices
    PROVE  /\ inbox' = inbox /\ mark'.seq = mark.seq + 1
           /\ d = e => JobMarks(d)' = JobMarks(d) /\ top'[d] = mark.seq + 1
           /\ d # e => JobMarks(d)' = JobMarks(d) \cup {mark.seq + 1} /\ top'[d] = top[d]
<1>0. top \in [Devices -> Nat] /\ Authors \cap Peers = {}
  BY AmendmentsAssumption DEF AmendTypes, HistoryTypes
<1>1. /\ e \in Peers /\ req[e].at = "idle" /\ req'[e].at = "echo" /\ req'[e].ver = mark.seq + 1
      /\ \A o \in Devices \ {e} : req'[o] = req[o]
  BY LoopSteps
<1>2. /\ inbox' = inbox /\ mark'.seq = mark.seq + 1
      /\ top'[d] = IF d = e THEN mark.seq + 1 ELSE top[d]
  BY <1>0 DEF ServeReaction
<1>3. ASSUME NEW o \in Devices, o # e
      PROVE  (JobFor(o, d)' <=> JobFor(o, d)) /\ req'[o].ver = req[o].ver
  BY <1>1, <1>3 DEF JobFor
<1>4. ~JobFor(e, d) /\ (JobFor(e, d)' <=> d # e)
  BY <1>1 DEF JobFor
<1>5. CASE d = e
  <2>1. JobMarks(d)' = JobMarks(d)
    BY <1>3, <1>4, <1>5, JobMarksStay
  <2> QED BY <1>2, <1>5, <2>1
<1>6. CASE d # e
  <2>1. JobMarks(d)' = {req'[x].ver : x \in {o \in Devices : JobFor(o, d)'}}
    BY DEF JobMarks
  <2>2. ASSUME NEW x \in Devices, JobFor(x, d)' PROVE req'[x].ver \in JobMarks(d) \cup {mark.seq + 1}
    <3>1. CASE x = e
      BY <1>1, <3>1
    <3>2. CASE x # e
      BY <1>3, <2>2, <3>2 DEF JobMarks
    <3> QED BY <3>1, <3>2
  <2>3. ASSUME NEW x \in Devices, JobFor(x, d)
        PROVE  req[x].ver \in {req'[o].ver : o \in {y \in Devices : JobFor(y, d)'}}
    BY <1>3, <1>4, <2>3
  <2>4. mark.seq + 1 \in {req'[o].ver : o \in {y \in Devices : JobFor(y, d)'}}
    BY <1>1, <1>4, <1>6
  <2>5. JobMarks(d)' = JobMarks(d) \cup {mark.seq + 1}
    BY <2>1, <2>2, <2>3, <2>4 DEF JobMarks
  <2> QED BY <1>2, <1>6, <2>5
<1> QED BY <1>5, <1>6

LEMMA ReceiveMarks ==
    ASSUME AmendTypes, NEW d \in Devices, Receive(d)
    PROVE  /\ inbox[d] \in Seq(Frame) /\ inbox[d] # << >> /\ inbox'[d] = Tail(inbox[d])
           /\ inbox[d][1] \in Frame
           /\ JobMarks(d)' = JobMarks(d) /\ mark' = mark
           /\ inbox[d][1].kind = "react" => /\ inbox[d][1].seq \in Nat
                                            /\ top'[d] = Max2(top[d], inbox[d][1].seq)
           /\ inbox[d][1].kind # "react" => top'[d] = top[d]
<1>0. /\ inbox \in [Devices -> Seq(Frame)] /\ top \in [Devices -> Nat]
  BY DEF AmendTypes, RoadTypes, HistoryTypes
<1>1. inbox[d] # << >> /\ inbox'[d] = Tail(inbox[d]) /\ req' = req /\ mark' = mark
  BY <1>0 DEF Receive
<1>2. Head(inbox[d]) = inbox[d][1] /\ inbox[d][1] \in Frame
  BY <1>0, <1>1
<1>3. top' = IF inbox[d][1].kind = "react" THEN [top EXCEPT ![d] = Max2(top[d], inbox[d][1].seq)] ELSE top
  BY <1>2 DEF Receive
<1>4. JobMarks(d)' = JobMarks(d)
  BY <1>1, JobMarksStay DEF JobFor
<1>5. inbox[d][1].kind = "react" => inbox[d][1].seq \in Nat
  BY <1>2 DEF Frame, Texts, Reacts, Signs
<1> QED BY <1>0, <1>1, <1>2, <1>3, <1>4, <1>5

LEMMA BreakMarks ==
    ASSUME AmendTypes, NEW d \in Devices
    PROVE  /\ Disconnect(d) => /\ inbox'[d] = << >> /\ JobMarks(d)' = JobMarks(d) /\ mark' = mark
                               /\ top'[d] \in Nat /\ top'[d] >= top[d]
                               /\ \A n \in MarksIn(d) : n \in Nat
                               /\ \A n \in MarksIn(d) : n <= top'[d]
           /\ Restart => /\ inbox'[d] = << >> /\ JobMarks(d)' = {} /\ mark' = mark
                         /\ top'[d] = mark.seq
<1>0. /\ inbox \in [Devices -> Seq(Frame)] /\ top \in [Devices -> Nat] /\ RoadTypes /\ top[d] \in Nat
  BY DEF AmendTypes, RoadTypes, HistoryTypes
<1>1. ASSUME Disconnect(d)
      PROVE  /\ inbox'[d] = << >> /\ JobMarks(d)' = JobMarks(d) /\ mark' = mark
             /\ top'[d] \in Nat /\ top'[d] >= top[d]
             /\ \A n \in MarksIn(d) : n \in Nat
             /\ \A n \in MarksIn(d) : n <= top'[d]
  <2>1. inbox'[d] = << >> /\ mark' = mark /\ req' = req
    BY <1>0, <1>1 DEF Disconnect
  <2>2. top'[d] = IF MarksIn(d) = {} THEN top[d] ELSE Max2(top[d], Max(MarksIn(d)))
    BY <1>0, <1>1 DEF Disconnect
  <2>3. MarksIn(d) \subseteq Nat /\ IsFiniteSet(MarksIn(d))
    BY <1>0, MarksAre
  <2>4. CASE MarksIn(d) = {}
    BY <1>0, <2>1, <2>2, <2>4, JobMarksStay DEF JobFor
  <2>5. CASE MarksIn(d) # {}
    <3> DEFINE m == Max(MarksIn(d))
    <3>1. m \in Nat /\ \A n \in MarksIn(d) : n \in Nat /\ m >= n
      BY <2>3, <2>5, GreatestElement
    <3>2. top'[d] = Max2(top[d], m)
      BY <2>2, <2>5
    <3> HIDE DEF m
    <3>3. top'[d] = IF top[d] >= m THEN top[d] ELSE m
      BY <1>0, <3>1, <3>2, Max2Is
    <3>4. top'[d] \in Nat /\ top'[d] >= top[d] /\ top'[d] >= m
      BY <1>0, <3>1, <3>3
    <3>5. \A n \in MarksIn(d) : n <= top'[d]
      BY <3>1, <3>4
    <3>6. JobMarks(d)' = JobMarks(d)
      BY <2>1, JobMarksStay DEF JobFor
    <3> QED BY <2>1, <3>1, <3>4, <3>5, <3>6
  <2> QED BY <2>4, <2>5
<1>2. ASSUME Restart
      PROVE  inbox'[d] = << >> /\ JobMarks(d)' = {} /\ mark' = mark /\ top'[d] = mark.seq
  <2>1. inbox'[d] = << >> /\ mark' = mark /\ top'[d] = mark.seq
    BY <1>2 DEF Restart
  <2>2. \A e \in Devices : ~JobFor(e, d)'
    BY <1>2 DEF Restart, JobFor, Idle
  <2>3. JobMarks(d)' = {}
    BY <2>2 DEF JobMarks
  <2> QED BY <2>1, <2>3
<1> QED BY <1>1, <1>2

LEMMA CalmSteps ==
    ASSUME AmendTypes, Roles, NEW cleared, AmendmentsNext(cleared) \/ Restart, NEW d \in Devices
    PROVE  \/ Calm(d)
           \/ \E e \in Devices : ServeReaction(e) \/ EchoReaction(e) \/ RelayReaction(e)
           \/ Receive(d) \/ Disconnect(d) \/ Restart
<1> DEFINE Moves == \/ \E e \in Devices : ServeReaction(e) \/ EchoReaction(e) \/ RelayReaction(e)
                    \/ Receive(d) \/ Disconnect(d) \/ Restart
           SameMarks == /\ MarksOf(inbox'[d]) = MarksIn(d)
                        /\ MarksOnce(inbox[d]) => MarksOnce(inbox'[d])
<1>0. inbox[d] \in Seq(Frame) /\ top \in [Devices -> Nat]
      /\ inbox \in [Devices -> Seq(Frame)] /\ req \in [Procs \cup Devices -> Jobs]
  BY DEF AmendTypes, RoadTypes, HistoryTypes, ServerTypes
<1>1. mark'.seq = mark.seq \/ Moves
  BY MarkMovesOn
<1>2. top'[d] = top[d] \/ Moves
  <2>1. \/ top' = top
        \/ \E e \in Devices : ServeReaction(e) \/ EchoReaction(e) \/ RelayReaction(e)
        \/ \E e \in Devices : Receive(e) \/ Disconnect(e)
        \/ Restart
    BY ZenonT(30) DEF AmendmentsNext, Commit, SubmitEdit, SubmitDelete, SendRead, SendReaction, DropReaction,
       SyncRows, SyncMarks, SyncMerge, SyncReactions, SyncRefused, SyncEvents, Connect,
       LosePost, Amend, Tell, TellOne, Answer, ServeRead, TellRead, history
  <2>2. ASSUME NEW e \in Devices, Receive(e) \/ Disconnect(e), e # d PROVE top'[d] = top[d]
    BY <1>0, <2>2 DEF Receive, Disconnect
  <2> QED BY <2>1, <2>2
<1>3. JobMarks(d)' = JobMarks(d) \/ Moves
  <2>1. ASSUME ~Moves, NEW e \in Devices
        PROVE  /\ JobFor(e, d)' <=> JobFor(e, d)
               /\ JobFor(e, d) => req'[e].ver = req[e].ver
    <3>1. req'[e] = req[e] \/ (~Carries(e) /\ req'[e].at \in {"ack", "idle"})
      BY <2>1, LoopsOf
    <3> QED BY <3>1 DEF JobFor, Carries
  <2> HIDE DEF Moves
  <2> QED BY <2>1, JobMarksStay
<1>4. SameMarks \/ Moves
  <2>1. MarksIn(d) = MarksOf(inbox[d])
    BY QueueOf
  <2>2. ASSUME inbox'[d] = inbox[d] PROVE SameMarks
    BY <2>1, <2>2
  <2>3. ASSUME NEW f \in Frame, f.kind # "react", inbox'[d] = Append(inbox[d], f) PROVE SameMarks
    <3>1. MarksOf(inbox'[d]) = MarksIn(d)
      <4>1. MarksOf(Append(inbox[d], f)) =
               MarksOf(inbox[d]) \cup (IF f.kind = "react" THEN {f.seq} ELSE {})
        BY <1>0, ViewsAppend
      <4>2. MarksOf(Append(inbox[d], f)) = MarksOf(inbox[d])
        BY <2>3, <4>1
      <4> QED BY <2>1, <2>3, <4>2
    <3> QED BY <1>0, <2>3, <3>1, OnceBehind
  <2>4. ASSUME Commit(1), d \in conn PROVE SameMarks
    <3>1. inbox'[d] = Append(inbox[d], [kind |-> "new"])
      BY <2>4 DEF Commit
    <3>2. [kind |-> "new"] \in Frame /\ [kind |-> "new"].kind # "react"
      BY FrameKinds
    <3> HIDE DEF SameMarks
    <3> QED BY <2>3, <3>1, <3>2
  <2>5. ASSUME NEW p \in Procs, Tell(p) PROVE SameMarks
    <3>1. inbox' = inbox
      BY <2>5, TellSteps
    <3> QED BY <2>2, <3>1
  <2>6. ASSUME NEW p \in Procs, TellOne(p, d) PROVE SameMarks
    <3>1. PICK f \in Texts : inbox'[d] = Append(inbox[d], f)
      BY <2>6, TellSteps
    <3>2. f \in Frame /\ f.kind # "react"
      BY FrameKinds DEF Texts
    <3> HIDE DEF SameMarks
    <3> QED BY <2>3, <3>1, <3>2
  <2>7. ASSUME NEW e \in Devices, TellRead(e) PROVE SameMarks
    <3>1. inbox'[d] = inbox[d] \/ inbox'[d] = Append(inbox[d], [kind |-> "read"])
      BY <2>7, TellReadStep
    <3>2. [kind |-> "read"] \in Frame /\ [kind |-> "read"].kind # "react"
      BY FrameKinds
    <3> HIDE DEF SameMarks
    <3> QED BY <2>2, <2>3, <3>1, <3>2
  <2>8. ASSUME NEW e \in Devices, EchoReaction(e) \/ RelayReaction(e) PROVE Moves
    BY <2>8
  <2>9. Receive(d) \/ Disconnect(d) \/ Restart => Moves
    OBVIOUS
  <2> HIDE DEF SameMarks, Moves
  <2> QED BY <2>2, <2>4, <2>5, <2>6, <2>7, <2>8, <2>9, InboxSteps
<1>5. SameMarks /\ mark'.seq = mark.seq /\ top'[d] = top[d] /\ JobMarks(d)' = JobMarks(d) => Calm(d)
  BY DEF Calm
<1> HIDE DEF SameMarks, Moves
<1>6. Calm(d) \/ Moves
  BY <1>1, <1>2, <1>3, <1>4, <1>5
<1> QED BY <1>6 DEF Moves

LEMMA JobMarksServed ==
    ASSUME JobsOnce, NEW d \in Devices
    PROVE  JobMarks(d) \subseteq 1 .. mark.seq
<1>1. \A e \in Devices : JobFor(e, d) => Carries(e)
  BY DEF JobFor, Carries
<1> QED BY <1>1 DEF JobMarks, JobsOnce

\* What every step makes of the reaction a copy was last set from.
LEMMA BaseSteps ==
    ASSUME AmendTypes, NEW cleared, AmendmentsNext(cleared) \/ Restart, NEW d \in Devices
    PROVE  \/ base'[d] = base[d]
           \/ /\ Receive(d) /\ inbox[d][1].kind = "new" /\ ~copy[d].there /\ base'[d] = 0
           \/ /\ SyncMerge(d) /\ sync[d].has /\ sync[d].at = "page" /\ base'[d] = sync[d].seq
           \/ /\ SyncEvents(d) /\ sync[d].seq # 0 /\ copy[d].there /\ sync[d].at = "events"
              /\ base'[d] = sync[d].seq
<1>0. base \in [Devices -> Nat] /\ inbox \in [Devices -> Seq(Frame)]
  BY DEF AmendTypes, HistoryTypes, RoadTypes
<1>1. ASSUME NEW e \in Devices, Receive(e)
      PROVE  \/ base'[d] = base[d]
             \/ d = e /\ inbox[d][1].kind = "new" /\ ~copy[d].there /\ base'[d] = 0
  <2>1. Head(inbox[e]) = inbox[e][1]
    BY <1>0, <1>1 DEF Receive
  <2>2. base' = IF inbox[e][1].kind = "new" /\ ~copy[e].there THEN [base EXCEPT ![e] = 0] ELSE base
    BY <1>1, <2>1 DEF Receive
  <2> QED BY <1>0, <2>2
<1>2. ASSUME NEW e \in Devices, SyncMerge(e)
      PROVE  \/ base'[d] = base[d]
             \/ d = e /\ sync[d].has /\ sync[d].at = "page" /\ base'[d] = sync[d].seq
  BY <1>0, <1>2 DEF SyncMerge
<1>3. ASSUME NEW e \in Devices, SyncEvents(e)
      PROVE  \/ base'[d] = base[d]
             \/ /\ d = e /\ sync[d].seq # 0 /\ copy[d].there /\ sync[d].at = "events"
                /\ base'[d] = sync[d].seq
  BY <1>0, <1>3 DEF SyncEvents
<1>4. base' = base \/ \E e \in Devices : Receive(e) \/ SyncMerge(e) \/ SyncEvents(e)
  BY ZenonT(30) DEF AmendmentsNext, Commit, SubmitEdit, SubmitDelete, SendRead, SendReaction, DropReaction,
     SyncRows, SyncMarks, SyncReactions, SyncRefused, Connect, Disconnect,
     LosePost, Amend, Tell, TellOne, Answer, ServeRead, TellRead, ServeReaction,
     EchoReaction, RelayReaction, Restart, history
<1> QED BY <1>1, <1>2, <1>3, <1>4

\* What every step makes of what d is owed.
LEMMA OwedSteps ==
    ASSUME AmendTypes, Roles, JobsOnce, NEW cleared, AmendmentsNext(cleared) \/ Restart, NEW d \in Devices
    PROVE  \/ Calm(d)
           \/ \E e \in Devices :
                 \/ ServeReaction(e)
                 \/ (EchoReaction(e) \/ RelayReaction(e)) /\ Comes(e, d)
           \/ Receive(d) \/ Disconnect(d) \/ Restart
<1>1. ASSUME NEW e \in Devices, EchoReaction(e) \/ RelayReaction(e) PROVE Comes(e, d) \/ Calm(d)
  <2>1. MarksIn(d) = MarksOf(inbox[d])
    BY QueueOf
  <2> QED BY <1>1, <2>1, LoopComes DEF Calm
<1> QED BY <1>1, CalmSteps

LEMMA MarksTrueStep ==
    ASSUME AmendTypes, Roles, JobsOnce, MarksTrue, PagesTrue,
           NEW cleared, AmendmentsNext(cleared) \/ Restart
    PROVE  MarksTrue'
<1> SUFFICES ASSUME NEW d \in Devices
             PROVE  /\ MarksOnce(inbox'[d])
                    /\ MarksOf(inbox'[d]) \subseteq 1 .. mark'.seq
                    /\ MarksOf(inbox'[d]) \cap JobMarks(d)' = {}
                    /\ base'[d] <= mark'.seq
  BY QueueOfNext DEF MarksTrue
<1> DEFINE G == /\ MarksOnce(inbox'[d])
                /\ MarksOf(inbox'[d]) \subseteq 1 .. mark'.seq
                /\ MarksOf(inbox'[d]) \cap JobMarks(d)' = {}
<1>0. /\ inbox[d] \in Seq(Frame) /\ mark.seq \in Nat /\ mark'.seq \in Nat /\ mark'.seq >= mark.seq
      /\ base[d] \in Nat /\ sync[d].seq \in Nat
  BY MarkMovesOn DEF AmendTypes, RoadTypes, HistoryTypes, DeviceTypes, Syncs
<1>1. /\ MarksOnce(inbox[d]) /\ MarksIn(d) \subseteq 1 .. mark.seq
      /\ MarksIn(d) \cap JobMarks(d) = {} /\ base[d] <= mark.seq
      /\ MarksIn(d) = MarksOf(inbox[d]) /\ JobMarks(d) \subseteq 1 .. mark.seq
  BY QueueOf, JobMarksServed DEF MarksTrue
<1>2. base'[d] <= mark'.seq
  <2>1. CASE base'[d] = base[d] \/ base'[d] = 0
    BY <1>0, <1>1, <2>1
  <2>2. CASE base'[d] = sync[d].seq /\ (sync[d].at = "page" \/ (sync[d].at = "events" /\ sync[d].seq # 0))
    <3>1. sync[d].seq <= mark.seq
      BY <1>0, <2>2 DEF PagesTrue, PageMark
    <3> QED BY <1>0, <2>2, <3>1
  <2> QED BY <2>1, <2>2, BaseSteps
<1>3. CASE Calm(d)
  <2>1. G
    BY <1>1, <1>3 DEF Calm
  <2> QED BY <1>2, <2>1
<1>4. ASSUME NEW e \in Devices, ServeReaction(e) PROVE G
  <2>1. /\ inbox' = inbox /\ mark'.seq = mark.seq + 1
        /\ JobMarks(d)' = JobMarks(d) \/ JobMarks(d)' = JobMarks(d) \cup {mark.seq + 1}
    BY <1>4, LoopServes
  <2>2. mark.seq + 1 \notin MarksIn(d) /\ 1 .. mark.seq \subseteq 1 .. mark.seq + 1
    BY <1>0, <1>1
  <2> QED BY <1>1, <2>1, <2>2
<1>5. ASSUME NEW e \in Devices, Comes(e, d) PROVE G
  <2> DEFINE n == req[e].ver
             f == [kind |-> "react", seq |-> n]
  <2>1. /\ n \in JobMarks(d) /\ JobMarks(d)' = JobMarks(d) \ {n} /\ mark'.seq = mark.seq
        /\ inbox'[d] = Append(inbox[d], f) \/ inbox'[d] = inbox[d]
    BY <1>5 DEF Comes
  <2>2. n \in 1 .. mark.seq /\ n \notin MarksIn(d) /\ n \in Nat
    BY <1>1, <2>1
  <2>3. f \in Frame /\ f.kind = "react" /\ f.seq = n
    BY <2>2, FrameKinds
  <2> HIDE DEF f, n
  <2>4. CASE inbox'[d] = inbox[d]
    BY <1>1, <2>1, <2>4
  <2>5. CASE inbox'[d] = Append(inbox[d], f)
    <3>1. MarksOf(inbox'[d]) = MarksOf(inbox[d]) \cup (IF f.kind = "react" THEN {f.seq} ELSE {})
      BY <1>0, <2>3, <2>5, ViewsAppend
    <3>2. MarksOf(inbox'[d]) = MarksIn(d) \cup {n}
      BY <1>1, <2>3, <3>1
    <3>3. MarksOnce(inbox'[d])
      BY <1>0, <1>1, <2>2, <2>3, <2>5, OnceBehind
    <3> QED BY <1>1, <2>1, <2>2, <3>2, <3>3
  <2> QED BY <2>1, <2>4, <2>5
<1>6. ASSUME Receive(d) PROVE G
  <2>1. /\ inbox[d] # << >> /\ inbox'[d] = Tail(inbox[d])
        /\ JobMarks(d)' = JobMarks(d) /\ mark' = mark
    BY <1>6, ReceiveMarks
  <2>2. MarksOf(Tail(inbox[d])) \subseteq MarksOf(inbox[d]) /\ MarksOnce(Tail(inbox[d]))
    BY <1>0, <1>1, <2>1, TailOfQueue, ViewsTail
  <2> QED BY <1>1, <2>1, <2>2
<1>7. ASSUME Disconnect(d) \/ Restart PROVE G
  <2>1. inbox'[d] = << >>
    BY <1>7, BreakMarks
  <2> QED BY <2>1, EmptyQueue, ViewsEmpty
<1> HIDE DEF G
<1>8. G \/ Calm(d)
  BY <1>4, <1>5, <1>6, <1>7, OwedSteps
<1> QED BY <1>2, <1>3, <1>8 DEF G

LEMMA TopTrueStep ==
    ASSUME AmendTypes, Roles, JobsOnce, MarksTrue, TopTrue,
           NEW cleared, AmendmentsNext(cleared) \/ Restart
    PROVE  TopTrue'
<1> SUFFICES ASSUME NEW d \in Devices, NEW n \in 1 .. mark'.seq
             PROVE  n <= top'[d] \/ n \in MarksOf(inbox'[d]) \/ n \in JobMarks(d)'
  BY QueueOfNext DEF TopTrue, Owed
<1> DEFINE G == n <= top'[d] \/ n \in MarksOf(inbox'[d]) \/ n \in JobMarks(d)'
<1>0. /\ inbox[d] \in Seq(Frame) /\ mark.seq \in Nat /\ mark'.seq \in Nat /\ n \in Nat
      /\ top[d] \in Nat
  BY MarkMovesOn DEF AmendTypes, RoadTypes, HistoryTypes
<1>1. /\ n \in 1 .. mark.seq => n <= top[d] \/ n \in MarksIn(d) \/ n \in JobMarks(d)
      /\ MarksIn(d) = MarksOf(inbox[d])
  BY QueueOf DEF TopTrue, Owed
<1>2. ASSUME Calm(d) PROVE G
  BY <1>1, <1>2 DEF Calm
<1>3. ASSUME NEW e \in Devices, ServeReaction(e) PROVE G
  <2>1. /\ inbox' = inbox /\ mark'.seq = mark.seq + 1
        /\ d = e => top'[d] = mark.seq + 1
        /\ d # e => JobMarks(d)' = JobMarks(d) \cup {mark.seq + 1} /\ top'[d] = top[d]
    BY <1>3, LoopServes
  <2>2. n \in 1 .. mark.seq \/ n = mark.seq + 1
    BY <1>0, <2>1
  <2> QED BY <1>0, <1>1, <2>1, <2>2
<1>4. ASSUME NEW e \in Devices, Comes(e, d) PROVE G
  <2> DEFINE m == req[e].ver
             f == [kind |-> "react", seq |-> m]
  <2>1. /\ m \in JobMarks(d) /\ JobMarks(d)' = JobMarks(d) \ {m} /\ mark'.seq = mark.seq
        /\ \/ inbox'[d] = Append(inbox[d], f) /\ top'[d] = top[d]
           \/ inbox'[d] = inbox[d] /\ top'[d] = Max2(top[d], m)
    BY <1>4 DEF Comes
  <2>2. m \in Nat
    BY <2>1, JobMarksServed
  <2>3. f \in Frame /\ f.kind = "react" /\ f.seq = m
    BY <2>2, FrameKinds
  <2> HIDE DEF f, m
  <2>4. CASE inbox'[d] = inbox[d] /\ top'[d] = Max2(top[d], m)
    <3>1. top'[d] = IF top[d] >= m THEN top[d] ELSE m
      BY <1>0, <2>2, <2>4, Max2Is
    <3>2. top'[d] \in Nat /\ top'[d] >= top[d] /\ top'[d] >= m
      BY <1>0, <2>2, <3>1
    <3> QED BY <1>0, <1>1, <2>1, <2>2, <2>4, <3>2
  <2>5. CASE inbox'[d] = Append(inbox[d], f) /\ top'[d] = top[d]
    <3>1. MarksOf(inbox'[d]) = MarksOf(inbox[d]) \cup (IF f.kind = "react" THEN {f.seq} ELSE {})
      BY <1>0, <2>3, <2>5, ViewsAppend
    <3>2. MarksOf(inbox'[d]) = MarksIn(d) \cup {m}
      BY <1>1, <2>3, <3>1
    <3> QED BY <1>1, <2>1, <2>5, <3>2
  <2> QED BY <2>1, <2>4, <2>5
<1>5. ASSUME Receive(d) PROVE G
  <2> DEFINE f == inbox[d][1]
  <2>1. /\ inbox[d] # << >> /\ inbox'[d] = Tail(inbox[d])
        /\ JobMarks(d)' = JobMarks(d) /\ mark' = mark
        /\ f.kind = "react" => f.seq \in Nat /\ top'[d] = Max2(top[d], f.seq)
        /\ f.kind # "react" => top'[d] = top[d]
    BY <1>5, ReceiveMarks
  <2>2. MarksOf(inbox[d]) = MarksOf(Tail(inbox[d])) \cup (IF f.kind = "react" THEN {f.seq} ELSE {})
    BY <1>0, <2>1, ViewsTail
  <2> HIDE DEF f
  <2>3. CASE f.kind = "react"
    <3>1. top'[d] = IF top[d] >= f.seq THEN top[d] ELSE f.seq
      BY <1>0, <2>1, <2>3, Max2Is
    <3>2. top'[d] \in Nat /\ top'[d] >= top[d] /\ top'[d] >= f.seq
      BY <1>0, <2>1, <2>3, <3>1
    <3>3. MarksIn(d) = MarksOf(inbox'[d]) \cup {f.seq}
      BY <1>1, <2>1, <2>2, <2>3
    <3> QED BY <1>0, <1>1, <2>1, <2>3, <3>2, <3>3
  <2>4. CASE f.kind # "react"
    <3>1. MarksIn(d) = MarksOf(inbox'[d])
      BY <1>1, <2>1, <2>2, <2>4
    <3> QED BY <1>1, <2>1, <2>4, <3>1
  <2> QED BY <2>3, <2>4
<1>6. ASSUME Disconnect(d) PROVE G
  <2>1. /\ JobMarks(d)' = JobMarks(d) /\ mark' = mark /\ top'[d] \in Nat /\ top'[d] >= top[d]
        /\ \A m \in MarksIn(d) : m <= top'[d]
    BY <1>6, BreakMarks
  <2> QED BY <1>0, <1>1, <2>1
<1>7. ASSUME Restart PROVE G
  BY <1>0, <1>7, BreakMarks
<1> HIDE DEF G
<1>8. G
  BY <1>2, <1>3, <1>4, <1>5, <1>6, <1>7, OwedSteps
<1> QED BY <1>8 DEF G

-----------------------------------------------------------------------------
(* The reaction *)

Above(d) == {n \in Owed(d) : n > base[d]}
Parity(n, S) == (n + Cardinality(S)) % 2

\* The toggles that are still to come to d and those it has sent itself lead from
\* the row to its copy, or the other way: a toggle is its own inverse.
Right(d) == Toggles(wire[d], Parity(mark.seq, Above(d)), Bit(copy[d].on))

\* It will set its copy from an answer of /reactions.
WillSet(d) ==
    \/ sync[d].at = "events" /\ sync[d].seq > 0
    \/ /\ rcursor[d] < mark.seq
       /\ sync[d].at \in {"rows", "marks", "page", "reacts"} \/ (sync[d].at = "idle" /\ d \notin conn)

MarkInv ==
    \A d \in Devices : copy[d].there =>
        amiss[d].on \/ (rcursor[d] <= base[d] /\ (Right(d) \/ WillSet(d)))

LEMMA OwedIs ==
    ASSUME JobsOnce, MarksTrue, mark.seq \in Nat, NEW d \in Devices
    PROVE  /\ Owed(d) \subseteq 1 .. mark.seq
           /\ \A S \in SUBSET Owed(d) : IsFiniteSet(S) /\ Cardinality(S) \in Nat
<1>1. Owed(d) \subseteq 1 .. mark.seq
  BY JobMarksServed DEF Owed, MarksTrue
<1>2. IsFiniteSet(1 .. mark.seq)
  BY FS_Interval
<1>3. ASSUME NEW S \in SUBSET Owed(d) PROVE IsFiniteSet(S) /\ Cardinality(S) \in Nat
  <2>1. S \in SUBSET (1 .. mark.seq)
    BY <1>1
  <2>2. IsFiniteSet(S)
    BY <1>2, <2>1, FS_Subset
  <2> QED BY <2>2, FS_CardinalityType
<1> QED BY <1>1, <1>3

LEMMA ParityIs ==
    ASSUME NEW n \in Nat, NEW S, IsFiniteSet(S)
    PROVE  /\ Parity(n, S) \in {0, 1}
           /\ Parity(n + 1, S) = 1 - Parity(n, S)
           /\ \A x : x \notin S => Parity(n + 1, S \cup {x}) = Parity(n, S)
           /\ \A x \in S : Parity(n, S \ {x}) = 1 - Parity(n, S)
<1> DEFINE c == Cardinality(S)
<1>1. c \in Nat
  BY FS_CardinalityType
<1>2. /\ (n + c) % 2 \in {0, 1}
      /\ ((n + 1) + c) % 2 = 1 - ((n + c) % 2)
      /\ ((n + 1) + (c + 1)) % 2 = (n + c) % 2
      /\ (n + (c - 1)) % 2 = 1 - ((n + c) % 2)
  <2> HIDE DEF c
  <2> QED BY <1>1
<1>3. \A x : x \notin S => Cardinality(S \cup {x}) = c + 1
  BY FS_AddElement
<1>4. \A x \in S : Cardinality(S \ {x}) = c - 1
  BY FS_RemoveElement
<1>5. Parity(n, S) = (n + c) % 2 /\ Parity(n + 1, S) = ((n + 1) + c) % 2
  BY DEF Parity
<1> HIDE DEF c
<1>8. Parity(n, S) \in {0, 1} /\ Parity(n + 1, S) = 1 - Parity(n, S)
  BY <1>2, <1>5
<1>6. ASSUME NEW x, x \notin S PROVE Parity(n + 1, S \cup {x}) = Parity(n, S)
  <2>1. Cardinality(S \cup {x}) = c + 1
    BY <1>3, <1>6
  <2>2. Parity(n + 1, S \cup {x}) = ((n + 1) + (c + 1)) % 2
    BY <2>1 DEF Parity
  <2>3. ((n + 1) + (c + 1)) % 2 = (n + c) % 2
    BY <1>2
  <2> QED BY <1>5, <2>2, <2>3, Zenon
<1>7. ASSUME NEW x \in S PROVE Parity(n, S \ {x}) = 1 - Parity(n, S)
  <2> DEFINE b == c - 1
             q == (n + c) % 2
  <2>1. Cardinality(S \ {x}) = b
    BY <1>4
  <2>2. (n + b) % 2 = 1 - q
    BY <1>2
  <2>3. Parity(n, S) = q
    BY <1>5
  <2> HIDE DEF b, q
  <2>4. Parity(n, S \ {x}) = (n + b) % 2
    BY <2>1 DEF Parity
  <2> QED BY <2>2, <2>3, <2>4, Zenon
<1> HIDE DEF Parity
<1> QED BY <1>6, <1>7, <1>8, Zenon

\* What is set from a row that nothing has overtaken is right.
LEMMA SetRight ==
    ASSUME AmendTypes, JobsOnce, MarksTrue, TopTrue, NEW d \in Devices,
           NEW s \in Nat, s <= mark.seq, NEW on \in BOOLEAN, Bit(on) = s % 2, ~Overtaken(d, s)
    PROVE  Toggles(wire[d], Parity(mark.seq, {n \in Owed(d) : n > s}), Bit(on))
<1> DEFINE A == {n \in Owed(d) : n > s}
           N == mark.seq
<1>0. N \in Nat /\ wire[d] \in Seq({"read", "react"}) /\ top[d] \in Nat
  BY DEF AmendTypes, ServerTypes, RoadTypes, HistoryTypes, Marks
<1>1. ~ReactOf(wire[d]) /\ top[d] <= s
  BY <1>0, QueueOf DEF Overtaken
<1>2. A = s + 1 .. N
  <2>1. Owed(d) \subseteq 1 .. N
    BY <1>0, OwedIs
  <2>2. \A n \in 1 .. N : n > s => n \in Owed(d)
    BY <1>0, <1>1 DEF TopTrue
  <2> QED BY <1>0, <2>1, <2>2
<1>5. s <= N
  OBVIOUS
<1>3. Cardinality(A) = N - s
  <2>1. s + 1 \in Int /\ N \in Int
    BY <1>0
  <2> HIDE DEF A, N
  <2>2. Cardinality(s + 1 .. N) = IF s + 1 > N THEN 0 ELSE N - (s + 1) + 1
    BY <2>1, FS_Interval
  <2>3. (IF s + 1 > N THEN 0 ELSE N - (s + 1) + 1) = N - s
    BY <1>0, <1>5 DEF N
  <2> QED BY <1>2, <2>2, <2>3
<1>4. (N + (N - s)) % 2 = s % 2
  <2> HIDE DEF N
  <2>1. N \in Nat /\ s \in Nat /\ N - s \in Nat
    BY <1>0, <1>5
  <2>2. PICK k \in Nat : k = N - s
    BY <2>1
  <2>3. N + (N - s) = 2 * k + s
    BY <2>1, <2>2
  <2>4. (2 * k + s) % 2 = s % 2
    BY <2>2
  <2> QED BY <2>3, <2>4
<1>8. Parity(N, A) = Bit(on)
  BY <1>3, <1>4 DEF Parity
<1>6. Bit(on) \in {0, 1}
  BY DEF Bit
<1> HIDE DEF A, N
<1>7. Toggles(wire[d], Parity(N, A), Bit(on))
  BY <1>0, <1>1, <1>6, <1>8, ToggleNone
<1> QED BY <1>7 DEF A, N

\* What an answer will set is set by it, or by none.
LEMMA WillSetStays ==
    ASSUME AmendTypes, NEW cleared, AmendmentsNext(cleared) \/ Restart, NEW d \in Devices, WillSet(d)
    PROVE  WillSet(d)' \/ SyncRefused(d) \/ (SyncEvents(d) /\ sync[d].seq # 0)
<1>0. /\ mark.seq \in Nat /\ mark'.seq \in Nat /\ mark'.seq >= mark.seq
      /\ rcursor[d] \in Nat /\ sync[d].seq \in Nat
  BY MarkMovesOn DEF AmendTypes, DeviceTypes, Syncs
<1>1. ASSUME Restart PROVE WillSet(d)'
  <2>1. rcursor'[d] = rcursor[d] /\ d \notin conn'
    BY <1>1 DEF Restart
  <2>2. \/ sync[d].at \in {"rows", "marks"} /\ sync'[d].at = "rows"
        \/ sync[d].at = "reacts" /\ sync'[d].at = "idle"
        \/ sync[d].at \in {"idle", "page", "events"} /\ sync'[d] = sync[d]
    <3>1. \/ sync[d].at \in {"rows", "marks"} /\ sync'[d] = [NoSync EXCEPT !.at = "rows"]
          \/ sync[d].at = "reacts" /\ sync'[d] = NoSync
          \/ sync[d].at \in {"idle", "page", "events"} /\ sync'[d] = sync[d]
      BY <1>1, SyncSteps
    <3> QED BY <3>1, Blank
  <2> QED BY <1>0, <2>1, <2>2 DEF WillSet
<1>2. ASSUME sync'[d] = sync[d], rcursor'[d] = rcursor[d], ~Connect(d) PROVE WillSet(d)'
  <2>1. d \notin conn => d \notin conn'
    BY <1>2, NobodyAppears
  <2> QED BY <1>0, <1>2, <2>1 DEF WillSet
<1>3. ASSUME Connect(d) PROVE WillSet(d)'
  <2>1. rcursor'[d] = rcursor[d]
    BY <1>3 DEF Connect
  <2>2. /\ sync[d].at # "idle" => sync'[d] = sync[d]
        /\ sync[d].at = "idle" => sync'[d].at = "rows"
    BY <1>3, SyncSteps
  <2> QED BY <1>0, <2>1, <2>2 DEF WillSet
<1>4. ASSUME SyncRows(d) \/ SyncMarks(d, cleared[d]) \/ SyncMerge(d) PROVE WillSet(d)'
  <2>1. rcursor'[d] = rcursor[d]
    BY <1>4 DEF SyncRows, SyncMarks, SyncMerge
  <2>2. /\ sync[d].at \in {"rows", "marks", "page"} /\ sync'[d].at \in {"marks", "page", "reacts"}
    <3>1. /\ SyncRows(d) => sync[d].at = "rows" /\ sync'[d].at = "marks"
          /\ SyncMarks(d, cleared[d]) => sync[d].at = "marks" /\ sync'[d].at = "page"
          /\ SyncMerge(d) => sync[d].at = "page" /\ sync'[d].at = "reacts"
      BY SyncSteps, Blank
    <3> QED BY <1>4, <3>1
  <2> QED BY <1>0, <2>1, <2>2 DEF WillSet
<1>5. ASSUME SyncReactions(d) PROVE WillSet(d)'
  <2>1. /\ sync[d].at = "reacts" /\ sync'[d].at = "events"
        /\ sync'[d].seq = IF mark.seq > rcursor[d] THEN mark.seq ELSE 0
    BY <1>5, SyncSteps
  <2> QED BY <1>0, <2>1 DEF WillSet
<1>6. ASSUME SyncEvents(d) PROVE sync[d].seq # 0
  <2>1. sync[d].at = "events"
    BY <1>6, SyncSteps
  <2> QED BY <1>0, <2>1 DEF WillSet
<1>7. CASE AmendmentsNext(cleared)
  <2>1. CASE sync'[d] = sync[d] /\ rcursor'[d] = rcursor[d]
    BY <1>2, <1>3, <2>1
  <2>2. CASE ~(sync'[d] = sync[d] /\ rcursor'[d] = rcursor[d])
    <3>1. \E e \in Devices :
                 /\ \/ SyncRows(e) \/ SyncMarks(e, cleared[e]) \/ SyncMerge(e) \/ SyncReactions(e)
                    \/ SyncRefused(e) \/ SyncEvents(e) \/ Connect(e)
                 /\ d # e => sync'[d] = sync[d] /\ rcursor'[d] = rcursor[d]
      BY <1>7, <2>2, SyncsOfOthers
    <3> QED BY <1>3, <1>4, <1>5, <1>6, <2>2, <3>1
  <2> QED BY <2>1, <2>2
<1> QED BY <1>1, <1>7

\* A step in which the reaction on the copy of d stays as it is.
Still(d) ==
    /\ copy'[d].there = copy[d].there /\ copy'[d].on = copy[d].on
    /\ base'[d] = base[d] /\ rcursor'[d] = rcursor[d] /\ wire'[d] = wire[d]

LEMMA StillSteps ==
    ASSUME AmendTypes, NEW cleared, AmendmentsNext(cleared) \/ Restart, NEW d \in Devices
    PROVE  \/ Still(d)
           \/ SendRead(d) \/ SendReaction(d) \/ DropReaction(d) \/ ServeRead(d) \/ ServeReaction(d)
           \/ Receive(d) \/ (SyncMerge(d) /\ sync[d].has) \/ (SyncEvents(d) /\ sync[d].seq # 0)
           \/ Disconnect(d) \/ Restart
<1> DEFINE Moves == \/ SendRead(d) \/ SendReaction(d) \/ DropReaction(d) \/ ServeRead(d) \/ ServeReaction(d)
                    \/ Receive(d) \/ (SyncMerge(d) /\ sync[d].has) \/ (SyncEvents(d) /\ sync[d].seq # 0)
                    \/ Disconnect(d) \/ Restart
           SameCopy == copy'[d].there = copy[d].there /\ copy'[d].on = copy[d].on
<1>0. copy[d] \in Copies /\ wire \in [Devices -> Seq({"read", "react"})] /\ rcursor \in [Devices -> Nat]
  BY DEF AmendTypes, DeviceTypes, RoadTypes
<1>1. SameCopy \/ Moves
  <2>1. CASE copy'[d] = copy[d]
    BY <2>1
  <2>2. CASE copy'[d] = [copy[d] EXCEPT !.body = changes + 1]
    <3>1. SameCopy
      BY <1>0, <2>2 DEF Copies
    <3> QED BY <3>1
  <2>3. CASE copy'[d] = [copy[d] EXCEPT !.deleted = TRUE, !.body = Gone]
    <3>1. SameCopy
      BY <1>0, <2>3 DEF Copies
    <3> QED BY <3>1
  <2>4. CASE SendReaction(d) \/ Receive(d) \/ (SyncMerge(d) /\ sync[d].has) \/ (SyncEvents(d) /\ sync[d].seq # 0)
    BY <2>4
  <2> HIDE DEF SameCopy, Moves
  <2> QED BY <2>1, <2>2, <2>3, <2>4, CopySteps
<1>2. base'[d] = base[d] \/ Moves
  BY BaseSteps
<1>3. rcursor'[d] = rcursor[d] \/ Moves
  <2>1. UNCHANGED rcursor \/ \E e \in Devices : SyncEvents(e)
    BY ZenonT(30) DEF AmendmentsNext, Commit, SubmitEdit, SubmitDelete, SendRead, SendReaction, DropReaction,
       Receive, SyncRows, SyncMarks, SyncMerge, SyncReactions, SyncRefused, Connect, Disconnect,
       LosePost, Amend, Tell, TellOne, Answer, ServeRead, TellRead, ServeReaction,
       EchoReaction, RelayReaction, Restart, device
  <2>2. ASSUME NEW e \in Devices, SyncEvents(e)
        PROVE  rcursor'[d] = rcursor[d] \/ (SyncEvents(d) /\ sync[d].seq # 0)
    BY <1>0, <2>2 DEF SyncEvents
  <2> QED BY <2>1, <2>2
<1>4. wire'[d] = wire[d] \/ Moves
  <2>1. \/ UNCHANGED wire
        \/ \E e \in Devices : \/ SendRead(e) \/ SendReaction(e) \/ DropReaction(e) \/ ServeRead(e)
                              \/ ServeReaction(e) \/ Disconnect(e)
        \/ Restart
    BY ZenonT(30) DEF AmendmentsNext, Commit, SubmitEdit, SubmitDelete,
       Receive, SyncRows, SyncMarks, SyncMerge, SyncReactions, SyncRefused, SyncEvents, Connect,
       LosePost, Amend, Tell, TellOne, Answer, TellRead,
       EchoReaction, RelayReaction, roads
  <2>2. ASSUME NEW e \in Devices, e # d,
               \/ SendRead(e) \/ SendReaction(e) \/ DropReaction(e) \/ ServeRead(e)
               \/ ServeReaction(e) \/ Disconnect(e)
        PROVE  wire'[d] = wire[d]
    BY <1>0, <2>2 DEF SendRead, SendReaction, SendFrame, DropReaction, ServeRead, ServeReaction, TakeFrame,
       Disconnect
  <2> QED BY <2>1, <2>2
<1>5. SameCopy /\ base'[d] = base[d] /\ rcursor'[d] = rcursor[d] /\ wire'[d] = wire[d] => Still(d)
  BY DEF Still
<1> HIDE DEF SameCopy, Moves
<1>6. Still(d) \/ Moves
  BY <1>1, <1>2, <1>3, <1>4, <1>5
<1> QED BY <1>6 DEF Moves

LEMMA RightNext ==
    ASSUME NEW d \in Devices
    PROVE  /\ Right(d)' <=> Toggles(wire'[d], Parity(mark'.seq, Above(d)'), Bit(copy'[d].on))
           /\ Above(d)' = {n \in Owed(d)' : n > base'[d]}
           /\ Owed(d)' = MarksOf(inbox'[d]) \cup JobMarks(d)'
           /\ Owed(d) = MarksOf(inbox[d]) \cup JobMarks(d)
<1>1. MarksIn(d)' = MarksOf(inbox'[d]) /\ MarksIn(d) = MarksOf(inbox[d])
  BY QueueOf, QueueOfNext
<1>2. Owed(d)' = MarksIn(d)' \cup JobMarks(d)' /\ Owed(d) = MarksIn(d) \cup JobMarks(d)
  BY DEF Owed
<1>3. Above(d)' = {n \in Owed(d)' : n > base'[d]}
  BY DEF Above
<1>4. Right(d)' <=> Toggles(wire'[d], Parity(mark'.seq, Above(d)'), Bit(copy'[d].on))
  BY DEF Right
<1> QED BY <1>1, <1>2, <1>3, <1>4

LEMMA OwedSame ==
    ASSUME NEW d \in Devices, inbox'[d] = inbox[d],
           \A e \in Devices : /\ JobFor(e, d)' <=> JobFor(e, d)
                              /\ JobFor(e, d) => req'[e].ver = req[e].ver
    PROVE  Owed(d)' = Owed(d) /\ (base'[d] = base[d] => Above(d)' = Above(d))
<1>1. JobMarks(d)' = JobMarks(d)
  BY JobMarksStay
<1>2. Owed(d)' = Owed(d)
  BY <1>1, RightNext
<1> QED BY <1>2, RightNext DEF Above

\* What is right with nothing changed but the ends of the toggles.
LEMMA MarkFacts ==
    ASSUME AmendTypes, JobsOnce, MarksTrue, NEW d \in Devices
    PROVE  /\ mark.seq \in Nat /\ base[d] \in Nat /\ base[d] <= mark.seq
           /\ rcursor[d] \in Nat /\ copy[d].on \in BOOLEAN /\ wire[d] \in Seq({"read", "react"})
           /\ sync[d] \in Syncs /\ sync[d].seq \in Nat
           /\ sync[d].at \in {"idle", "rows", "marks", "page", "reacts", "events"}
           /\ \A b \in BOOLEAN : Bit(b) \in {0, 1}
           /\ Above(d) \in SUBSET Owed(d) /\ IsFiniteSet(Above(d))
           /\ Parity(mark.seq, Above(d)) \in {0, 1}
           /\ Owed(d) \subseteq 1 .. mark.seq
<1>1. /\ mark.seq \in Nat /\ base[d] \in Nat /\ rcursor[d] \in Nat /\ copy[d].on \in BOOLEAN
      /\ wire[d] \in Seq({"read", "react"}) /\ sync[d] \in Syncs
  <2>1. mark \in Marks /\ base \in [Devices -> Nat] /\ rcursor \in [Devices -> Nat]
        /\ copy \in [Devices -> Copies] /\ wire \in [Devices -> Seq({"read", "react"})]
        /\ sync \in [Devices -> Syncs]
    BY DEF AmendTypes, ServerTypes, RoadTypes, HistoryTypes, DeviceTypes
  <2> QED BY <2>1 DEF Marks, Copies
<1>2. sync[d].seq \in Nat /\ sync[d].at \in {"idle", "rows", "marks", "page", "reacts", "events"}
  BY <1>1 DEF Syncs
<1>3. base[d] <= mark.seq
  BY DEF MarksTrue
<1>4. \A b \in BOOLEAN : Bit(b) \in {0, 1}
  BY DEF Bit
<1>5. Above(d) \in SUBSET Owed(d)
  BY DEF Above
<1>6. IsFiniteSet(Above(d)) /\ Owed(d) \subseteq 1 .. mark.seq
  BY <1>1, <1>5, OwedIs
<1>7. Parity(mark.seq, Above(d)) \in {0, 1}
  BY <1>1, <1>6, ParityIs
<1> QED BY <1>1, <1>2, <1>3, <1>4, <1>5, <1>6, <1>7

\* A reaction of which d is not told, or not yet.
LEMMA OthersServe ==
    ASSUME AmendTypes, Roles, JobsOnce, MarksTrue, NEW d \in Devices, NEW e \in Devices,
           e # d, ServeReaction(e), Still(d), Right(d)
    PROVE  Right(d)'
<1>1. /\ inbox' = inbox /\ mark'.seq = mark.seq + 1 /\ JobMarks(d)' = JobMarks(d) \cup {mark.seq + 1}
  BY LoopServes
<1>2. Owed(d)' = Owed(d) \cup {mark.seq + 1}
  BY <1>1, RightNext
<1>3. Above(d)' = Above(d) \cup {mark.seq + 1}
  <2>1. base'[d] = base[d]
    BY DEF Still
  <2>2. mark.seq + 1 > base[d]
    BY MarkFacts
  <2> QED BY <1>2, <2>1, <2>2, RightNext DEF Above
<1>4. mark.seq + 1 \notin Above(d)
  <2>1. Above(d) \subseteq 1 .. mark.seq /\ mark.seq \in Nat
    BY MarkFacts
  <2> QED BY <2>1
<1>5. Parity(mark.seq + 1, Above(d) \cup {mark.seq + 1}) = Parity(mark.seq, Above(d))
  <2>1. mark.seq \in Nat /\ IsFiniteSet(Above(d))
    BY MarkFacts
  <2> QED BY <1>4, <2>1, ParityIs
<1>6. Parity(mark'.seq, Above(d)') = Parity(mark.seq, Above(d))
  BY <1>1, <1>3, <1>5
<1>7. wire'[d] = wire[d] /\ copy'[d].on = copy[d].on
  BY DEF Still
<1> QED BY <1>6, <1>7, RightNext DEF Right

LEMMA CalmStays ==
    ASSUME NEW d \in Devices, Calm(d), Still(d), Right(d)
    PROVE  Right(d)'
<1>1. /\ MarksOf(inbox'[d]) = MarksIn(d) /\ JobMarks(d)' = JobMarks(d) /\ mark'.seq = mark.seq
  BY DEF Calm
<1>2. Owed(d)' = Owed(d)
  BY <1>1, RightNext DEF Owed
<1>3. wire'[d] = wire[d] /\ copy'[d].on = copy[d].on /\ base'[d] = base[d]
  BY DEF Still
<1>4. Above(d)' = Above(d)
  BY <1>2, <1>3, RightNext DEF Above
<1> QED BY <1>1, <1>3, <1>4, RightNext DEF Right

\* It is told, or it is not there and will set its copy, or has lost the reaction.
LEMMA LoopTells ==
    ASSUME AmendTypes, Roles, JobsOnce, MarksTrue, NEW d \in Devices, NEW e \in Devices,
           EchoReaction(e) \/ RelayReaction(e), Comes(e, d), Still(d), Right(d),
           rcursor[d] <= base[d]
    PROVE  Right(d)' \/ WillSet(d)' \/ amiss'[d].on
<1> DEFINE n == req[e].ver
<1>0. wire'[d] = wire[d] /\ copy'[d].on = copy[d].on /\ base'[d] = base[d] /\ rcursor'[d] = rcursor[d]
  BY DEF Still
<1>1. /\ JobMarks(d)' = JobMarks(d) \ {n} /\ mark'.seq = mark.seq /\ n \in JobMarks(d)
      /\ \/ d \in conn /\ inbox'[d] = Append(inbox[d], [kind |-> "react", seq |-> n])
         \/ d \notin conn /\ inbox'[d] = inbox[d] /\ (LosesMark(d, n) => amiss'[d].on)
  BY DEF Comes
<1>2. n \in 1 .. mark.seq /\ mark.seq \in Nat
  BY <1>1, JobMarksServed, MarkFacts
<1>3. ASSUME Above(d)' = Above(d) PROVE Right(d)'
  BY <1>0, <1>1, <1>3, RightNext DEF Right
<1>4. CASE d \in conn /\ inbox'[d] = Append(inbox[d], [kind |-> "react", seq |-> n])
  <2>1. inbox[d] \in Seq(Frame) /\ [kind |-> "react", seq |-> n] \in Frame
    <3>1. n \in Nat
      BY <1>2
    <3> QED BY <3>1, FrameKinds DEF AmendTypes, RoadTypes
  <2>2. MarksOf(inbox'[d]) = MarksOf(inbox[d]) \cup {n}
    BY <1>4, <2>1, ViewsAppend
  <2>3. Owed(d)' = Owed(d)
    <3>1. JobMarks(d)' = JobMarks(d) \ {n} /\ n \in JobMarks(d)
      BY <1>1
    <3>2. /\ Owed(d)' = MarksOf(inbox'[d]) \cup JobMarks(d)'
          /\ Owed(d) = MarksOf(inbox[d]) \cup JobMarks(d)
      BY RightNext
    <3> HIDE DEF n
    <3>3. (MarksOf(inbox[d]) \cup {n}) \cup (JobMarks(d) \ {n}) = MarksOf(inbox[d]) \cup JobMarks(d)
      BY <3>1
    <3> QED BY <2>2, <3>1, <3>2, <3>3
  <2>4. Above(d)' = Above(d)
    BY <1>0, <2>3, RightNext DEF Above
  <2> QED BY <1>3, <2>4
<1>5. CASE d \notin conn /\ inbox'[d] = inbox[d] /\ (LosesMark(d, n) => amiss'[d].on)
  <2>1. Owed(d)' = Owed(d) \ {n}
    <3>1. n \notin MarksIn(d) /\ MarksIn(d) = MarksOf(inbox[d])
      BY <1>1, QueueOf DEF MarksTrue
    <3> QED BY <1>1, <1>5, <3>1, RightNext
  <2>2. CASE n <= base[d]
    <3>1. ~(n > base[d])
      BY <1>2, <2>2, MarkFacts
    <3>2. Above(d)' = Above(d)
      BY <1>0, <2>1, <3>1, RightNext DEF Above
    <3> QED BY <1>3, <3>2
  <2>3. CASE ~(n <= base[d]) /\ ~LosesMark(d, n)
    <3>1. rcursor'[d] < mark'.seq /\ n > 0
      BY <1>0, <1>1, <1>2, <2>3, MarkFacts
    <3>2. sync' = sync /\ conn' = conn
      BY DEF EchoReaction, RelayReaction, device
    <3>3. sync[d].at \in {"idle", "rows", "marks", "page", "reacts", "events"} /\ sync[d].seq \in Nat
      BY MarkFacts
    <3>4. sync[d].at = "events" => sync[d].seq > 0
      BY <1>2, <2>3, <3>1, <3>3 DEF LosesMark
    <3>5. WillSet(d)' <=>
            \/ sync'[d].at = "events" /\ sync'[d].seq > 0
            \/ /\ rcursor'[d] < mark'.seq
               /\ sync'[d].at \in {"rows", "marks", "page", "reacts"} \/ (sync'[d].at = "idle" /\ d \notin conn')
      BY DEF WillSet
    <3> HIDE DEF n
    <3> QED BY <1>5, <3>1, <3>2, <3>3, <3>4, <3>5
  <2> QED BY <1>5, <2>2, <2>3
<1> QED BY <1>1, <1>4, <1>5

\* What is said of the reaction on the copy of d.
MarkRight(d) ==
    copy[d].there => amiss[d].on \/ (rcursor[d] <= base[d] /\ (Right(d) \/ WillSet(d)))

LEMMA StillStep ==
    ASSUME AmendTypes, Roles, JobsOnce, MarksTrue, NEW cleared, AmendmentsNext(cleared) \/ Restart,
           NEW d \in Devices, MarkRight(d), Still(d),
           ~Receive(d), ~(SyncMerge(d) /\ sync[d].has), ~(SyncEvents(d) /\ sync[d].seq # 0),
           ~ServeReaction(d), ~Disconnect(d), ~Restart
    PROVE  MarkRight(d)'
<1> SUFFICES ASSUME copy'[d].there, ~amiss'[d].on
             PROVE  rcursor'[d] <= base'[d] /\ (Right(d)' \/ WillSet(d)')
  BY DEF MarkRight
<1>0. /\ copy[d].there /\ base'[d] = base[d] /\ rcursor'[d] = rcursor[d]
  BY DEF Still
<1>1. ~amiss[d].on
  BY AmissStays
<1>2. rcursor[d] <= base[d] /\ (Right(d) \/ WillSet(d))
  BY <1>0, <1>1 DEF MarkRight
<1>3. CASE WillSet(d)
  <2>1. SyncRefused(d) => amiss'[d].on
    BY AmissBySync
  <2> QED BY <1>0, <1>2, <1>3, <2>1, WillSetStays
<1>4. CASE Right(d)
  <2>1. ASSUME NEW e \in Devices, ServeReaction(e) PROVE Right(d)'
    BY <1>4, <2>1, OthersServe
  <2>2. ASSUME NEW e \in Devices, EchoReaction(e) \/ RelayReaction(e), Comes(e, d)
        PROVE  Right(d)' \/ WillSet(d)'
    BY <1>2, <1>4, <2>2, LoopTells
  <2>3. CASE Calm(d)
    BY <1>0, <1>2, <1>4, <2>3, CalmStays
  <2>4. Right(d)' \/ WillSet(d)'
    BY <2>1, <2>2, <2>3, OwedSteps
  <2> QED BY <1>0, <1>2, <2>4
<1> QED BY <1>2, <1>3, <1>4

\* It toggles its copy and sends the toggle.
LEMMA SendStep ==
    ASSUME AmendTypes, Roles, JobsOnce, MarksTrue, NEW d \in Devices, MarkRight(d),
           SendRead(d) \/ SendReaction(d)
    PROVE  MarkRight(d)'
<1>1. /\ mark' = mark /\ req' = req /\ inbox' = inbox /\ base' = base /\ amiss' = amiss /\ conn' = conn
      /\ rcursor' = rcursor /\ sync' = sync
  BY DEF SendRead, SendReaction, device, history
<1>2. Owed(d)' = Owed(d) /\ Above(d)' = Above(d)
  <2>1. \A e \in Devices : (JobFor(e, d)' <=> JobFor(e, d)) /\ req'[e].ver = req[e].ver
    BY <1>1 DEF JobFor
  <2> QED BY <1>1, <2>1, OwedSame
<1>3. WillSet(d) => WillSet(d)'
  BY <1>1 DEF WillSet
<1>4. copy[d].there
  BY DEF SendRead, SendReaction, SendFrame
<1>5. Right(d) => Right(d)'
  <2> SUFFICES ASSUME Right(d) PROVE Right(d)'
    OBVIOUS
  <2>0. wire \in [Devices -> Seq({"read", "react"})] /\ copy \in [Devices -> Copies]
    BY DEF AmendTypes, RoadTypes, DeviceTypes
  <2> DEFINE m == Parity(mark.seq, Above(d))
  <2>1. m \in {0, 1} /\ Bit(copy[d].on) \in {0, 1} /\ copy[d].on \in BOOLEAN
    BY MarkFacts
  <2>2. Toggles(wire[d], m, Bit(copy[d].on)) /\ wire[d] \in Seq({"read", "react"})
    BY <2>0 DEF Right
  <2>3. Right(d)' <=> Toggles(wire'[d], m, Bit(copy'[d].on))
    BY <1>1, <1>2, RightNext
  <2> HIDE DEF m
  <2>4. CASE SendRead(d)
    <3>1. wire'[d] = Append(wire[d], "read") /\ copy'[d].on = copy[d].on
      BY <2>0, <2>4 DEF SendRead, SendFrame, device
    <3>2. Toggles(Append(wire[d], "read"), m, Bit(copy[d].on))
      <4>1. Toggles(Append(wire[d], "read"), m, IF "read" = "react" THEN 1 - Bit(copy[d].on) ELSE Bit(copy[d].on))
        BY <2>1, <2>2, ToggleMore
      <4>2. (IF "read" = "react" THEN 1 - Bit(copy[d].on) ELSE Bit(copy[d].on)) = Bit(copy[d].on)
        OBVIOUS
      <4> QED BY <4>1, <4>2, Zenon
    <3> QED BY <2>3, <3>1, <3>2
  <2>5. CASE SendReaction(d)
    <3>1. wire'[d] = Append(wire[d], "react") /\ copy'[d].on = ~copy[d].on
      BY <2>0, <2>5 DEF SendReaction, SendFrame, Copies
    <3>2. Bit(~copy[d].on) = 1 - Bit(copy[d].on)
      BY <2>1 DEF Bit
    <3>3. Toggles(Append(wire[d], "react"), m, Bit(~copy[d].on))
      <4>1. Toggles(Append(wire[d], "react"), m, IF "react" = "react" THEN 1 - Bit(copy[d].on) ELSE Bit(copy[d].on))
        BY <2>1, <2>2, ToggleMore
      <4>2. (IF "react" = "react" THEN 1 - Bit(copy[d].on) ELSE Bit(copy[d].on)) = 1 - Bit(copy[d].on)
        OBVIOUS
      <4> QED BY <3>2, <4>1, <4>2, Zenon
    <3> QED BY <2>3, <3>1, <3>3
  <2> QED BY <2>4, <2>5
<1> QED BY <1>1, <1>3, <1>4, <1>5 DEF MarkRight

\* The read loop takes a frame of d.
LEMMA ServeStep ==
    ASSUME AmendTypes, Roles, JobsOnce, MarksTrue, NEW d \in Devices, MarkRight(d),
           ServeRead(d) \/ ServeReaction(d) \/ DropReaction(d)
    PROVE  MarkRight(d)'
<1>0. wire \in [Devices -> Seq({"read", "react"})] /\ mark.seq \in Nat
  BY MarkFacts DEF AmendTypes, RoadTypes
<1>1. ASSUME DropReaction(d) PROVE MarkRight(d)'
  BY <1>1, AmissByHandlers DEF MarkRight
<1> DEFINE m == Parity(mark.seq, Above(d))
<1>4. m \in {0, 1} /\ Bit(copy[d].on) \in {0, 1}
  BY MarkFacts
<1>2. ASSUME ServeRead(d) PROVE MarkRight(d)'
  <2>1. /\ mark' = mark /\ inbox' = inbox /\ base' = base /\ amiss' = amiss /\ conn' = conn
        /\ rcursor' = rcursor /\ sync' = sync /\ copy' = copy
    BY <1>2 DEF ServeRead, device, history
  <2>2. Owed(d)' = Owed(d) /\ Above(d)' = Above(d)
    <3>1. \/ req' = req
          \/ /\ req[d].at = "idle" /\ req'[d].at = "ack"
             /\ \A o \in (Procs \cup Devices) \ {d} : req'[o] = req[o]
      <4>1. /\ row.read => UNCHANGED <<row, req>>
            /\ ~row.read => /\ req[d].at = "idle" /\ req'[d].at = "ack"
                            /\ \A o \in (Procs \cup Devices) \ {d} : req'[o] = req[o]
        BY <1>2, LoopSteps
      <4> QED BY <4>1
    <3>2. \A e \in Devices : /\ JobFor(e, d)' <=> JobFor(e, d)
                             /\ JobFor(e, d) => req'[e].ver = req[e].ver
      BY <3>1 DEF JobFor
    <3> QED BY <2>1, <3>2, OwedSame
  <2>3. WillSet(d) => WillSet(d)'
    BY <2>1 DEF WillSet
  <2>4. Right(d) => Right(d)'
    <3> SUFFICES ASSUME Right(d) PROVE Right(d)'
      OBVIOUS
    <3>1. wire[d] # << >> /\ Head(wire[d]) = "read" /\ wire'[d] = Tail(wire[d])
      BY <1>0, <1>2 DEF ServeRead, TakeFrame
    <3>2. Toggles(wire[d], m, Bit(copy[d].on)) /\ wire[d] \in Seq({"read", "react"})
      BY <1>0 DEF Right
    <3>3. Right(d)' <=> Toggles(wire'[d], m, Bit(copy[d].on))
      BY <2>1, <2>2, RightNext
    <3> HIDE DEF m
    <3>4. Toggles(Tail(wire[d]), IF Head(wire[d]) = "react" THEN 1 - m ELSE m, Bit(copy[d].on))
      BY <1>4, <3>1, <3>2, ToggleLess
    <3>5. (IF Head(wire[d]) = "react" THEN 1 - m ELSE m) = m
      BY <3>1
    <3> QED BY <3>1, <3>3, <3>4, <3>5
  <2> QED BY <2>1, <2>3, <2>4 DEF MarkRight
<1>3. ASSUME ServeReaction(d) PROVE MarkRight(d)'
  <2>1. /\ inbox' = inbox /\ base' = base /\ amiss' = amiss /\ conn' = conn
        /\ rcursor' = rcursor /\ sync' = sync /\ copy' = copy
    BY <1>3 DEF ServeReaction, device
  <2>2. mark'.seq = mark.seq + 1 /\ JobMarks(d)' = JobMarks(d)
    BY <1>3, LoopServes
  <2>3. Above(d)' = Above(d)
    <3>1. Owed(d)' = Owed(d)
      BY <2>1, <2>2, RightNext
    <3> QED BY <2>1, <3>1, RightNext DEF Above
  <2>4. WillSet(d) => WillSet(d)'
    <3>1. rcursor[d] \in Nat
      BY MarkFacts
    <3> QED BY <1>0, <2>1, <2>2, <3>1 DEF WillSet
  <2>5. Right(d) => Right(d)'
    <3> SUFFICES ASSUME Right(d) PROVE Right(d)'
      OBVIOUS
    <3>1. wire[d] # << >> /\ Head(wire[d]) = "react" /\ wire'[d] = Tail(wire[d])
      BY <1>0, <1>3 DEF ServeReaction, TakeFrame
    <3>2. Toggles(wire[d], m, Bit(copy[d].on)) /\ wire[d] \in Seq({"read", "react"})
      BY <1>0 DEF Right
    <3>6. Parity(mark'.seq, Above(d)') = 1 - m
      BY <1>0, <2>2, <2>3, MarkFacts, ParityIs
    <3>3. Right(d)' <=> Toggles(wire'[d], 1 - m, Bit(copy[d].on))
      BY <2>1, <3>6, RightNext
    <3> HIDE DEF m
    <3>4. Toggles(Tail(wire[d]), IF Head(wire[d]) = "react" THEN 1 - m ELSE m, Bit(copy[d].on))
      BY <1>4, <3>1, <3>2, ToggleLess
    <3>5. (IF Head(wire[d]) = "react" THEN 1 - m ELSE m) = 1 - m
      BY <3>1
    <3> QED BY <3>1, <3>3, <3>4, <3>5
  <2> QED BY <2>1, <2>4, <2>5 DEF MarkRight
<1> QED BY <1>1, <1>2, <1>3

\* It sets its copy from a row.
LEMMA SetStep ==
    ASSUME AmendTypes, Roles, JobsOnce, MarksTrue, TopTrue, PagesTrue, NEW d \in Devices, MarkRight(d),
           (SyncMerge(d) /\ sync[d].has) \/ (SyncEvents(d) /\ sync[d].seq # 0)
    PROVE  MarkRight(d)'
<1> SUFFICES ASSUME copy'[d].there, ~amiss'[d].on
             PROVE  rcursor'[d] <= base'[d] /\ Right(d)'
  BY DEF MarkRight
<1> DEFINE s == sync[d]
<1>0. /\ copy \in [Devices -> Copies] /\ base \in [Devices -> Nat] /\ rcursor \in [Devices -> Nat]
      /\ sync \in [Devices -> Syncs] /\ s.seq \in Nat /\ mark.seq \in Nat /\ s.on \in BOOLEAN
  <2>1. sync \in [Devices -> Syncs]
    BY DEF AmendTypes, DeviceTypes
  <2> QED BY <2>1, MarkFacts DEF AmendTypes, DeviceTypes, HistoryTypes, Syncs
<1>1. /\ mark' = mark /\ inbox' = inbox /\ req' = req /\ wire' = wire
  BY DEF SyncMerge, SyncEvents, roads
<1>2. Owed(d)' = Owed(d)
  <2>1. \A e \in Devices : (JobFor(e, d)' <=> JobFor(e, d)) /\ req'[e].ver = req[e].ver
    BY <1>1 DEF JobFor
  <2> QED BY <1>1, <2>1, OwedSame
<1>3. /\ s.at = "page" \/ (s.at = "events" /\ s.seq > 0)
      /\ copy'[d].on = s.on /\ base'[d] = s.seq
      /\ rcursor'[d] \in {rcursor[d], s.seq}
  <2>1. ASSUME SyncMerge(d), s.has
        PROVE  s.at = "page" /\ copy'[d].on = s.on /\ base'[d] = s.seq /\ rcursor'[d] = rcursor[d]
    BY <1>0, <2>1 DEF SyncMerge
  <2>2. ASSUME SyncEvents(d), s.seq # 0
        PROVE  s.at = "events" /\ copy'[d].on = s.on /\ base'[d] = s.seq /\ rcursor'[d] = s.seq
    <3>1. copy[d].there
      BY <2>2 DEF SyncEvents
    <3> QED BY <1>0, <2>2, <3>1 DEF SyncEvents, Copies
  <2> QED BY <1>0, <2>1, <2>2
<1>4. s.seq <= mark.seq /\ Bit(s.on) = s.seq % 2 /\ rcursor[d] <= s.seq
  BY <1>3 DEF PagesTrue, PageMark
<1>5. ~Overtaken(d, s.seq)
  <2>1. SyncEvents(d) /\ s.seq # 0 => copy[d].there
    BY DEF SyncEvents
  <2> QED BY <2>1, AmissBySync
<1> HIDE DEF s
<1>6. Toggles(wire[d], Parity(mark.seq, {n \in Owed(d) : n > s.seq}), Bit(s.on))
  BY <1>0, <1>4, <1>5, SetRight
<1>7. Above(d)' = {n \in Owed(d) : n > s.seq}
  BY <1>2, <1>3, RightNext
<1>8. Right(d)'
  BY <1>1, <1>3, <1>6, <1>7, RightNext
<1>9. rcursor'[d] <= base'[d]
  BY <1>0, <1>3, <1>4
<1> QED BY <1>8, <1>9

LEMMA AmissOnReceive ==
    ASSUME AmendTypes, NEW d \in Devices, Receive(d)
    PROVE  /\ inbox[d][1].kind = "new" /\ ~copy[d].there => (ComesBare(d) => amiss'[d].on) /\ base'[d] = 0
           /\ copy[d].there =>
                 /\ amiss[d].on => amiss'[d].on
                 /\ inbox[d][1].kind = "react" /\ inbox[d][1].seq <= base[d] => amiss'[d].on
                 /\ base'[d] = base[d]
<1> DEFINE f == Head(inbox[d])
           comes == f.kind = "new" /\ ~copy[d].there
           bare == ComesBare(d)
           late == amiss[d].on \/ (f.kind = "react" /\ f.seq <= base[d])
<1>0. /\ amiss \in [Devices -> Faults] /\ base \in [Devices -> Nat] /\ inbox \in [Devices -> Seq(Frame)]
  BY DEF AmendTypes, HistoryTypes, RoadTypes
<1>1. f = inbox[d][1]
  BY <1>0 DEF Receive
<1>2. amiss'[d].on = IF comes THEN bare ELSE late
  BY <1>0 DEF Receive
<1>3. base'[d] = IF comes THEN 0 ELSE base[d]
  BY <1>0 DEF Receive
<1>4. comes => f.kind = "new" /\ ~copy[d].there
  OBVIOUS
<1>5. f.kind = "new" /\ ~copy[d].there => comes
  OBVIOUS
<1>6. late <=> amiss[d].on \/ (f.kind = "react" /\ f.seq <= base[d])
  OBVIOUS
<1> HIDE DEF f, comes, bare, late
<1>7. ASSUME f.kind = "new", ~copy[d].there PROVE (bare => amiss'[d].on) /\ base'[d] = 0
  BY <1>2, <1>3, <1>5, <1>7
<1>8. ASSUME copy[d].there PROVE (late => amiss'[d].on) /\ base'[d] = base[d]
  BY <1>2, <1>3, <1>4, <1>8
<1> QED BY <1>1, <1>6, <1>7, <1>8 DEF bare

\* A frame comes to d.
LEMMA ReceiveStep ==
    ASSUME AmendTypes, Roles, JobsOnce, MarksTrue, TopTrue, NEW d \in Devices, MarkRight(d), Receive(d)
    PROVE  MarkRight(d)'
<1> SUFFICES ASSUME copy'[d].there, ~amiss'[d].on
             PROVE  rcursor'[d] <= base'[d] /\ (Right(d)' \/ WillSet(d)')
  BY DEF MarkRight
<1> DEFINE f == inbox[d][1]
           N == mark.seq
<1>1. /\ mark' = mark /\ wire' = wire /\ rcursor' = rcursor /\ sync' = sync /\ conn' = conn
  BY DEF Receive
<1>2. /\ inbox[d] \in Seq(Frame) /\ inbox[d] # << >> /\ inbox'[d] = Tail(inbox[d]) /\ f \in Frame
      /\ JobMarks(d)' = JobMarks(d)
      /\ f.kind = "react" => f.seq \in Nat
  BY ReceiveMarks
<1>3. copy[d] \in Copies /\ copy'[d] = Shown(copy[d], f)
  BY <1>2 DEF AmendTypes, DeviceTypes, Receive
<1>4. /\ MarksOf(inbox[d]) = MarksOf(inbox'[d]) \cup (IF f.kind = "react" THEN {f.seq} ELSE {})
      /\ MarksOnce(inbox[d]) /\ f.kind = "react" => f.seq \notin MarksOf(inbox'[d])
  BY <1>2, ViewsTail, TailOfQueue
<1>5. WillSet(d) => WillSet(d)'
  BY <1>1 DEF WillSet
<1>6. ASSUME f.kind # "react" PROVE Owed(d)' = Owed(d)
  <2>1. MarksOf(inbox[d]) = MarksOf(inbox'[d])
    BY <1>4, <1>6
  <2> QED BY <1>2, <2>1, RightNext
<1>7. CASE ~copy[d].there
  <2>1. f.kind = "new" /\ ~copy'[d].on
    BY <1>2, <1>3, <1>7, ShownNew
  <2>2. base'[d] = 0 /\ ~ComesBare(d)
    BY <1>7, <2>1, AmissOnReceive
  <2>3. ~Overtaken(d, 0) /\ rcursor[d] = 0
    BY <2>2, MarkFacts DEF ComesBare
  <2>4. Toggles(wire[d], Parity(N, {n \in Owed(d) : n > 0}), Bit(FALSE))
    <3>1. 0 <= N /\ 0 \in Nat /\ FALSE \in BOOLEAN
      BY MarkFacts
    <3>2. Bit(FALSE) = 0 % 2
      BY DEF Bit
    <3> HIDE DEF N
    <3>3. Toggles(wire[d], Parity(mark.seq, {n \in Owed(d) : n > 0}), Bit(FALSE))
      BY <2>3, <3>1, <3>2, SetRight DEF N
    <3> QED BY <3>3 DEF N
  <2>5. Above(d)' = {n \in Owed(d) : n > 0}
    BY <1>6, <2>1, <2>2, RightNext
  <2>6. Bit(copy'[d].on) = Bit(FALSE)
    BY <2>1 DEF Bit
  <2>7. Right(d)'
    BY <1>1, <2>4, <2>5, <2>6, RightNext
  <2> QED BY <1>1, <2>2, <2>3, <2>7
<1>8. CASE copy[d].there
  <2>1. /\ ~amiss[d].on /\ base'[d] = base[d]
        /\ f.kind = "react" => ~(f.seq <= base[d])
    BY <1>8, AmissOnReceive
  <2>2. rcursor[d] <= base[d] /\ (Right(d) \/ WillSet(d))
    BY <1>8, <2>1 DEF MarkRight
  <2>3. copy'[d].on = IF f.kind = "react" THEN ~copy[d].on ELSE copy[d].on
    BY <1>2, <1>3, <1>8, ShownThere
  <2>4. Right(d) => Right(d)'
    <3> SUFFICES ASSUME Right(d) PROVE Right(d)'
      OBVIOUS
    <3>1. CASE f.kind # "react"
      <4>1. Above(d)' = Above(d)
        BY <1>6, <2>1, <3>1, RightNext DEF Above
      <4> QED BY <1>1, <2>3, <3>1, <4>1, RightNext DEF Right
    <3>2. CASE f.kind = "react"
      <4> DEFINE n == f.seq
                 m == Parity(N, Above(d))
      <4>1. n \in Nat /\ n > base[d]
        BY <1>2, <2>1, <3>2, MarkFacts
      <4>2. n \in Owed(d) /\ Owed(d)' = Owed(d) \ {n}
        <5>1. MarksOf(inbox[d]) = MarksOf(inbox'[d]) \cup {n} /\ n \notin MarksOf(inbox'[d])
          BY <1>4, <3>2 DEF MarksTrue
        <5>2. n \notin JobMarks(d)
          BY <5>1, QueueOf DEF MarksTrue
        <5> QED BY <1>2, <5>1, <5>2, RightNext
      <4>3. n \in Above(d) /\ Above(d)' = Above(d) \ {n}
        BY <2>1, <4>1, <4>2, RightNext DEF Above
      <4>4. Parity(N, Above(d)') = 1 - m
        <5>1. mark.seq \in Nat /\ IsFiniteSet(Above(d))
          BY MarkFacts
        <5>2. \A x \in Above(d) : Parity(mark.seq, Above(d) \ {x}) = 1 - Parity(mark.seq, Above(d))
          BY <5>1, ParityIs
        <5> QED BY <4>3, <5>2
      <4>5. Toggles(wire[d], m, Bit(copy[d].on)) /\ m \in {0, 1} /\ Bit(copy[d].on) \in {0, 1}
        BY MarkFacts DEF Right
      <4>6. Bit(copy'[d].on) = 1 - Bit(copy[d].on)
        <5>1. copy[d].on \in BOOLEAN
          BY MarkFacts
        <5>2. Bit(~copy[d].on) = 1 - Bit(copy[d].on)
          BY <5>1 DEF Bit
        <5>3. copy'[d].on = ~copy[d].on
          BY <2>3, <3>2
        <5> QED BY <5>2, <5>3
      <4> HIDE DEF m
      <4>7. Toggles(wire[d], 1 - m, 1 - Bit(copy[d].on))
        BY <4>5, MarkFacts, ToggleOther
      <4> QED BY <1>1, <4>4, <4>6, <4>7, RightNext
    <3> QED BY <3>1, <3>2
  <2> QED BY <1>1, <1>5, <2>1, <2>2, <2>4
<1> QED BY <1>7, <1>8

\* What it is not told any more it will ask for, or has lost.
LEMMA AsksAgain ==
    ASSUME AmendTypes, JobsOnce, MarksTrue, NEW d \in Devices, NEW n \in Nat, rcursor[d] <= base[d], base[d] < n,
           n <= mark.seq, rcursor'[d] = rcursor[d], mark' = mark, d \notin conn',
           sync[d].at = "events" => ~LosesMark(d, n),
           \/ sync'[d] = sync[d]
           \/ sync[d].at \in {"rows", "marks"} /\ sync'[d].at = "rows"
           \/ sync[d].at = "reacts" /\ sync'[d].at = "idle"
    PROVE  WillSet(d)'
<1>1. /\ sync[d].at \in {"idle", "rows", "marks", "page", "reacts", "events"} /\ sync[d].seq \in Nat
      /\ rcursor[d] \in Nat /\ base[d] \in Nat /\ mark.seq \in Nat
  BY MarkFacts
<1>2. rcursor'[d] < mark'.seq
  BY <1>1
<1>3. sync[d].at = "events" => sync[d].seq > 0
  BY <1>1 DEF LosesMark
<1> QED BY <1>1, <1>2, <1>3 DEF WillSet

LEMMA DisconnectStep ==
    ASSUME AmendTypes, Roles, JobsOnce, MarksTrue, NEW d \in Devices, MarkRight(d), Disconnect(d)
    PROVE  MarkRight(d)'
<1> SUFFICES ASSUME copy'[d].there, ~amiss'[d].on
             PROVE  rcursor'[d] <= base'[d] /\ (Right(d)' \/ WillSet(d)')
  BY DEF MarkRight
<1>1. /\ copy' = copy /\ base' = base /\ rcursor' = rcursor /\ sync' = sync /\ conn' = conn \ {d}
      /\ wire'[d] = << >> /\ mark' = mark /\ inbox'[d] = << >> /\ JobMarks(d)' = JobMarks(d)
  BY BreakMarks DEF Disconnect, device, AmendTypes, RoadTypes
<1>2. ~amiss[d].on /\ ~Unserved(d) /\ \A n \in MarksIn(d) : ~LosesMark(d, n)
  BY AmissByBreaks
<1>3. rcursor[d] <= base[d] /\ (Right(d) \/ WillSet(d))
  BY <1>1, <1>2 DEF MarkRight
<1>4. WillSet(d) => WillSet(d)'
  BY <1>1 DEF WillSet
<1>5. ASSUME NEW n \in MarksIn(d), base[d] < n PROVE WillSet(d)'
  <2>1. n \in Nat /\ n <= mark.seq
    BY MarkFacts DEF Owed
  <2> QED BY <1>1, <1>2, <1>3, <1>5, <2>1, AsksAgain
<1>6. ASSUME Right(d), \A n \in MarksIn(d) : ~(base[d] < n) PROVE Right(d)'
  <2> DEFINE m == Parity(mark.seq, Above(d))
  <2>1. Owed(d)' = JobMarks(d)
    BY <1>1, RightNext, ViewsEmpty
  <2>2. \A n \in MarksIn(d) : ~(n > base[d])
    <3>1. \A n \in MarksIn(d) : n \in Nat
      BY MarkFacts DEF Owed
    <3> QED BY <1>6, <3>1, MarkFacts
  <2>3. Above(d)' = Above(d)
    BY <1>1, <2>1, <2>2, RightNext DEF Above, Owed
  <2>4. Toggles(wire[d], m, Bit(copy[d].on)) /\ wire[d] \in Seq({"read", "react"})
        /\ m \in {0, 1} /\ Bit(copy[d].on) \in {0, 1}
    BY <1>6, MarkFacts DEF Right
  <2>5. Right(d)' <=> Toggles(<< >>, m, Bit(copy[d].on))
    BY <1>1, <2>3, RightNext
  <2> HIDE DEF m
  <2>6. m = Bit(copy[d].on)
    BY <1>2, <2>4, QueueOf, ToggleNone
  <2>7. Toggles(<< >>, m, Bit(copy[d].on))
    BY <2>4, <2>6, NoToggles, ToggleNone
  <2> QED BY <2>5, <2>7
<1> QED BY <1>1, <1>3, <1>4, <1>5, <1>6

LEMMA RestartStep ==
    ASSUME AmendTypes, Roles, JobsOnce, MarksTrue, NEW d \in Devices, MarkRight(d), Restart
    PROVE  MarkRight(d)'
<1> SUFFICES ASSUME copy'[d].there, ~amiss'[d].on
             PROVE  rcursor'[d] <= base'[d] /\ (Right(d)' \/ WillSet(d)')
  BY DEF MarkRight
<1>1. /\ copy' = copy /\ base' = base /\ rcursor' = rcursor /\ conn' = {}
      /\ wire'[d] = << >> /\ mark' = mark /\ inbox'[d] = << >> /\ JobMarks(d)' = {}
  BY BreakMarks DEF Restart
<1>2. ~amiss[d].on /\ ~Unserved(d) /\ ~LosesMark(d, mark.seq)
  BY AmissByBreaks
<1>3. rcursor[d] <= base[d] /\ (Right(d) \/ WillSet(d))
  BY <1>1, <1>2 DEF MarkRight
<1>7. \/ sync'[d] = sync[d]
      \/ sync[d].at \in {"rows", "marks"} /\ sync'[d].at = "rows"
      \/ sync[d].at = "reacts" /\ sync'[d].at = "idle"
  BY SyncSteps, Blank
<1>4. WillSet(d) => WillSet(d)'
  <2>1. sync[d].at \in {"idle", "rows", "marks", "page", "reacts", "events"}
    BY MarkFacts
  <2> QED BY <1>1, <1>7, <2>1 DEF WillSet
<1>5. ASSUME NEW n \in Above(d) PROVE WillSet(d)'
  <2>1. n \in Nat /\ n <= mark.seq /\ base[d] < n
    <3>1. Owed(d) \subseteq 1 .. mark.seq /\ base[d] \in Nat
      BY MarkFacts
    <3>2. n \in Owed(d) /\ n > base[d]
      BY DEF Above
    <3>3. n \in Nat /\ n <= mark.seq
      BY <3>1, <3>2
    <3> QED BY <3>1, <3>2, <3>3
  <2>2. sync[d].at = "events" => ~LosesMark(d, n)
    BY <1>2, <2>1, MarkFacts DEF LosesMark
  <2> QED BY <1>1, <1>3, <1>7, <2>1, <2>2, AsksAgain
<1>6. ASSUME Right(d), Above(d) = {} PROVE Right(d)'
  <2> DEFINE m == Parity(mark.seq, Above(d))
  <2>1. Owed(d)' = {}
    BY <1>1, RightNext, ViewsEmpty
  <2>3. Above(d)' = Above(d)
    BY <1>6, <2>1, RightNext
  <2>4. Toggles(wire[d], m, Bit(copy[d].on)) /\ wire[d] \in Seq({"read", "react"})
        /\ m \in {0, 1} /\ Bit(copy[d].on) \in {0, 1}
    BY <1>6, MarkFacts DEF Right
  <2>5. Right(d)' <=> Toggles(<< >>, m, Bit(copy[d].on))
    BY <1>1, <2>3, RightNext
  <2> HIDE DEF m
  <2>6. m = Bit(copy[d].on)
    BY <1>2, <2>4, QueueOf, ToggleNone
  <2>7. Toggles(<< >>, m, Bit(copy[d].on))
    BY <2>4, <2>6, NoToggles, ToggleNone
  <2> QED BY <2>5, <2>7
<1> QED BY <1>1, <1>3, <1>4, <1>5, <1>6

LEMMA MarkStep ==
    ASSUME AmendTypes, Roles, JobsOnce, MarksTrue, TopTrue, PagesTrue, MarkInv,
           NEW cleared, AmendmentsNext(cleared) \/ Restart
    PROVE  MarkInv'
<1>1. ASSUME NEW d \in Devices PROVE MarkRight(d)'
  <2>0. MarkRight(d)
    BY DEF MarkInv, MarkRight
  <2>1. CASE Still(d)
    BY <2>0, <2>1, StillStep, SetStep, ReceiveStep, ServeStep, DisconnectStep, RestartStep
  <2>2. CASE ~Still(d)
    BY <2>0, <2>2, StillSteps, SendStep, SetStep, ReceiveStep, ServeStep, DisconnectStep, RestartStep
  <2> QED BY <2>1, <2>2
<1> QED BY <1>1 DEF MarkInv, MarkRight

-----------------------------------------------------------------------------
(* All of it together *)

AgreeInv ==
    /\ Unsent /\ Roles /\ JobsTrue /\ RowTrue /\ PagesTrue
    /\ ToldTrue /\ InboxTrue /\ CopiesTrue
    /\ TextInv /\ GoneInv /\ ReadInv
    /\ JobsOnce /\ MarksTrue /\ TopTrue /\ MarkInv

LEMMA AgreeStep ==
    ASSUME AmendTypes, AgreeInv, NEW cleared \in [Devices -> Nat], AmendmentsNext(cleared) \/ Restart
    PROVE  AgreeInv'
<1>0. /\ Unsent /\ Roles /\ JobsTrue /\ RowTrue /\ PagesTrue
      /\ ToldTrue /\ InboxTrue /\ CopiesTrue
      /\ TextInv /\ GoneInv /\ ReadInv
      /\ JobsOnce /\ MarksTrue /\ TopTrue /\ MarkInv
  BY DEF AgreeInv
<1>1. Unsent' /\ Roles' /\ JobsTrue' /\ RowTrue' /\ PagesTrue'
  BY <1>0, UnsentStep, RolesStep, JobsTrueStep, RowTrueStep, PagesTrueStep
<1>2. ToldTrue' /\ InboxTrue' /\ CopiesTrue'
  BY <1>0, ToldTrueStep, InboxTrueStep, CopiesTrueStep
<1>3. TextInv' /\ GoneInv' /\ ReadInv'
  BY <1>0, TextStep, GoneStep, ReadStep
<1>4. JobsOnce' /\ MarksTrue' /\ TopTrue' /\ MarkInv'
  BY <1>0, JobsOnceStep, MarksTrueStep, TopTrueStep, MarkStep
<1> QED BY <1>1, <1>2, <1>3, <1>4 DEF AgreeInv

\* A clear takes copies away, and nothing else of this.
LEMMA AgreeWithoutCopy ==
    ASSUME AgreeInv,
           UNCHANGED <<seqs, row, mark, req, posts, conn, inbox, wire, cursor, rcursor, sync,
                       told, base, top, amiss>>,
           \A d \in Devices : copy'[d] = copy[d] \/ copy'[d] = NoCopy
    PROVE  AgreeInv'
<1> USE DEF AgreeInv
<1>0. ~NoCopy.there /\ ~NoCopy.deleted /\ ~NoCopy.read
  BY DEF NoCopy
<1>1. Unsent' /\ CopiesTrue'
  BY <1>0 DEF Unsent, CopiesTrue
<1>2. Roles' /\ JobsTrue' /\ RowTrue' /\ PagesTrue'
  BY DEF Roles, JobsTrue, RowTrue, PagesTrue
<1>3. ToldTrue' /\ InboxTrue'
  BY DEF ToldTrue, Pends, InboxTrue
<1>4. ASSUME NEW d \in Devices
      PROVE  /\ OnPage(d)' <=> OnPage(d)
             /\ \A v : Coming(d, v)' <=> Coming(d, v)
             /\ \A k : Holds(d, k)' <=> Holds(d, k)
             /\ WillSet(d)' <=> WillSet(d)
             /\ MarksIn(d)' = MarksIn(d) /\ JobMarks(d)' = JobMarks(d)
             /\ Owed(d)' = Owed(d) /\ Above(d)' = Above(d)
  <2>1. OnPage(d)' <=> OnPage(d)
    BY DEF OnPage, PageComing, WillRead
  <2>2. WillSet(d)' <=> WillSet(d)
    BY DEF WillSet
  <2>3. /\ \A v : Coming(d, v)' <=> Coming(d, v)
        /\ \A k : Holds(d, k)' <=> Holds(d, k)
        /\ MarksIn(d)' = MarksIn(d)
    BY QueueOf, QueueOfNext
  <2>4. JobMarks(d)' = JobMarks(d)
    BY JobMarksStay DEF JobFor
  <2>5. Owed(d)' = Owed(d)
    BY <2>3, <2>4 DEF Owed
  <2>6. Above(d)' = Above(d)
    BY <2>5, RightNext DEF Above
  <2> QED BY <2>1, <2>2, <2>3, <2>4, <2>5, <2>6
<1>5. TextInv'
  BY <1>0, <1>4 DEF TextInv
<1>6. GoneInv' /\ ReadInv'
  BY <1>0, <1>4 DEF GoneInv, ReadInv, Devices
<1>7. JobsOnce'
  BY DEF JobsOnce, Carries
<1>8. MarksTrue' /\ TopTrue'
  BY <1>4 DEF MarksTrue, TopTrue
<1>9. MarkInv'
  <2>1. ASSUME NEW d \in Devices, copy'[d] = copy[d] PROVE Right(d)' <=> Right(d)
    BY <1>4, <2>1, RightNext DEF Right
  <2> QED BY <1>0, <1>4, <2>1 DEF MarkInv
<1> QED BY <1>1, <1>2, <1>3, <1>5, <1>6, <1>7, <1>8, <1>9

LEMMA AgreeInit == Init => AgreeInv
<1> SUFFICES ASSUME Init PROVE AgreeInv
  OBVIOUS
<1>1. /\ row = NewRow /\ mark = [on |-> FALSE, seq |-> 0] /\ posts = {} /\ conn = load.synced
      /\ \A o \in Procs \cup Devices : req[o] = Idle
      /\ \A d \in Devices : /\ inbox[d] = << >> /\ wire[d] = << >> /\ rcursor[d] = 0
                            /\ sync[d] = NoSync /\ told[d] = NothingTold
                            /\ base[d] = 0 /\ top[d] = 0 /\ amiss[d] = Fine
                            /\ copy[d] = [NoCopy EXCEPT !.there = d \in load.synced]
      /\ load \in Loads /\ seqs = IF "send" \in load.ops THEN {} ELSE {1}
  BY DEF Init, AmendmentsInit, NewRow, NothingTold
<1>2. /\ Idle.at = "idle" /\ Idle.left = {}
      /\ NoSync.at = "idle" /\ ~NoSync.has
      /\ NothingTold.text = 0 /\ ~NothingTold.gone /\ ~NothingTold.read
      /\ NewRow.ver = 0 /\ NewRow.body = 0 /\ ~NewRow.deleted /\ ~NewRow.read
      /\ mark.seq = 0 /\ mark.on = FALSE
  BY <1>1 DEF Idle, NoSync, NothingTold, NewRow
<1>3. ASSUME NEW d \in Devices
      PROVE  /\ copy[d].there = (d \in load.synced)
             /\ copy[d].body = 0 /\ ~copy[d].deleted /\ ~copy[d].read /\ copy[d].on = FALSE
  BY <1>1 DEF NoCopy
<1>4. Unsent
  <2>1. 1 \notin seqs => load.synced = {}
    BY <1>1, LoadsAre
  <2> QED BY <1>1, <1>2, <1>3, <2>1 DEF Unsent
<1>5. Roles /\ JobsTrue
  <2>1. \A p \in Procs : req[p].at = "idle" /\ req[p].left = {}
    BY <1>1, <1>2
  <2>2. \A d \in Devices : req[d].at = "idle"
    BY <1>1, <1>2
  <2> QED BY <1>1, <2>1, <2>2 DEF Roles, JobsTrue
<1>6. RowTrue
  <2>1. \A d \in Devices : req[d].at = "idle"
    BY <1>1, <1>2
  <2> QED BY <1>1, <1>2, <2>1 DEF RowTrue, Bit
<1>7. PagesTrue
  <2>1. ASSUME NEW d \in Devices PROVE sync[d] = NoSync /\ rcursor[d] <= mark.seq
    <3>1. rcursor[d] = 0 /\ mark.seq = 0
      BY <1>1, <1>2
    <3>2. sync[d] = NoSync
      BY <1>1
    <3>3. rcursor[d] <= mark.seq
      BY <3>1
    <3> QED BY <3>2, <3>3
  <2> QED BY <1>2, <2>1, BlankPage DEF PagesTrue
<1>8. ToldTrue /\ InboxTrue
  <2>1. ASSUME NEW d \in Devices PROVE told[d].text = 0 /\ row.ver = 0 /\ inbox[d] = << >>
    BY <1>1, <1>2
  <2>2. ~row.deleted /\ ~row.read
    BY <1>1, <1>2
  <2>3. ToldTrue
    BY <2>1, <2>2 DEF ToldTrue
  <2>4. InboxTrue
    BY <2>1, EmptyQueue, Zenon DEF InboxTrue
  <2> QED BY <2>3, <2>4
<1>9. CopiesTrue
  BY <1>3 DEF CopiesTrue
<1>10. TextInv /\ GoneInv /\ ReadInv
  BY <1>1, <1>2, <1>3 DEF TextInv, GoneInv, ReadInv, Devices
<1>11. JobsOnce
  BY <1>1, <1>2 DEF JobsOnce, Carries
<1>12. ASSUME NEW d \in Devices PROVE JobMarks(d) = {} /\ MarksIn(d) = {} /\ Owed(d) = {} /\ Above(d) = {}
  <2>1. JobMarks(d) = {}
    BY <1>1, <1>2 DEF JobMarks, JobFor
  <2>2. MarksIn(d) = {}
    BY <1>1, QueueOf, ViewsEmpty
  <2> QED BY <2>1, <2>2 DEF Owed, Above
<1>13. MarksTrue /\ TopTrue
  <2>1. 1 .. mark.seq = {}
    BY <1>2
  <2>2. ASSUME NEW d \in Devices PROVE base[d] <= mark.seq /\ MarksOnce(inbox[d])
    <3>1. base[d] = 0 /\ mark.seq = 0 /\ inbox[d] = << >>
      BY <1>1, <1>2
    <3> QED BY <3>1, EmptyQueue
  <2>3. MarksTrue
    BY <1>12, <2>2 DEF MarksTrue
  <2>4. TopTrue
    BY <2>1 DEF TopTrue
  <2> QED BY <2>3, <2>4
<1>14. MarkInv
  <2>1. Parity(0, {}) = 0
    BY FS_EmptySet DEF Parity
  <2>2. Bit(FALSE) = 0
    BY DEF Bit
  <2>3. Toggles(<< >>, 0, 0)
    BY NoToggles, ToggleNone
  <2>4. ASSUME NEW d \in Devices PROVE Right(d) /\ rcursor[d] <= base[d]
    <3>1. Right(d) <=> Toggles(wire[d], Parity(mark.seq, Above(d)), Bit(copy[d].on))
      BY DEF Right
    <3>2. wire[d] = << >> /\ Above(d) = {} /\ mark.seq = 0 /\ copy[d].on = FALSE
      BY <1>1, <1>2, <1>3, <1>12
    <3>3. rcursor[d] = 0 /\ base[d] = 0
      BY <1>1
    <3>4. Right(d)
      BY <2>1, <2>2, <2>3, <3>1, <3>2
    <3> QED BY <3>3, <3>4
  <2> QED BY <2>4 DEF MarkInv
<1> QED BY <1>4, <1>5, <1>6, <1>7, <1>8, <1>9, <1>10, <1>11, <1>13, <1>14 DEF AgreeInv

LEMMA AgreeNext == TypeOK /\ AgreeInv /\ [Next]_vars => AgreeInv'
<1> SUFFICES ASSUME TypeOK, AgreeInv, [Next]_vars PROVE AgreeInv'
  OBVIOUS
<1>0. AmendTypes /\ clearedSeqs \in [Devices -> Nat]
  BY ClearedSeqsType DEF TypeOK
<1>1. CASE MessageStep
  <2> DEFINE c == clearedSeqs
  <2>1. AmendmentsNext(c) /\ c \in [Devices -> Nat]
    BY <1>0, <1>1 DEF MessageStep
  <2> HIDE DEF c
  <2> QED BY <1>0, <2>1, AgreeStep
<1>2. CASE RestartAll
  <2>1. Restart
    BY <1>2 DEF RestartAll
  <2>2. \A c \in [Devices -> Nat] : AgreeInv'
    BY <1>0, <2>1, AgreeStep
  <2> QED BY <1>0, <2>2
<1>3. ASSUME NEW e \in Peers, OwnStep(e) PROVE AgreeInv'
  <2>1. UNCHANGED <<seqs, row, mark, req, posts, conn, inbox, wire, cursor, rcursor, sync,
                    told, base, top, amiss>>
    BY <1>3, OwnSteps DEF unchangedMessage, roads, history
  <2>2. \A d \in Devices : copy'[d] = copy[d] \/ copy'[d] = NoCopy
    <3>1. copy \in [Devices -> Copies]
      BY <1>0 DEF AmendTypes, DeviceTypes
    <3>2. copy' = copy \/ copy' = [copy EXCEPT ![e] = NoCopy]
      BY <1>3, OwnSteps DEF Forgotten
    <3> QED BY <3>1, <3>2
  <2> QED BY <2>1, <2>2, AgreeWithoutCopy
<1>4. CASE UNCHANGED vars
  <2>1. UNCHANGED <<seqs, row, mark, req, posts, conn, inbox, wire, cursor, rcursor, sync,
                    told, base, top, amiss>> /\ copy' = copy
    BY <1>4 DEF vars, amendmentVars, roads, device, bounds, history
  <2> QED BY <2>1, AgreeWithoutCopy
<1> QED BY <1>1, <1>2, <1>3, <1>4, Steps

LEMMA RestingAgrees == TypeOK /\ AgreeInv => CopiesAgree
<1> SUFFICES ASSUME TypeOK, AgreeInv, NEW d \in Devices, Resting(d)
             PROVE  /\ GoneAgrees(d) \/ amiss[d].gone
                    /\ TextAgrees(d) \/ amiss[d].text
                    /\ ReadAgrees(d) \/ amiss[d].read
                    /\ MarkAgrees(d) \/ amiss[d].on
  BY DEF CopiesAgree
<1> USE DEF AgreeInv
<1>0. /\ posts = {} /\ \A o \in Procs \cup Devices : req[o].at = "idle"
      /\ wire[d] = << >> /\ inbox[d] = << >>
      /\ d \in conn /\ sync[d].at = "idle" /\ copy[d].there
      /\ AmendTypes
  BY DEF Resting, TypeOK
<1>1. ~OnPage(d) /\ ~WillSet(d)
  BY <1>0 DEF OnPage, PageComing, WillRead, WillSet
<1>2. (\A v : ~Coming(d, v)) /\ (\A k : ~Holds(d, k)) /\ MarksIn(d) = {}
  BY <1>0, QueueOf, ViewsEmpty
<1>3. /\ told[d].text = row.ver
      /\ row.deleted => told[d].gone
      /\ row.read /\ d \in Authors => told[d].read
  <2>1. \A p \in Procs : ~Pends(p, d)
    BY <1>0 DEF Pends
  <2> QED BY <1>0, <2>1 DEF ToldTrue
<1>4. copy[d] \in Copies /\ row \in Rows /\ mark \in Marks
  BY <1>0 DEF AmendTypes, ServerTypes, DeviceTypes
<1>5. GoneAgrees(d) \/ amiss[d].gone
  <2>1. copy[d].deleted \in BOOLEAN /\ row.deleted \in BOOLEAN
    BY <1>4 DEF Copies, Rows
  <2> QED BY <1>0, <1>1, <1>2, <1>3, <2>1 DEF CopiesTrue, GoneInv, GoneAgrees
<1>6. TextAgrees(d) \/ amiss[d].text
  BY <1>0, <1>1, <1>2, <1>3 DEF TextInv, TextAgrees
<1>7. ReadAgrees(d) \/ amiss[d].read
  <2>1. copy[d].read \in BOOLEAN /\ row.read \in BOOLEAN
    BY <1>4 DEF Copies, Rows
  <2> QED BY <1>0, <1>1, <1>2, <1>3, <2>1 DEF CopiesTrue, ReadInv, ReadAgrees
<1>8. MarkAgrees(d) \/ amiss[d].on
  <2> SUFFICES ASSUME ~amiss[d].on PROVE copy[d].on = mark.on
    BY DEF MarkAgrees
  <2>1. Right(d)
    BY <1>0, <1>1 DEF MarkInv
  <2>2. Above(d) = {}
    <3>1. JobMarks(d) = {}
      BY <1>0 DEF JobMarks, JobFor
    <3> QED BY <1>2, <3>1 DEF Above, Owed
  <2>3. mark.seq \in Nat /\ mark.on \in BOOLEAN /\ copy[d].on \in BOOLEAN
    BY <1>4 DEF Marks, Copies
  <2>4. Parity(mark.seq, {}) = mark.seq % 2
    <3>1. Cardinality({}) = 0
      BY FS_EmptySet
    <3>2. mark.seq + 0 = mark.seq
      BY <2>3
    <3> QED BY <3>1, <3>2 DEF Parity
  <2>5. Toggles(<< >>, Bit(mark.on), Bit(copy[d].on))
    <3>1. Bit(mark.on) = mark.seq % 2
      BY DEF RowTrue
    <3>2. Toggles(wire[d], Parity(mark.seq, Above(d)), Bit(copy[d].on))
      BY <2>1 DEF Right
    <3> QED BY <1>0, <2>2, <2>4, <3>1, <3>2
  <2>6. Bit(mark.on) \in {0, 1} /\ Bit(copy[d].on) \in {0, 1}
    BY DEF Bit
  <2>7. Bit(mark.on) = Bit(copy[d].on)
    BY <2>5, <2>6, NoToggles, ToggleNone
  <2> QED BY <2>3, <2>7 DEF Bit
<1> QED BY <1>5, <1>6, <1>7, <1>8

\* Once nothing is under way, a connected device shows the message as the
\* database has it, for any number of devices, handlers, changes and breaks and
\* in every order of messages.go, ws.go and history.js: its text or deletion,
\* whether it was read, its reaction; but for the ways that amiss names.
THEOREM CopiesComeToAgree == Spec => []CopiesAgree
<1>1. Init => AgreeInv
  BY AgreeInit
<1>2. TypeOK /\ AgreeInv /\ [Next]_vars => AgreeInv'
  BY AgreeNext
<1>3. TypeOK /\ AgreeInv => CopiesAgree
  BY RestingAgrees
<1> QED BY <1>1, <1>2, <1>3, TypeCorrect, PTL DEF Spec

=============================================================================
