---------------------------- MODULE GroupsProofs ----------------------------
(***************************************************************************)
(* That the cache of Groups is right, up to the loads an invalidation      *)
(* overtook, for any number of users, goroutines, requests and faults.     *)
(* CacheIsFresh is not inductive by itself: what a load has read and will  *)
(* store must be right in the same sense before it is stored.              *)
(***************************************************************************)
EXTENDS Groups, FiniteSetTheorems, TLAPS

\* What a goroutine is about to store is what the table holds, or is known to be
\* out of date, or will be thrown away.
StoresAreFresh ==
    \A p \in Procs :
        load[p] = "store" /\ p \notin late => view[p] = role \/ Unannounced # {}

\* A goroutine that is at work has a request.
HasRequest == \A p \in Procs : pc[p] # "idle" => req[p] \in Requests

FreshInv == TypeOK /\ HasRequest /\ CacheIsFresh /\ StoresAreFresh
-----------------------------------------------------------------------------
(* Type correctness *)

Steps == {"idle", "check", "count", "write", "left", "heir", "crown", "wipe", "drop",
          "clear", "tell", "told"}

\* TypeOK in parts: the provers deal with each better than with all.
TableType == /\ exists \in BOOLEAN /\ role \in Roles /\ cache \subseteq Roles
             /\ view \in [Procs -> Roles]
FlagType  == stale \in BOOLEAN /\ raced \in BOOLEAN /\ forced \in BOOLEAN
StepType  == /\ pc \in [Procs -> Steps]
             /\ req \in [Procs -> Requests \cup {NoRequest}]
             /\ load \in [Procs -> {"no", "look", "members", "store"}]
             /\ late \subseteq Procs
LoadType  == \A p \in Procs : load[p] # "no" => pc[p] \in {"check", "told"}
CountType == requests \in 0 .. MaxRequests /\ faults \in 0 .. MaxFaults

LEMMA TypeParts ==
    TypeOK <=> TableType /\ FlagType /\ StepType /\ LoadType /\ CountType
BY DEF TypeOK, TableType, FlagType, StepType, LoadType, CountType, Steps

LEMMA NobodyIsRoles == Nobody \in Roles
BY DEF Nobody, Roles

LEMMA RoleChange ==
    ASSUME NEW r \in Roles, NEW u \in Users, NEW k \in {"none", "member", "admin"}
    PROVE  [r EXCEPT ![u] = k] \in Roles
BY DEF Roles

LEMMA GoType ==
    ASSUME StepType, NEW p \in Procs, NEW step \in Steps, Go(p, step)
    PROVE  /\ pc' \in [Procs -> Steps]
           /\ req' \in [Procs -> Requests \cup {NoRequest}]
           /\ pc' = [pc EXCEPT ![p] = step]
BY DEF StepType, Go

LEMMA FaultCounts ==
    ASSUME faults \in 0 .. MaxFaults, Fault \/ faults' = faults
    PROVE  faults' \in 0 .. MaxFaults
BY GroupsAssumption DEF Fault

\* What the steps of a goroutine and a restart do to each variable: the cases
\* every lemma about a step goes through.
LEMMA StepCases ==
    ASSUME [Next]_vars
    PROVE  \/ UNCHANGED vars
           \/ Restart
           \/ \E p \in Procs : Look(p) \/ ReadMembers(p) \/ StoreEntry(p)
           \/ \E p \in Procs : \E r \in Requests : Request(p, r)
           \/ \E p \in Procs : Check(p) \/ Count(p) \/ Write(p)
           \/ \E p \in Procs : CountLeft(p) \/ CountAdmins(p) \/ Crown(p)
           \/ \E p \in Procs : Wipe(p) \/ DropGroup(p)
           \/ \E p \in Procs : Clear(p) \/ Tell(p) \/ Told(p)
BY DEF Next, Handler

LEMMA NewRoleType ==
    ASSUME TableType, HasRequest, NEW p \in Procs, pc[p] = "write"
    PROVE  NewRole(p) \in {"none", "member", "admin"}
<1>1. req[p].on \in Users
  BY DEF Requests, HasRequest
<1>2. role[req[p].on] \in {"none", "member", "admin"}
  BY <1>1 DEF TableType, Roles
<1> QED
  BY <1>2 DEF NewRole

LEMMA InitType == Init => TypeOK /\ HasRequest
<1> SUFFICES ASSUME Init PROVE TypeOK /\ HasRequest
  OBVIOUS
<1>1. TableType
  BY NobodyIsRoles DEF Init, TableType
<1>2. FlagType /\ StepType /\ LoadType /\ HasRequest
  BY DEF Init, FlagType, StepType, LoadType, HasRequest, Steps
<1>3. CountType
  BY GroupsAssumption DEF Init, CountType
<1> QED
  BY <1>1, <1>2, <1>3, TypeParts

LEMMA TableStep ==
    ASSUME TableType, StepType, HasRequest, [Next]_vars
    PROVE  TableType'
<1> USE DEF TableType, vars, tableVars, cacheVars, loadVars, bounds
<1>1. ASSUME UNCHANGED vars \/ Restart PROVE TableType'
  BY <1>1, NobodyIsRoles DEF Restart
<1>2. ASSUME NEW p \in Procs, Look(p) PROVE TableType'
  BY <1>2, NobodyIsRoles DEF Look
<1>3. ASSUME NEW p \in Procs, ReadMembers(p) PROVE TableType'
  <2>1. \A S \in SUBSET Users :
           [u \in Users |-> IF u \in S THEN role[u] ELSE "none"] \in Roles
    BY DEF Roles
  <2> QED
    BY <1>3, <2>1, NobodyIsRoles DEF ReadMembers
<1>4. ASSUME NEW p \in Procs, StoreEntry(p) PROVE TableType'
  BY <1>4 DEF StoreEntry
<1>5. ASSUME NEW p \in Procs, NEW r \in Requests, Request(p, r) PROVE TableType'
  BY <1>5 DEF Request
<1>6. ASSUME NEW p \in Procs, Check(p) \/ Count(p) PROVE TableType'
  BY <1>6, NobodyIsRoles DEF Check, Count
<1>7. ASSUME NEW p \in Procs, Write(p) PROVE TableType'
  <2>1. role' \in Roles
    <3>1. req[p].on \in Users /\ NewRole(p) \in {"none", "member", "admin"}
      BY <1>7, NewRoleType DEF Write, HasRequest, Requests
    <3> QED
      BY <1>7, <3>1, RoleChange DEF Write
  <2> QED
    BY <1>7, <2>1 DEF Write
<1>8. ASSUME NEW p \in Procs, CountLeft(p) \/ CountAdmins(p) PROVE TableType'
  BY <1>8 DEF CountLeft, CountAdmins
<1>9. ASSUME NEW p \in Procs, Crown(p) PROVE TableType'
  <2>1. role' \in Roles
    BY <1>9, RoleChange DEF Crown, Members
  <2> QED
    BY <1>9, <2>1 DEF Crown
<1>10. ASSUME NEW p \in Procs, Wipe(p) \/ DropGroup(p) PROVE TableType'
  BY <1>10, NobodyIsRoles DEF Wipe, DropGroup
<1>11. ASSUME NEW p \in Procs, Clear(p) \/ Tell(p) \/ Told(p) PROVE TableType'
  BY <1>11, NobodyIsRoles DEF Clear, Tell, Told, Invalidate
<1> QED
  BY <1>1, <1>2, <1>3, <1>4, <1>5, <1>6, <1>7, <1>8, <1>9, <1>10, <1>11, StepCases

LEMMA FlagStep ==
    ASSUME FlagType, [Next]_vars
    PROVE  FlagType'
<1> USE DEF FlagType, vars, tableVars, cacheVars, loadVars, bounds
<1>1. ASSUME UNCHANGED vars \/ Restart PROVE FlagType'
  BY <1>1 DEF Restart
<1>2. ASSUME NEW p \in Procs, Look(p) \/ ReadMembers(p) \/ StoreEntry(p)
      PROVE  FlagType'
  <2>1. CASE Look(p) \/ ReadMembers(p)
    BY <2>1 DEF Look, ReadMembers
  <2>2. CASE StoreEntry(p)
    <3>1. raced' = raced /\ forced' = forced /\ stale' = (p \in late)
      BY <2>2 DEF StoreEntry
    <3>2. (p \in late) \in BOOLEAN
      OBVIOUS
    <3>3. stale' \in BOOLEAN
      BY <3>1, <3>2, Zenon
    <3> QED
      BY <3>1, <3>3
  <2> QED
    BY <1>2, <2>1, <2>2
<1>3. ASSUME NEW p \in Procs, NEW r \in Requests, Request(p, r) PROVE FlagType'
  <2>1. /\ stale' = stale /\ forced' = forced
        /\ raced' = raced \/ raced' = (raced \/ Changing # {})
    BY <1>3 DEF Request
  <2>2. (raced \/ Changing # {}) \in BOOLEAN
    OBVIOUS
  <2>3. raced' \in BOOLEAN
    BY <2>1, <2>2, Zenon
  <2> QED
    BY <2>1, <2>3
<1>4. ASSUME NEW p \in Procs, Check(p) PROVE FlagType'
  <2>1. /\ stale' = stale /\ forced' = forced
        /\ \/ raced' = raced
           \/ raced' = (raced \/ Changing # {} \/ view[p] # role)
    BY <1>4 DEF Check
  <2>2. (raced \/ Changing # {} \/ view[p] # role) \in BOOLEAN
    OBVIOUS
  <2>3. raced' \in BOOLEAN
    BY <2>1, <2>2, Zenon
  <2> QED
    BY <2>1, <2>3
<1>5. ASSUME NEW p \in Procs, Count(p) \/ Write(p) PROVE FlagType'
  BY <1>5 DEF Count, Write
<1>6. ASSUME NEW p \in Procs, CountLeft(p) \/ CountAdmins(p) \/ Crown(p)
      PROVE  FlagType'
  BY <1>6 DEF CountLeft, CountAdmins, Crown
<1>7. ASSUME NEW p \in Procs, Wipe(p) \/ DropGroup(p) PROVE FlagType'
  BY <1>7 DEF Wipe, DropGroup
<1>8. ASSUME NEW p \in Procs, Clear(p) \/ Tell(p) \/ Told(p) PROVE FlagType'
  BY <1>8 DEF Clear, Tell, Told, Invalidate
<1> QED
  BY <1>1, <1>2, <1>3, <1>4, <1>5, <1>6, <1>7, <1>8, StepCases

LEMMA GoStep ==
    ASSUME StepType, HasRequest, NEW p \in Procs, NEW step \in Steps, Go(p, step),
           pc[p] # "idle"
    PROVE  /\ pc' \in [Procs -> Steps]
           /\ req' \in [Procs -> Requests \cup {NoRequest}]
           /\ HasRequest'
BY DEF StepType, HasRequest, Go

LEMMA StepStep ==
    ASSUME StepType, HasRequest, [Next]_vars
    PROVE  StepType' /\ HasRequest'
<1> USE DEF vars, tableVars, cacheVars, loadVars, bounds
<1>1. ASSUME UNCHANGED vars PROVE StepType' /\ HasRequest'
  BY <1>1 DEF StepType, HasRequest
<1>2. ASSUME Restart PROVE StepType' /\ HasRequest'
  BY <1>2 DEF Restart, StepType, HasRequest, Steps
<1>3. ASSUME NEW p \in Procs, Look(p) \/ ReadMembers(p) \/ StoreEntry(p)
      PROVE  StepType' /\ HasRequest'
  BY <1>3 DEF Look, ReadMembers, StoreEntry, StepType, HasRequest
<1>4. ASSUME NEW p \in Procs, NEW r \in Requests, Request(p, r)
      PROVE  StepType' /\ HasRequest'
  BY <1>4 DEF Request, StepType, HasRequest, Steps
<1>5. ASSUME NEW p \in Procs, Check(p) PROVE StepType' /\ HasRequest'
  <2>1. \E step \in Steps : Go(p, step)
    BY <1>5 DEF Check, Steps
  <2>2. load' \in [Procs -> {"no", "look", "members", "store"}] /\ late' = late
    BY <1>5 DEF Check, StepType
  <2> QED
    BY <1>5, <2>1, <2>2, GoStep DEF StepType, Check
<1>6. ASSUME NEW p \in Procs, Count(p) \/ Write(p) PROVE StepType' /\ HasRequest'
  <2>1. \E step \in Steps : Go(p, step)
    BY <1>6 DEF Count, Write, Steps
  <2>2. load' = load /\ late' = late /\ pc[p] # "idle"
    BY <1>6 DEF Count, Write
  <2> QED
    BY <2>1, <2>2, GoStep DEF StepType
<1>7. ASSUME NEW p \in Procs, CountLeft(p) \/ CountAdmins(p) \/ Crown(p)
      PROVE  StepType' /\ HasRequest'
  <2>1. \E step \in Steps : Go(p, step)
    BY <1>7 DEF CountLeft, CountAdmins, Crown, Steps
  <2>2. load' = load /\ late' = late /\ pc[p] # "idle"
    BY <1>7 DEF CountLeft, CountAdmins, Crown
  <2> QED
    BY <2>1, <2>2, GoStep DEF StepType
<1>8. ASSUME NEW p \in Procs, Wipe(p) \/ DropGroup(p)
      PROVE  StepType' /\ HasRequest'
  <2>1. \E step \in Steps : Go(p, step)
    BY <1>8 DEF Wipe, DropGroup, Steps
  <2>2. load' = load /\ late' = late /\ pc[p] # "idle"
    BY <1>8 DEF Wipe, DropGroup
  <2> QED
    BY <2>1, <2>2, GoStep DEF StepType
<1>9. ASSUME NEW p \in Procs, Clear(p) \/ Tell(p) \/ Told(p)
      PROVE  StepType' /\ HasRequest'
  <2>1. \E step \in Steps : Go(p, step)
    BY <1>9 DEF Clear, Tell, Told, Steps
  <2>2. /\ load' \in [Procs -> {"no", "look", "members", "store"}]
        /\ late' \subseteq Procs /\ pc[p] # "idle"
    BY <1>9 DEF Clear, Tell, Told, Invalidate, StepType
  <2> QED
    BY <2>1, <2>2, GoStep DEF StepType
<1> QED
  BY <1>1, <1>2, <1>3, <1>4, <1>5, <1>6, <1>7, <1>8, <1>9, StepCases

LEMMA LoadStep ==
    ASSUME StepType, LoadType, [Next]_vars
    PROVE  LoadType'
<1> USE DEF vars, tableVars, cacheVars, loadVars, bounds, StepType, LoadType
<1>1. ASSUME UNCHANGED vars \/ Restart PROVE LoadType'
  BY <1>1 DEF Restart
<1>2. ASSUME NEW p \in Procs, Look(p) \/ ReadMembers(p) \/ StoreEntry(p)
      PROVE  LoadType'
  <2>1. pc' = pc /\ load[p] # "no"
    BY <1>2 DEF Look, ReadMembers, StoreEntry
  <2>2. \A q \in Procs : q # p => load'[q] = load[q]
    BY <1>2 DEF Look, ReadMembers, StoreEntry
  <2> QED
    BY <2>1, <2>2
<1>3. ASSUME NEW p \in Procs, NEW r \in Requests, Request(p, r) PROVE LoadType'
  <2>1. CASE r.kind \in ServerKinds
    <3>1. load' = load /\ pc[p] = "idle"
      BY <1>3, <2>1 DEF Request
    <3>2. \A q \in Procs : q # p => pc'[q] = pc[q]
      BY <1>3 DEF Request
    <3> QED
      BY <3>1, <3>2
  <2>2. CASE r.kind \notin ServerKinds
    <3>1. load' = [load EXCEPT ![p] = "look"] /\ pc' = [pc EXCEPT ![p] = "check"]
      BY <1>3, <2>2 DEF Request, ServerKinds
    <3> QED
      BY <3>1
  <2> QED
    BY <2>1, <2>2
<1>4. ASSUME NEW p \in Procs, Check(p) PROVE LoadType'
  BY <1>4 DEF Check, Go
<1>5. ASSUME NEW p \in Procs, Count(p) \/ Write(p) PROVE LoadType'
  BY <1>5 DEF Count, Write, Go
<1>6. ASSUME NEW p \in Procs, CountLeft(p) \/ CountAdmins(p) \/ Crown(p)
      PROVE  LoadType'
  BY <1>6 DEF CountLeft, CountAdmins, Crown, Go
<1>7. ASSUME NEW p \in Procs, Wipe(p) \/ DropGroup(p) PROVE LoadType'
  BY <1>7 DEF Wipe, DropGroup, Go
<1>8. ASSUME NEW p \in Procs, Clear(p) \/ Tell(p) \/ Told(p) PROVE LoadType'
  BY <1>8 DEF Clear, Tell, Told, Go
<1> QED
  BY <1>1, <1>2, <1>3, <1>4, <1>5, <1>6, <1>7, <1>8, StepCases

LEMMA CountStep ==
    ASSUME CountType, [Next]_vars
    PROVE  CountType'
<1> USE GroupsAssumption
        DEF CountType, Fault, vars, tableVars, cacheVars, loadVars, bounds
<1>1. ASSUME UNCHANGED vars \/ Restart PROVE CountType'
  BY <1>1 DEF Restart
<1>2. ASSUME NEW p \in Procs, Look(p) \/ ReadMembers(p) \/ StoreEntry(p)
      PROVE  CountType'
  BY <1>2 DEF Look, ReadMembers, StoreEntry
<1>3. ASSUME NEW p \in Procs, NEW r \in Requests, Request(p, r) PROVE CountType'
  BY <1>3 DEF Request
<1>4. ASSUME NEW p \in Procs, Check(p) \/ Count(p) \/ Write(p) PROVE CountType'
  BY <1>4 DEF Check, Count, Write
<1>5. ASSUME NEW p \in Procs, CountLeft(p) \/ CountAdmins(p) \/ Crown(p)
      PROVE  CountType'
  BY <1>5 DEF CountLeft, CountAdmins, Crown
<1>6. ASSUME NEW p \in Procs, Wipe(p) \/ DropGroup(p) PROVE CountType'
  BY <1>6 DEF Wipe, DropGroup
<1>7. ASSUME NEW p \in Procs, Clear(p) \/ Tell(p) \/ Told(p) PROVE CountType'
  BY <1>7 DEF Clear, Tell, Told
<1> QED
  BY <1>1, <1>2, <1>3, <1>4, <1>5, <1>6, <1>7, StepCases

LEMMA TypeStep == TypeOK /\ HasRequest /\ [Next]_vars => TypeOK' /\ HasRequest'
<1> SUFFICES ASSUME TypeOK, HasRequest, [Next]_vars PROVE TypeOK' /\ HasRequest'
  OBVIOUS
<1>1. TableType /\ FlagType /\ StepType /\ LoadType /\ CountType
  BY TypeParts
<1>2. TableType' /\ FlagType'
  BY <1>1, TableStep, FlagStep
<1>3. StepType' /\ LoadType' /\ CountType' /\ HasRequest'
  BY <1>1, StepStep, LoadStep, CountStep
<1>4. (TableType /\ FlagType /\ StepType /\ LoadType /\ CountType)' => TypeOK'
  BY DEF TypeOK, TableType, FlagType, StepType, LoadType, CountType, Steps
<1> QED
  BY <1>2, <1>3, <1>4

\* Every variable holds values of its type, whatever the users, the goroutines and
\* the bounds are: loadGroup runs only on behalf of a check or an announcement.
THEOREM TypeCorrect == Spec => []TypeOK
<1>1. TypeOK /\ HasRequest /\ [Next]_vars => (TypeOK /\ HasRequest)'
  BY TypeStep
<1> QED
  BY <1>1, InitType, PTL DEF Spec
-----------------------------------------------------------------------------
(* The cache *)

LEMMA InitFresh == Init => CacheIsFresh /\ StoresAreFresh
BY DEF Init, CacheIsFresh, StoresAreFresh

\* A step of p that leaves table, cache and pending stores alone, and announces
\* nothing, leaves them as right as they were.
LEMMA QuietStep ==
    ASSUME CacheIsFresh, StoresAreFresh, TypeOK,
           UNCHANGED <<role, cache, stale, late>>,
           Unannounced \subseteq Unannounced',
           \A q \in Procs : load'[q] = "store" => load[q] = "store" /\ view'[q] = view[q]
    PROVE  CacheIsFresh' /\ StoresAreFresh'
<1>1. CacheIsFresh'
  BY DEF CacheIsFresh
<1>2. StoresAreFresh'
  BY DEF StoresAreFresh
<1> QED
  BY <1>1, <1>2

\* Once somebody has something to announce, both hold whatever else has changed.
LEMMA AnnouncerKeeps ==
    ASSUME NEW p \in Procs,
           pc'[p] \in {"left", "heir", "crown", "drop", "clear", "tell"}
    PROVE  CacheIsFresh' /\ StoresAreFresh'
<1>1. Unannounced' # {}
  BY DEF Unannounced
<1>2. CacheIsFresh'
  BY <1>1 DEF CacheIsFresh
<1>3. StoresAreFresh'
  BY <1>1 DEF StoresAreFresh
<1> QED
  BY <1>2, <1>3

\* Throwing the entry away: every pending store is known to be out of date.
LEMMA InvalidateFreshens ==
    ASSUME TypeOK, Invalidate,
           \A q \in Procs : load'[q] = "store" => load[q] = "store"
    PROVE  CacheIsFresh' /\ StoresAreFresh'
<1>1. CacheIsFresh'
  BY DEF CacheIsFresh, Invalidate
<1>2. StoresAreFresh'
  BY DEF StoresAreFresh, Invalidate
<1> QED
  BY <1>1, <1>2

LEMMA FreshStep ==
    ASSUME FreshInv, [Next]_vars
    PROVE  CacheIsFresh' /\ StoresAreFresh'
<1> USE DEF vars, tableVars, cacheVars, loadVars, bounds
<1>0. /\ TypeOK /\ CacheIsFresh /\ StoresAreFresh
      /\ pc \in [Procs -> Steps]
      /\ load \in [Procs -> {"no", "look", "members", "store"}]
      /\ view \in [Procs -> Roles]
  BY DEF FreshInv, TypeOK, Steps
<1>1. ASSUME UNCHANGED vars PROVE CacheIsFresh' /\ StoresAreFresh'
  BY <1>0, <1>1, QuietStep DEF Unannounced
<1>2. ASSUME Restart PROVE CacheIsFresh' /\ StoresAreFresh'
  BY <1>2 DEF Restart, CacheIsFresh, StoresAreFresh
<1>3. ASSUME NEW p \in Procs, Look(p) PROVE CacheIsFresh' /\ StoresAreFresh'
  <2>1. UNCHANGED <<role, cache, stale, late, pc>>
    BY <1>3 DEF Look
  <2>2. Unannounced \subseteq Unannounced'
    BY <2>1 DEF Unannounced
  <2>3. \A q \in Procs : load'[q] = "store" => load[q] = "store" /\ view'[q] = view[q]
    BY <1>0, <1>3 DEF Look
  <2> QED
    BY <1>0, <2>1, <2>2, <2>3, QuietStep
<1>4. ASSUME NEW p \in Procs, ReadMembers(p) PROVE CacheIsFresh' /\ StoresAreFresh'
  <2>1. UNCHANGED <<role, cache, stale, pc>>
    BY <1>4 DEF ReadMembers
  <2>2. Unannounced' = Unannounced
    BY <2>1 DEF Unannounced
  <2>3. CacheIsFresh'
    BY <1>0, <2>1, <2>2 DEF CacheIsFresh
  <2>4. \/ load'[p] # "store" \/ p \in late' \/ view'[p] = role
    BY <1>0, <1>4 DEF ReadMembers
  <2>5. \A q \in Procs \ {p} : /\ load'[q] = load[q] /\ view'[q] = view[q]
                               /\ q \in late' <=> q \in late
    BY <1>0, <1>4 DEF ReadMembers
  <2>6. StoresAreFresh'
    BY <1>0, <2>1, <2>2, <2>4, <2>5 DEF StoresAreFresh
  <2> QED
    BY <2>3, <2>6
<1>5. ASSUME NEW p \in Procs, StoreEntry(p) PROVE CacheIsFresh' /\ StoresAreFresh'
  <2>1. /\ UNCHANGED <<role, pc, view>> /\ cache' = {view[p]}
        /\ stale' = (p \in late) /\ late' = late \ {p}
        /\ load[p] = "store" /\ load' = [load EXCEPT ![p] = "no"]
    BY <1>5 DEF StoreEntry
  <2>2. Unannounced' = Unannounced
    BY <2>1 DEF Unannounced
  <2>3. CASE p \in late
    <3>1. stale'
      BY <2>1, <2>3
    <3>2. CacheIsFresh'
      BY <3>1 DEF CacheIsFresh
    <3> QED
      BY <1>0, <2>1, <2>2, <3>2 DEF StoresAreFresh
  <2>4. CASE p \notin late
    <3>1. view[p] = role \/ Unannounced # {}
      BY <1>0, <2>1, <2>4 DEF StoresAreFresh
    <3>2. CacheIsFresh'
      BY <2>1, <2>2, <3>1 DEF CacheIsFresh
    <3> QED
      BY <1>0, <2>1, <2>2, <3>2 DEF StoresAreFresh
  <2> QED
    BY <2>3, <2>4
<1>6. ASSUME NEW p \in Procs, NEW r \in Requests, Request(p, r)
      PROVE  CacheIsFresh' /\ StoresAreFresh'
  <2>1. UNCHANGED <<role, cache, stale, late, view>> /\ pc[p] = "idle"
    BY <1>6 DEF Request
  <2>2. Unannounced \subseteq Unannounced'
    BY <1>0, <1>6, <2>1 DEF Unannounced, Request
  <2>3. \A q \in Procs : load'[q] = "store" => load[q] = "store"
    BY <1>0, <1>6 DEF Request
  <2> QED
    BY <1>0, <2>1, <2>2, <2>3, QuietStep
<1>7. ASSUME NEW p \in Procs, Check(p) PROVE CacheIsFresh' /\ StoresAreFresh'
  <2>1. UNCHANGED <<role, cache, stale, late>> /\ pc[p] = "check" /\ load[p] = "no"
    BY <1>7 DEF Check
  <2>2. Unannounced \subseteq Unannounced'
    BY <1>0, <1>7, <2>1 DEF Unannounced, Check, Go
  <2>3. \A q \in Procs : load'[q] = "store" => load[q] = "store" /\ view'[q] = view[q]
    BY <1>0, <1>7 DEF Check
  <2> QED
    BY <1>0, <2>1, <2>2, <2>3, QuietStep
<1>8. ASSUME NEW p \in Procs, Count(p) PROVE CacheIsFresh' /\ StoresAreFresh'
  <2>1. UNCHANGED <<role, cache, stale, late, load, view>> /\ pc[p] = "count"
    BY <1>8 DEF Count
  <2>2. Unannounced \subseteq Unannounced'
    BY <1>0, <1>8, <2>1 DEF Unannounced, Count, Go
  <2> QED
    BY <1>0, <2>1, <2>2, QuietStep
<1>9. ASSUME NEW p \in Procs, Write(p) \/ CountLeft(p) \/ CountAdmins(p) \/ Crown(p)
      PROVE  CacheIsFresh' /\ StoresAreFresh'
  <2>1. pc'[p] \in {"left", "heir", "crown", "drop", "clear", "tell"}
    BY <1>0, <1>9 DEF Write, CountLeft, CountAdmins, Crown, Go
  <2> QED
    BY <2>1, AnnouncerKeeps
<1>10. ASSUME NEW p \in Procs, Wipe(p) \/ DropGroup(p)
       PROVE  CacheIsFresh' /\ StoresAreFresh'
  <2>1. pc'[p] \in {"left", "heir", "crown", "drop", "clear", "tell"}
    BY <1>0, <1>10 DEF Wipe, DropGroup, Go
  <2> QED
    BY <2>1, AnnouncerKeeps
<1>11. ASSUME NEW p \in Procs, Clear(p) \/ Tell(p)
       PROVE  CacheIsFresh' /\ StoresAreFresh'
  <2>1. /\ Invalidate
        /\ \A q \in Procs : load'[q] = "store" => load[q] = "store"
    BY <1>0, <1>11 DEF Clear, Tell
  <2> QED
    BY <1>0, <2>1, InvalidateFreshens
<1>12. ASSUME NEW p \in Procs, Told(p) PROVE CacheIsFresh' /\ StoresAreFresh'
  <2>1. UNCHANGED <<role, cache, stale, late, load>> /\ pc[p] = "told" /\ load[p] = "no"
    BY <1>12 DEF Told
  <2>2. Unannounced \subseteq Unannounced'
    BY <1>0, <1>12, <2>1 DEF Unannounced, Told, Go
  <2>3. \A q \in Procs : load'[q] = "store" => load[q] = "store" /\ view'[q] = view[q]
    BY <1>0, <1>12, <2>1 DEF Told
  <2> QED
    BY <1>0, <2>1, <2>2, <2>3, QuietStep
<1> QED
  BY <1>1, <1>2, <1>3, <1>4, <1>5, <1>6, <1>7, <1>8, <1>9, <1>10, <1>11, <1>12,
     StepCases

LEMMA FreshHolds == Spec => []FreshInv
<1>1. Init => FreshInv
  BY InitType, InitFresh DEF FreshInv
<1>2. FreshInv /\ [Next]_vars => FreshInv'
  BY TypeStep, FreshStep DEF FreshInv
<1> QED
  BY <1>1, <1>2, PTL DEF Spec

\* The cache holds what the table holds, unless a change is about to be announced
\* or a load was overtaken: for any number of users and goroutines.
THEOREM CacheIsRight == Spec => []CacheIsFresh
<1>1. FreshInv => CacheIsFresh
  BY DEF FreshInv
<1> QED
  BY <1>1, FreshHolds, PTL-----------------------------------------------------------------------------
(* A group is whole between the requests that change it                    *)

(* While such requests come one at a time, what a handler was let through  *)
(* with, and what it counted, is still true when it writes, because nobody *)
(* else writes; and the steps by which the last admin or the last member   *)
(* leaves are the only ones between which the group is not whole.          *)
Calm == ~raced /\ ~forced /\ faults = 0

Whole ==
    /\ exists <=> Members(role) # {}
    /\ exists => Admins(role) # {}
    /\ Cardinality(Members(role)) <= MaxMembers

Granted(p) ==
    /\ req[p].kind \in AdminKinds => role[req[p].by] = "admin"
    /\ req[p].kind = "leave" => role[req[p].by] # "none"

AtStep(p) ==
    /\ pc[p] \in {"count", "write"} => Granted(p)
    /\ pc[p] = "write" /\ req[p].kind = "add" => Cardinality(Members(role)) + 1 <= MaxMembers
    /\ pc[p] = "write" /\ req[p].kind = "demote" /\ req[p].on = req[p].by
          => Cardinality(Admins(role)) >= 2
    /\ pc[p] \in {"left", "heir", "crown"}
          => exists /\ Cardinality(Members(role)) <= MaxMembers
    /\ pc[p] \in {"heir", "crown"} => Members(role) # {}
    /\ pc[p] = "drop" => Members(role) = {}
    /\ pc[p] \notin {"left", "heir", "crown", "drop"} => Whole

OneChange == \A p, q \in Changing : p = q
WholeInv == Calm => /\ OneChange
                    /\ \A p \in Changing : AtStep(p)
                    /\ Changing = {} => Whole

LEMMA FiniteRoles ==
    ASSUME NEW r \in Roles
    PROVE  /\ IsFiniteSet(Members(r)) /\ Cardinality(Members(r)) \in Nat
           /\ IsFiniteSet(Admins(r)) /\ Cardinality(Admins(r)) \in Nat
           /\ Admins(r) \subseteq Members(r)
<1>1. Members(r) \subseteq Users /\ Admins(r) \subseteq Users
  BY DEF Members, Admins
<1>2. IsFiniteSet(Members(r)) /\ IsFiniteSet(Admins(r))
  BY <1>1, GroupsAssumption, FS_Subset
<1> QED
  BY <1>2, FS_CardinalityType DEF Members, Admins

(* The statements a request of one user about another may run.             *)
LEMMA WrittenWhole ==
    ASSUME TypeOK, HasRequest, NEW p \in Procs, pc[p] = "write", AtStep(p),
           req[p].kind # "leave", req[p].kind # "expel", exists' = exists,
           role' = [role EXCEPT ![req[p].on] = NewRole(p)]
    PROVE  Whole'
<1> DEFINE on == req[p].on
           by == req[p].by
           kind == req[p].kind
<1>0. /\ role \in Roles /\ role' \in Roles /\ Whole /\ Granted(p)
      /\ on \in Users /\ by \in Users /\ kind \in Kinds
  <2>1. req[p] \in Requests /\ role \in Roles
    BY DEF HasRequest, TypeOK
  <2>2. on \in Users /\ by \in Users /\ kind \in Kinds
    BY <2>1 DEF Requests
  <2>3. NewRole(p) \in {"none", "member", "admin"}
    BY TypeParts, NewRoleType
  <2> QED
    BY <2>1, <2>2, <2>3, RoleChange DEF AtStep
<1>1. \A u \in Users : u # on => role'[u] = role[u]
  BY <1>0 DEF Roles
<1>2. role'[on] = NewRole(p)
  BY <1>0 DEF Roles
<1>3. CASE kind = "add"
  <2>1. /\ Members(role') \subseteq Members(role) \cup {on}
        /\ Members(role) \subseteq Members(role') /\ Admins(role) \subseteq Admins(role')
    BY <1>0, <1>1, <1>2, <1>3 DEF NewRole, Members, Admins, Roles
  <2>2. by \in Members(role) /\ by \in Admins(role)
    BY <1>0, <1>3 DEF Granted, AdminKinds, Members, Admins
  <2>3. Cardinality(Members(role')) <= MaxMembers
    <3>1. Cardinality(Members(role)) + 1 <= MaxMembers
      BY <1>3 DEF AtStep
    <3>2. IsFiniteSet(Members(role) \cup {on})
          /\ Cardinality(Members(role) \cup {on}) <= Cardinality(Members(role)) + 1
      <4>1. IsFiniteSet(Members(role)) /\ Cardinality(Members(role)) \in Nat
        BY <1>0, FiniteRoles
      <4> QED
        BY SMTT(30), <4>1, FS_AddElement
    <3>3. Cardinality(Members(role')) <= Cardinality(Members(role) \cup {on})
      BY <2>1, <3>2, FS_Subset
    <3> QED
      BY <1>0, <3>1, <3>2, <3>3, FiniteRoles, FS_CardinalityType, GroupsAssumption
  <2> QED
    BY <1>0, <2>1, <2>2, <2>3 DEF Whole
<1>4. CASE kind # "add"
  <2>1. Members(role') \subseteq Members(role)
    BY <1>0, <1>1, <1>2, <1>4 DEF NewRole, Members, Roles
  <2>2. Cardinality(Members(role')) <= MaxMembers
    <3>1. Cardinality(Members(role')) <= Cardinality(Members(role))
      BY <1>0, <2>1, FiniteRoles, FS_Subset
    <3> QED
      BY <1>0, <3>1, FiniteRoles, GroupsAssumption DEF Whole
  <2>3. (Members(role') = Members(role) /\ Admins(role') = Admins(role)) \/ Admins(role') # {}
    <3>1. CASE kind \in {"remove", "promote"} /\ on # by
      <4>1. role'[by] = "admin"
        BY <1>0, <1>1, <3>1 DEF Granted, AdminKinds
      <4> QED
        BY <1>0, <4>1 DEF Admins
    <3>2. CASE kind \in {"remove", "promote"} /\ on = by
      <4>1. role[by] = "admin"
        BY <1>0, <3>2 DEF Granted, AdminKinds
      <4>2. NewRole(p) = "admin"
        <5>1. CASE kind = "remove"
          BY <3>2, <4>1, <5>1 DEF NewRole
        <5>2. CASE kind = "promote"
          BY <3>2, <4>1, <5>2 DEF NewRole
        <5> QED
          BY <3>2, <5>1, <5>2
      <4> QED
        BY <1>0, <1>2, <3>2, <4>2 DEF Admins
    <3>3. CASE kind = "demote" /\ on # by
      <4>1. role'[by] = "admin"
        BY <1>0, <1>1, <3>3 DEF Granted, AdminKinds
      <4> QED
        BY <1>0, <4>1 DEF Admins
    <3>4. CASE kind = "demote" /\ on = by
      <4>1. Cardinality(Admins(role)) >= 2
        BY <3>4 DEF AtStep
      <4>2. Admins(role) \ {on} # {}
        <5>1. SUFFICES ASSUME Admins(role) \subseteq {on} PROVE FALSE
          OBVIOUS
        <5>2. IsFiniteSet({on}) /\ Cardinality({on}) = 1
          BY FS_Singleton
        <5>3. Cardinality(Admins(role)) <= 1
          BY <5>1, <5>2, FS_Subset
        <5> QED
          BY <1>0, <4>1, <5>3, FiniteRoles
      <4>3. PICK u \in Admins(role) : u # on
        BY <4>2
      <4> QED
        BY <1>1, <4>3 DEF Admins
    <3>5. CASE kind \notin {"remove", "promote", "demote"}
      <4>1. role'[on] = role[on]
        BY <1>2, <1>4, <3>5 DEF NewRole
      <4> QED
        BY <1>0, <1>1, <4>1 DEF Members, Admins
    <3> QED
      BY <3>1, <3>2, <3>3, <3>4, <3>5
  <2>4. Members(role') # {} => Members(role) # {}
    BY <2>1
  <2>5. Admins(role') # {} => Members(role') # {}
    BY <1>0, FiniteRoles
  <2> QED
    BY <1>0, <2>2, <2>3, <2>4, <2>5 DEF Whole
<1> QED
  BY <1>3, <1>4
(* What a step does to who is changing the group: nothing, or the one that *)
(* does it is the only one before or after.                                *)
LEMMA Bystanders ==
    ASSUME UNCHANGED tableVars, Changing' = Changing,
           \A q \in Changing : pc'[q] = pc[q] /\ req'[q] = req[q],
           Calm => Calm /\ WholeInv, Calm' => Calm
    PROVE  WholeInv'
<1> SUFFICES ASSUME Calm' PROVE /\ OneChange' /\ (Changing = {} => Whole')
                                /\ \A q \in Changing : AtStep(q)'
  BY DEF WholeInv
<1>1. OneChange /\ (\A q \in Changing : AtStep(q)) /\ (Changing = {} => Whole)
  BY DEF WholeInv
<1>2. exists' = exists /\ role' = role
  BY DEF tableVars
<1>3. OneChange'
  BY <1>1 DEF OneChange
<1>4. Whole' = Whole
  BY <1>2 DEF Whole
<1>5. ASSUME NEW q \in Changing PROVE AtStep(q)'
  BY <1>1, <1>2, <1>4, <1>5 DEF AtStep, Granted
<1> QED
  BY <1>1, <1>3, <1>4, <1>5

LEMMA OneStepsOn ==
    ASSUME NEW p \in Procs, Changing' \subseteq {p},
           p \in Changing' => AtStep(p)', p \notin Changing' => Whole'
    PROVE  WholeInv'
BY DEF WholeInv, OneChange

LEMMA ChangingStep ==
    ASSUME StepType, HasRequest, NEW p \in Procs, NEW step \in Steps, Go(p, step), pc[p] # "idle"
    PROVE  /\ pc'[p] = step /\ \A q \in Procs : q # p => pc'[q] = pc[q] /\ req'[q] = req[q]
           /\ step # "idle" => req'[p] = req[p]
           /\ Changing' \ {p} = Changing \ {p}
           /\ p \in Changing' <=> /\ step \notin {"idle", "check"}
                                  /\ step = "told" => req[p].kind = "disband"
<1>1. /\ pc'[p] = step /\ \A q \in Procs : q # p => pc'[q] = pc[q] /\ req'[q] = req[q]
      /\ step # "idle" => req'[p] = req[p]
  BY DEF Go, StepType
<1> QED
  BY <1>1 DEF Changing
LEMMA CalmBefore ==
    ASSUME TypeOK, [Next]_vars, Calm'
    PROVE  Calm /\ ~Restart
<1>0. faults \in Nat /\ raced \in BOOLEAN /\ forced \in BOOLEAN
  BY GroupsAssumption DEF TypeOK
<1> USE DEF Calm, Fault, vars, tableVars, cacheVars, loadVars, bounds
<1>1. ASSUME UNCHANGED vars PROVE Calm
  <2>1. raced' = raced /\ forced' = forced /\ faults' = faults
    BY <1>1
  <2> QED
    BY <2>1
<1>2. ASSUME Restart PROVE Calm
  BY <1>0, <1>2 DEF Restart
<1>3. ASSUME NEW p \in Procs, Look(p) \/ ReadMembers(p) \/ StoreEntry(p) PROVE Calm
  BY <1>0, <1>3 DEF Look, ReadMembers, StoreEntry
<1>4. ASSUME NEW p \in Procs, NEW r \in Requests, Request(p, r) PROVE Calm
  BY <1>0, <1>4 DEF Request
<1>5. ASSUME NEW p \in Procs, Check(p) \/ Count(p) \/ Write(p) PROVE Calm
  BY <1>0, <1>5 DEF Check, Count, Write
<1>6. ASSUME NEW p \in Procs, CountLeft(p) \/ CountAdmins(p) \/ Crown(p) PROVE Calm
  BY <1>0, <1>6 DEF CountLeft, CountAdmins, Crown
<1>7. ASSUME NEW p \in Procs, Wipe(p) \/ DropGroup(p) PROVE Calm
  BY <1>0, <1>7 DEF Wipe, DropGroup
<1>8. ASSUME NEW p \in Procs, Clear(p) \/ Tell(p) \/ Told(p) PROVE Calm
  BY <1>0, <1>8 DEF Clear, Tell, Told
<1>9. Restart => ~Calm'
  BY <1>0 DEF Restart
<1> QED
  BY <1>1, <1>2, <1>3, <1>4, <1>5, <1>6, <1>7, <1>8, <1>9, StepCases

(* The steps of a request that was let through.                            *)
LEMMA ChangerStep ==
    ASSUME TypeOK, HasRequest, WholeInv, Calm, Calm', NEW p \in Procs,
           \/ Count(p) \/ Write(p) \/ CountLeft(p) \/ CountAdmins(p) \/ Crown(p)
           \/ Wipe(p) \/ DropGroup(p) \/ Clear(p) \/ Tell(p)
    PROVE  WholeInv'
<1>0. /\ StepType /\ role \in Roles /\ faults \in Nat
      /\ faults = 0 /\ faults' = 0 /\ ~forced'
  BY TypeParts, GroupsAssumption DEF TypeOK, Calm
<1>1. p \in Changing /\ pc[p] \notin {"idle", "check", "told"}
  BY DEF Changing, Count, Write, CountLeft, CountAdmins, Crown, Wipe, DropGroup, Clear, Tell
<1>2. Changing = {p} /\ AtStep(p)
  BY <1>1 DEF WholeInv, OneChange
<1>3. ASSUME NEW step \in Steps, Go(p, step),
             step = "idle" \/ (step = "told" /\ req[p].kind # "disband") => Whole',
             step \notin {"idle", "check", "told"} => AtStep(p)',
             step = "told" /\ req[p].kind = "disband" => AtStep(p)', step # "check"
      PROVE  WholeInv'
  <2>1. Changing' \subseteq {p}
    BY <1>0, <1>1, <1>2, <1>3, ChangingStep
  <2>2. p \in Changing' => AtStep(p)'
    BY <1>0, <1>1, <1>3, ChangingStep
  <2>3. p \notin Changing' => Whole'
    BY <1>0, <1>1, <1>3, ChangingStep
  <2> QED
    BY <2>1, <2>2, <2>3, OneStepsOn
<1> USE <1>2 DEF AtStep, tableVars
<1>4. CASE Count(p)
  <2>1. PICK step \in Steps : Go(p, step) /\ step \in {"write", "idle"}
    BY <1>4 DEF Count, Steps
  <2>2. UNCHANGED <<exists, role>> /\ Whole /\ Granted(p) /\ pc[p] = "count"
    BY <1>4 DEF Count
  <2>3. Whole'
    BY <2>2 DEF Whole
  <2>4. step = "write" =>
           /\ req[p].kind = "add" => Cardinality(Members(role)) + 1 <= MaxMembers
           /\ req[p].kind # "add" => Cardinality(Admins(role)) >= 2
    BY <1>0, <1>4, <2>1 DEF Count, Go, Fault, StepType
  <2>5. step = "write" => AtStep(p)'
    BY <1>0, <1>1, <2>1, <2>2, <2>3, <2>4, ChangingStep DEF Granted
  <2> QED
    BY <1>3, <2>1, <2>3, <2>5
<1>5. CASE Write(p)
  <2>1. /\ exists' = exists /\ role' = [role EXCEPT ![req[p].on] = NewRole(p)]
        /\ pc[p] = "write" /\ Whole /\ Granted(p) /\ req[p].kind # "expel"
        /\ Go(p, IF req[p].kind = "leave" THEN "left" ELSE "tell")
    <3>1. forced' = (forced \/ req[p].kind = "expel")
      BY <1>5 DEF Write
    <3>2. req[p].kind # "expel"
      BY <1>0, <3>1, Zenon
    <3>3. role' = [role EXCEPT ![req[p].on] = NewRole(p)] /\ pc[p] = "write" /\ exists' = exists
      BY <1>0, <1>5 DEF Write, Fault
    <3>4. Go(p, IF req[p].kind = "leave" THEN "left" ELSE "tell")
      BY <1>5, <3>2 DEF Write
    <3> QED
      BY <3>2, <3>3, <3>4
  <2>2. CASE req[p].kind = "leave"
    <3>1. exists
      BY <1>0, <2>1, <2>2, FiniteRoles DEF Whole, Granted, Members, HasRequest, Requests
    <3>2. Members(role') \subseteq Members(role)
      BY <1>0, <2>1, <2>2 DEF Members, Roles, NewRole
    <3>3. Cardinality(Members(role')) <= MaxMembers
      <4>1. IsFiniteSet(Members(role)) /\ Cardinality(Members(role)) \in Nat
        BY <1>0, FiniteRoles
      <4>2. Cardinality(Members(role')) <= Cardinality(Members(role))
            /\ Cardinality(Members(role')) \in Nat
        BY <3>2, <4>1, FS_Subset, FS_CardinalityType
      <4> QED
        BY <2>1, <4>1, <4>2, GroupsAssumption DEF Whole
    <3>4. pc'[p] = "left"
      BY <1>0, <1>1, <2>1, <2>2, ChangingStep DEF Steps
    <3>5. AtStep(p)'
      BY <2>1, <3>1, <3>3, <3>4
    <3> QED
      BY <1>3, <2>1, <2>2, <3>5 DEF Steps
  <2>3. CASE req[p].kind # "leave"
    <3>1. Whole'
      BY <2>1, <2>3, WrittenWhole
    <3>2. pc'[p] = "tell"
      BY <1>0, <1>1, <2>1, <2>3, ChangingStep DEF Steps
    <3> QED
      BY <1>3, <2>1, <2>3, <3>1, <3>2 DEF Steps
  <2> QED
    BY <2>2, <2>3
<1>6. CASE CountLeft(p)
  <2>1. /\ UNCHANGED <<exists, role>> /\ pc[p] = "left"
        /\ Go(p, IF Members(role) = {} THEN "drop" ELSE "heir")
    BY <1>0, <1>6 DEF CountLeft, Fault
  <2>2. pc'[p] = IF Members(role) = {} THEN "drop" ELSE "heir"
    BY <1>0, <1>1, <2>1, ChangingStep DEF Steps
  <2>3. AtStep(p)'
    BY <2>1, <2>2
  <2> QED
    BY <1>3, <2>1, <2>3 DEF Steps
<1>7. CASE CountAdmins(p)
  <2>1. /\ UNCHANGED <<exists, role>> /\ pc[p] = "heir"
        /\ Go(p, IF Admins(role) = {} THEN "crown" ELSE "tell")
    BY <1>0, <1>7 DEF CountAdmins, Fault
  <2>2. pc'[p] = IF Admins(role) = {} THEN "crown" ELSE "tell"
    BY <1>0, <1>1, <2>1, ChangingStep DEF Steps
  <2>3. Admins(role) # {} => Whole'
    BY <2>1 DEF Whole
  <2>4. AtStep(p)'
    BY <2>1, <2>2, <2>3
  <2> QED
    BY <1>3, <2>1, <2>4 DEF Steps
<1>8. CASE Crown(p)
  <2>1. /\ exists' = exists /\ pc[p] = "crown" /\ Go(p, "tell")
        /\ \E u \in Members(role) : role' = [role EXCEPT ![u] = "admin"]
    BY <1>0, <1>8 DEF Crown, Fault
  <2>2. pc'[p] = "tell"
    BY <1>0, <1>1, <2>1, ChangingStep DEF Steps
  <2>3. Members(role') = Members(role) /\ Admins(role') # {}
    BY <1>0, <2>1 DEF Members, Admins, Roles
  <2>4. Whole'
    BY <2>1, <2>3 DEF Whole
  <2>5. AtStep(p)'
    BY <2>2, <2>4
  <2> QED
    BY <1>3, <2>1, <2>5 DEF Steps
<1>9. CASE Wipe(p)
  <2>1. pc[p] = "wipe" /\ Go(p, "drop") /\ role' = Nobody
    BY <1>0, <1>9 DEF Wipe, Fault
  <2>2. pc'[p] = "drop" /\ Members(role') = {}
    BY <1>0, <1>1, <2>1, ChangingStep DEF Steps, Members, Nobody
  <2>3. AtStep(p)'
    BY <2>2
  <2> QED
    BY <1>3, <2>1, <2>3 DEF Steps
<1>10. CASE DropGroup(p)
  <2>1. pc[p] = "drop" /\ Go(p, "clear") /\ exists' = FALSE /\ role' = role /\ Members(role) = {}
    BY <1>0, <1>10 DEF DropGroup, Fault
  <2>2. pc'[p] = "clear"
    BY <1>0, <1>1, <2>1, ChangingStep DEF Steps
  <2>3. Whole'
    BY <2>1, FS_EmptySet, GroupsAssumption DEF Whole
  <2>4. AtStep(p)'
    BY <2>2, <2>3
  <2> QED
    BY <1>3, <2>1, <2>4 DEF Steps
<1>11. CASE Clear(p) \/ Tell(p)
  <2>1. /\ UNCHANGED <<exists, role>> /\ pc[p] \in {"clear", "tell"}
        /\ \E step \in {"tell", "idle", "told"} : Go(p, step)
    BY <1>11 DEF Clear, Tell
  <2>2. PICK step \in {"tell", "idle", "told"} : Go(p, step)
    BY <2>1
  <2>3. pc'[p] = step
    BY <1>0, <1>1, <2>2, ChangingStep DEF Steps
  <2>4. Whole'
    BY <2>1 DEF Whole
  <2>5. AtStep(p)'
    BY <2>3, <2>4
  <2> QED
    BY <1>3, <2>2, <2>4, <2>5 DEF Steps
<1> QED
  BY <1>4, <1>5, <1>6, <1>7, <1>8, <1>9, <1>10, <1>11

LEMMA WholeStep ==
    ASSUME TypeOK, HasRequest, WholeInv, [Next]_vars
    PROVE  WholeInv'
<1> SUFFICES ASSUME Calm' PROVE WholeInv'
  BY DEF WholeInv
<1>0. /\ Calm /\ ~Restart /\ StepType /\ ~raced' /\ WholeInv
      /\ OneChange /\ (\A q \in Changing : AtStep(q)) /\ (Changing = {} => Whole)
  BY CalmBefore, TypeParts DEF Calm, WholeInv
<1> USE DEF vars, tableVars, cacheVars, loadVars, bounds
<1>1. CASE UNCHANGED <<tableVars, pc, req>>
  <2>1. Changing' = Changing
    BY <1>1 DEF Changing
  <2> QED
    BY <1>0, <1>1, <2>1, Bystanders
<1>2. ASSUME NEW p \in Procs, NEW r \in Requests, Request(p, r) PROVE WholeInv'
  <2>1. /\ pc[p] = "idle" /\ UNCHANGED tableVars /\ req' = [req EXCEPT ![p] = r]
        /\ pc' = [pc EXCEPT ![p] = CASE r.kind = "expel" -> "write"
                                     [] r.kind = "delete" -> "wipe"
                                     [] OTHER -> "check"]
    BY <1>2 DEF Request
  <2>2. /\ \A q \in Procs : q # p => pc'[q] = pc[q] /\ req'[q] = req[q]
        /\ req'[p] = r /\ p \notin Changing
    BY <1>0, <2>1 DEF StepType, Changing
  <2>3. CASE r.kind \in ServerKinds
    <3>1. pc'[p] \in {"write", "wipe"}
      BY <1>0, <2>1, <2>3 DEF StepType, ServerKinds
    <3>2. raced' = (raced \/ Changing # {})
      BY <1>2, <2>3 DEF Request
    <3>3. Changing = {}
      BY <1>0, <3>2, Zenon
    <3>4. Whole' /\ Changing' \subseteq {p}
      BY <1>0, <2>1, <2>2, <3>3 DEF Whole, Changing
    <3>5. AtStep(p)'
      BY <2>2, <2>3, <3>1, <3>4 DEF AtStep, Granted, ServerKinds, AdminKinds
    <3> QED
      BY <3>4, <3>5, OneStepsOn
  <2>4. CASE r.kind \notin ServerKinds
    <3>1. pc'[p] = "check"
      BY <1>0, <2>1, <2>4 DEF StepType, ServerKinds
    <3>2. Changing' = Changing
      BY <2>2, <3>1 DEF Changing
    <3> QED
      BY <1>0, <2>1, <2>2, <3>2, Bystanders
  <2> QED
    BY <2>3, <2>4
<1>3. ASSUME NEW p \in Procs, Check(p) PROVE WholeInv'
  <2>1. pc[p] = "check" /\ UNCHANGED tableVars /\ p \notin Changing
    BY <1>3 DEF Check, Changing
  <2>2. CASE ~Allowed(p) \/ req[p].kind = "post"
    <3>1. Go(p, "idle") \/ (Go(p, "told") /\ req[p].kind = "post")
      BY <1>3, <2>2 DEF Check
    <3>2. /\ Changing' = Changing
          /\ \A q \in Procs : q # p => pc'[q] = pc[q] /\ req'[q] = req[q]
      <4>1. CASE Go(p, "idle")
        BY <1>0, <2>1, <4>1, ChangingStep DEF Steps
      <4>2. CASE Go(p, "told") /\ req[p].kind = "post"
        BY <1>0, <2>1, <4>2, ChangingStep DEF Steps
      <4> QED
        BY <3>1, <4>1, <4>2
    <3>3. \A q \in Changing : q \in Procs /\ q # p
      BY <2>1 DEF Changing
    <3> QED
      BY <1>0, <2>1, <3>2, <3>3, Bystanders
  <2>3. CASE Allowed(p) /\ req[p].kind # "post"
    <3>1. PICK step \in {"tell", "count", "write"} :
             /\ Go(p, step)
             /\ req[p].kind = "disband" => step = "tell"
             /\ step = "write" => /\ req[p].kind # "add"
                                  /\ req[p].kind = "demote" => req[p].on # req[p].by
      BY <1>3, <2>3 DEF Check
    <3>2. raced' = (raced \/ Changing # {} \/ view[p] # role)
      BY <1>3, <2>3 DEF Check
    <3>3. Changing = {} /\ view[p] = role
      BY <1>0, <3>2, Zenon
    <3>4. Whole' /\ Changing' \subseteq {p} /\ pc'[p] = step /\ req'[p] = req[p]
      BY <1>0, <2>1, <3>1, <3>3, ChangingStep DEF Whole, Steps
    <3>5. Granted(p)'
      BY <2>1, <2>3, <3>3, <3>4 DEF Granted, Allowed, AdminKinds
    <3>6. AtStep(p)'
      BY <3>1, <3>4, <3>5 DEF AtStep
    <3> QED
      BY <3>4, <3>6, OneStepsOn, <1>0, <2>1, <3>1, <3>3, ChangingStep DEF Steps
  <2> QED
    BY <2>2, <2>3
<1>4. ASSUME NEW p \in Procs, Told(p) PROVE WholeInv'
  <2>1. pc[p] = "told" /\ UNCHANGED tableVars
        /\ raced' = (raced \/ (req[p].kind = "disband" /\ Changing # {p}))
    BY <1>4 DEF Told
  <2>2. CASE req[p].kind = "disband"
    <3>1. Changing = {p} /\ Go(p, "wipe")
      <4>1. Changing = {p}
        BY <1>0, <2>1, <2>2, Zenon
      <4> QED
        BY <1>4, <2>2, <4>1 DEF Told
    <3>2. AtStep(p)
      BY <1>0, <3>1
    <3>3. Whole'
      BY <2>1, <3>2 DEF AtStep, Whole
    <3>4. pc'[p] = "wipe" /\ Changing' \subseteq {p}
      BY <1>0, <2>1, <3>1, ChangingStep DEF Steps
    <3>5. AtStep(p)'
      BY <3>3, <3>4 DEF AtStep
    <3> QED
      BY <3>3, <3>4, <3>5, OneStepsOn
  <2>3. CASE req[p].kind # "disband"
    <3>1. Go(p, "idle") /\ p \notin Changing
      BY <1>4, <2>1, <2>3 DEF Told, Changing
    <3>2. /\ Changing' = Changing
          /\ \A q \in Procs : q # p => pc'[q] = pc[q] /\ req'[q] = req[q]
      BY <1>0, <2>1, <3>1, ChangingStep DEF Steps
    <3> QED
      BY <1>0, <2>1, <3>1, <3>2, Bystanders DEF Changing
  <2> QED
    BY <2>2, <2>3
<1>5. ASSUME NEW p \in Procs, Look(p) \/ ReadMembers(p) \/ StoreEntry(p)
      PROVE  UNCHANGED <<tableVars, pc, req>>
  BY <1>5 DEF Look, ReadMembers, StoreEntry
<1> QED
  BY <1>0, <1>1, <1>2, <1>3, <1>4, <1>5, ChangerStep, StepCases

(* GroupIsWhole of Groups: while the requests that change the group come   *)
(* one at a time, groupLeaveHandler and the counts of the others see to it *)
(* that a group has an admin, is not too large, and is removed with its    *)
(* last member and not before, however many messages load it meanwhile.    *)
THEOREM WholeGroups == Spec => []GroupIsWhole
<1>1. ASSUME Init PROVE WholeInv
  <2>1. Changing = {} /\ exists /\ role \in Roles
    BY <1>1 DEF Init, Changing
  <2>2. Cardinality(Admins(role)) = 1 /\ Cardinality(Members(role)) <= MaxMembers
    BY <1>1 DEF Init
  <2>3. Admins(role) # {}
    BY <2>2, FS_EmptySet
  <2>4. Members(role) # {}
    BY <2>1, <2>3, FiniteRoles
  <2> QED
    BY <2>1, <2>2, <2>3, <2>4 DEF WholeInv, OneChange, Whole
<1>2. TypeOK /\ HasRequest /\ WholeInv /\ [Next]_vars => WholeInv'
  BY WholeStep
<1>3. TypeOK /\ HasRequest /\ [Next]_vars => (TypeOK /\ HasRequest)'
  BY TypeStep
<1>4. WholeInv => GroupIsWhole
  BY DEF WholeInv, Calm, Whole, GroupIsWhole
<1> QED
  BY <1>1, <1>2, <1>3, <1>4, InitType, PTL DEF Spec
=============================================================================
