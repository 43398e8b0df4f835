------------------------------- MODULE Groups -------------------------------
(***************************************************************************)
(* The members of one group and the server's cache of them                 *)
(* (server/groups.go).  Every request checks the caller against the cache, *)
(* changes the table with statements of its own (there is no transaction)  *)
(* and announces the change, which first throws the cache entry away and   *)
(* then loads it anew.  A load that misses reads the table and puts what   *)
(* it read into the cache later, outside of any lock.                      *)
(***************************************************************************)
EXTENDS Naturals, FiniteSets

CONSTANTS
    Users,       \* the accounts
    Procs,       \* the handler goroutines that can run at once
    MaxMembers,  \* maxGroupMembers
    MaxRequests, \* bound: requests
    MaxFaults    \* bound: statements that fail, and server restarts

ASSUME GroupsAssumption ==
    /\ Users # {} /\ IsFiniteSet(Users)
    /\ MaxMembers \in Nat \ {0} /\ MaxRequests \in Nat /\ MaxFaults \in Nat

VARIABLES
    exists,    \* the row of groups is there
    role,      \* role[u]: the row of group_members, "none" without one
    cache,     \* groupCache[gid]: at most one such role, in a set
    pc,        \* what each goroutine does next
    req,       \* its request: the kind, the caller, the user it is about
    load,      \* its loadGroup: "no", "look", "members" or "store"
    view,      \* the roles its last loadGroup found, or is about to store
    late,      \* history: goroutines whose pending store is out of date
    stale,     \* history: the entry was stored by one of those
    raced,     \* history: a change was decided on while another was under way,
               \* or on roles that were not those of the table
    forced,    \* history: the administrator of the server removed a member
    requests,  \* requests so far
    faults     \* faults so far

tableVars == <<exists, role>>
cacheVars == <<cache, stale>>
loadVars  == <<load, view, late>>
bounds    == <<requests, faults>>
vars == <<tableVars, cacheVars, pc, req, loadVars, raced, forced, bounds>>

Roles  == [Users -> {"none", "member", "admin"}]
Nobody == [u \in Users |-> "none"]

Members(r) == {u \in Users : r[u] # "none"}
Admins(r)  == {u \in Users : r[u] = "admin"}

\* What needs an admin of the group, and what the server's administrator does.
AdminKinds  == {"add", "remove", "promote", "demote", "disband"}
ServerKinds == {"expel", "delete"}
Kinds       == AdminKinds \cup ServerKinds \cup {"post", "leave"}
Requests    == [kind : Kinds, by : Users, on : Users]
NoRequest   == [kind |-> "none"]

Fault == faults < MaxFaults /\ faults' = faults + 1

\* Goroutines that have changed the table, or are about to, and have not yet
\* thrown the cache entry away.
Unannounced == {p \in Procs : pc[p] \in {"left", "heir", "crown", "drop", "clear", "tell"}}

\* Goroutines that have been let through to a change and have not finished it.
Changing == {p \in Procs : /\ pc[p] \notin {"idle", "check"}
                           /\ pc[p] = "told" => req[p].kind = "disband"}
-----------------------------------------------------------------------------
\* As groupsHandler leaves a group it has created.
Init ==
    /\ exists = TRUE
    /\ role \in {r \in Roles : Cardinality(Admins(r)) = 1
                               /\ Cardinality(Members(r)) <= MaxMembers}
    /\ cache = {role}
    /\ pc = [p \in Procs |-> "idle"]
    /\ req = [p \in Procs |-> NoRequest]
    /\ load = [p \in Procs |-> "no"]
    /\ view = [p \in Procs |-> Nobody]
    /\ late = {} /\ stale = FALSE /\ raced = FALSE /\ forced = FALSE
    /\ requests = 0 /\ faults = 0
-----------------------------------------------------------------------------
(* loadGroup *)

Look(p) ==
    /\ load[p] = "look"
    /\ \/ /\ cache # {}
          /\ \E r \in cache : view' = [view EXCEPT ![p] = r]
          /\ load' = [load EXCEPT ![p] = "no"]
          /\ UNCHANGED faults
       \/ /\ cache = {}
          /\ IF exists THEN Fault ELSE UNCHANGED faults
          /\ view' = [view EXCEPT ![p] = Nobody]
          /\ load' = [load EXCEPT ![p] = "no"]
       \/ /\ cache = {} /\ exists
          /\ load' = [load EXCEPT ![p] = "members"]
          /\ UNCHANGED <<view, faults>>
    /\ UNCHANGED <<tableVars, cacheVars, pc, req, late, raced, forced, requests>>

\* The rows are read until there are no more, or until the reading breaks off,
\* which looks the same; a query that fails is no group.
ReadMembers(p) ==
    /\ load[p] = "members"
    /\ \/ /\ view' = [view EXCEPT ![p] = role]
          /\ load' = [load EXCEPT ![p] = "store"]
          /\ late' = late \ {p}
          /\ UNCHANGED faults
       \/ /\ \E S \in SUBSET Users : view' =
                [view EXCEPT ![p] = [u \in Users |-> IF u \in S THEN role[u] ELSE "none"]]
          /\ load' = [load EXCEPT ![p] = "store"]
          /\ late' = late \cup {p}
          /\ Fault
       \/ /\ view' = [view EXCEPT ![p] = Nobody]
          /\ load' = [load EXCEPT ![p] = "no"]
          /\ UNCHANGED late
          /\ Fault
    /\ UNCHANGED <<tableVars, cacheVars, pc, req, raced, forced, requests>>

StoreEntry(p) ==
    /\ load[p] = "store"
    /\ load' = [load EXCEPT ![p] = "no"]
    /\ cache' = {view[p]}
    /\ stale' = (p \in late)
    /\ late' = late \ {p}
    /\ UNCHANGED <<tableVars, pc, req, view, raced, forced, bounds>>

\* invalidateGroup.  What other goroutines have read by now is out of date.
Invalidate ==
    /\ cache' = {}
    /\ stale' = FALSE
    /\ late' = late \cup {q \in Procs : load[q] = "store"}

\* The next step of p's request, or its end.
Go(p, step) ==
    /\ pc' = [pc EXCEPT ![p] = step]
    /\ req' = IF step = "idle" THEN [req EXCEPT ![p] = NoRequest] ELSE req
-----------------------------------------------------------------------------
(* The requests *)

Request(p, r) ==
    /\ pc[p] = "idle"
    /\ requests < MaxRequests
    /\ requests' = requests + 1
    /\ r.kind \in {"post", "leave", "disband", "delete"} => r.on = r.by
    /\ req' = [req EXCEPT ![p] = r]
    /\ pc' = [pc EXCEPT ![p] = CASE r.kind = "expel" -> "write"
                                 [] r.kind = "delete" -> "wipe"
                                 [] OTHER -> "check"]
    /\ IF r.kind \in ServerKinds
       THEN raced' = (raced \/ Changing # {}) /\ UNCHANGED load
       ELSE load' = [load EXCEPT ![p] = "look"] /\ UNCHANGED raced
    /\ UNCHANGED <<tableVars, cacheVars, view, late, forced, faults>>

\* isGroupAdmin or isGroupMember, on what the load has found.
Allowed(p) ==
    LET found == view[p][req[p].by]
    IN  IF req[p].kind \in AdminKinds THEN found = "admin" ELSE found # "none"

Check(p) ==
    /\ pc[p] = "check" /\ load[p] = "no"
    /\ IF ~Allowed(p) THEN Go(p, "idle") /\ UNCHANGED <<load, raced>>
       ELSE IF req[p].kind = "post"
            THEN /\ Go(p, "told") /\ load' = [load EXCEPT ![p] = "look"]
                 /\ UNCHANGED raced
            ELSE /\ Go(p, CASE req[p].kind = "disband" -> "tell"
                            [] req[p].kind = "add" -> "count"
                            [] req[p].kind = "demote" /\ req[p].on = req[p].by -> "count"
                            [] OTHER -> "write")
                 /\ raced' = (raced \/ Changing # {} \/ view[p] # role)
                 /\ UNCHANGED load
    /\ view' = [view EXCEPT ![p] = Nobody]
    /\ UNCHANGED <<tableVars, cacheVars, late, forced, bounds>>

\* A count whose query fails is zero: nobody looks at the error.
Count(p) ==
    /\ pc[p] = "count"
    /\ \E failed \in BOOLEAN :
          /\ IF failed THEN Fault ELSE UNCHANGED faults
          /\ LET n(S) == IF failed THEN 0 ELSE Cardinality(S)
                 ok   == IF req[p].kind = "add" THEN n(Members(role)) + 1 <= MaxMembers
                                                ELSE n(Admins(role)) >= 2
             IN  Go(p, IF ok THEN "write" ELSE "idle")
    /\ UNCHANGED <<tableVars, cacheVars, loadVars, raced, forced, requests>>

\* The role a request gives to the user it is about.  Removing oneself does
\* nothing: that goes through leaving.
NewRole(p) ==
    LET k == req[p].kind  had == role[req[p].on]
    IN  CASE k = "add" -> IF had = "none" THEN "member" ELSE had
          [] k = "remove" -> IF req[p].on = req[p].by THEN had ELSE "none"
          [] k \in {"leave", "expel"} -> "none"
          [] k = "promote" -> IF had = "none" THEN "none" ELSE "admin"
          [] k = "demote" -> IF had = "none" THEN "none" ELSE "member"
          [] OTHER -> had

\* The INSERT, DELETE or UPDATE, whose error nobody looks at either.
Write(p) ==
    /\ pc[p] = "write"
    /\ \/ role' = [role EXCEPT ![req[p].on] = NewRole(p)] /\ UNCHANGED faults
       \/ Fault /\ UNCHANGED role
    /\ Go(p, CASE req[p].kind = "leave" -> "left"
               [] req[p].kind = "expel" -> "clear"
               [] OTHER -> "tell")
    /\ forced' = (forced \/ req[p].kind = "expel")
    /\ UNCHANGED <<exists, cacheVars, loadVars, raced, requests>>

\* Mutant: who leaves last is looked for, who is left in charge is not.
CountLeftOnly(p) ==
    /\ pc[p] = "left"
    /\ \/ Go(p, IF Members(role) = {} THEN "drop" ELSE "tell") /\ UNCHANGED faults
       \/ Fault /\ Go(p, "drop")
    /\ UNCHANGED <<tableVars, cacheVars, loadVars, raced, forced, requests>>

\* groupLeaveHandler: who is left?  Is an admin among them?
CountLeft(p) ==
    /\ pc[p] = "left"
    /\ \/ Go(p, IF Members(role) = {} THEN "drop" ELSE "heir") /\ UNCHANGED faults
       \/ Fault /\ Go(p, "drop")
    /\ UNCHANGED <<tableVars, cacheVars, loadVars, raced, forced, requests>>

CountAdmins(p) ==
    /\ pc[p] = "heir"
    /\ \/ Go(p, IF Admins(role) = {} THEN "crown" ELSE "tell") /\ UNCHANGED faults
       \/ Fault /\ Go(p, "crown")
    /\ UNCHANGED <<tableVars, cacheVars, loadVars, raced, forced, requests>>

\* The member of longest standing becomes admin; any member may be the one.
Crown(p) ==
    /\ pc[p] = "crown"
    /\ \/ /\ Members(role) # {}
          /\ \E u \in Members(role) : role' = [role EXCEPT ![u] = "admin"]
          /\ UNCHANGED faults
       \/ Members(role) = {} /\ UNCHANGED <<role, faults>>
       \/ Fault /\ UNCHANGED role
    /\ Go(p, "tell")
    /\ UNCHANGED <<exists, cacheVars, loadVars, raced, forced, requests>>

\* Disbanding, by an admin of the group or of the server.
Wipe(p) ==
    /\ pc[p] = "wipe"
    /\ \/ role' = Nobody /\ UNCHANGED faults
       \/ Fault /\ UNCHANGED role
    /\ Go(p, "drop")
    /\ UNCHANGED <<exists, cacheVars, loadVars, raced, forced, requests>>

DropGroup(p) ==
    /\ pc[p] = "drop"
    /\ \/ exists' = FALSE /\ UNCHANGED faults
       \/ Fault /\ UNCHANGED exists
    /\ Go(p, "clear")
    /\ UNCHANGED <<role, cacheVars, loadVars, raced, forced, requests>>

\* An invalidation by itself; the server's administrator announces as well.
Clear(p) ==
    /\ pc[p] = "clear"
    /\ Invalidate
    /\ Go(p, IF req[p].kind \in ServerKinds THEN "tell" ELSE "idle")
    /\ UNCHANGED <<tableVars, load, view, raced, forced, bounds>>

\* Mutant: the announcement runs in the background.
TellInBackground(p) ==
    /\ pc[p] = "tell"
    /\ Invalidate
    /\ Go(p, "idle")
    /\ load' = [load EXCEPT ![p] = "look"]
    /\ UNCHANGED <<tableVars, view, raced, forced, bounds>>

\* Mutant: the announcement goes to the members the cache knows.
TellTheCached(p) ==
    /\ pc[p] = "tell"
    /\ Go(p, "told")
    /\ load' = [load EXCEPT ![p] = "look"]
    /\ UNCHANGED <<tableVars, cacheVars, late, view, raced, forced, bounds>>

\* notifyGroup: the entry is thrown away, and loaded for the list of recipients.
Tell(p) ==
    /\ pc[p] = "tell"
    /\ Invalidate
    /\ Go(p, "told")
    /\ load' = [load EXCEPT ![p] = "look"]
    /\ UNCHANGED <<tableVars, view, raced, forced, bounds>>

\* The event or the message is sent.  Only now is a group disbanded.
Told(p) ==
    /\ pc[p] = "told" /\ load[p] = "no"
    /\ Go(p, IF req[p].kind = "disband" THEN "wipe" ELSE "idle")
    /\ raced' = (raced \/ (req[p].kind = "disband" /\ Changing # {p}))
    /\ view' = [view EXCEPT ![p] = Nobody]
    /\ UNCHANGED <<tableVars, cacheVars, load, late, forced, bounds>>

Restart ==
    /\ Fault
    /\ pc' = [p \in Procs |-> "idle"]
    /\ req' = [p \in Procs |-> NoRequest]
    /\ load' = [p \in Procs |-> "no"]
    /\ view' = [p \in Procs |-> Nobody]
    /\ cache' = {} /\ stale' = FALSE /\ late' = {}
    /\ UNCHANGED <<tableVars, raced, forced, requests>>
-----------------------------------------------------------------------------
Handler(p) ==
    \/ Look(p) \/ ReadMembers(p) \/ StoreEntry(p)
    \/ \E r \in Requests : Request(p, r)
    \/ Check(p) \/ Count(p) \/ Write(p)
    \/ CountLeft(p) \/ CountAdmins(p) \/ Crown(p)
    \/ Wipe(p) \/ DropGroup(p) \/ Clear(p) \/ Tell(p) \/ Told(p)

Next == (\E p \in Procs : Handler(p)) \/ Restart

Spec == Init /\ [][Next]_vars
-----------------------------------------------------------------------------
(* Properties *)

\* Every variable holds values of its type, and only a request loads.
TypeOK ==
    /\ exists \in BOOLEAN /\ role \in Roles
    /\ cache \subseteq Roles
    /\ pc \in [Procs -> {"idle", "check", "count", "write", "left", "heir", "crown",
                         "wipe", "drop", "clear", "tell", "told"}]
    /\ req \in [Procs -> Requests \cup {NoRequest}]
    /\ load \in [Procs -> {"no", "look", "members", "store"}]
    /\ \A p \in Procs : load[p] # "no" => pc[p] \in {"check", "told"}
    /\ view \in [Procs -> Roles]
    /\ late \subseteq Procs
    /\ stale \in BOOLEAN /\ raced \in BOOLEAN /\ forced \in BOOLEAN
    /\ requests \in 0 .. MaxRequests /\ faults \in 0 .. MaxFaults

\* A cache entry that is not what the table holds is about to be thrown away by
\* whoever changed the table, with one exception: it was stored by a load that
\* such a throwing-away overtook, or whose reading broke off.  Without those no
\* former member is let in, and no new one kept out, for longer than a request.
CacheIsFresh == \A r \in cache : r = role \/ stale \/ Unannounced # {}

\* While requests that change the group come one at a time, however many messages
\* load it meanwhile, a group has an admin, and it is removed with its last member
\* and not before.  (The administrator of the server may remove an admin, and
\* nobody takes the place.)
GroupIsWhole ==
    ~raced /\ ~forced /\ faults = 0 /\ Changing = {} =>
        /\ exists <=> Members(role) # {}
        /\ exists => Admins(role) # {}
        /\ Cardinality(Members(role)) <= MaxMembers

\* server/groups.go:475: "A group must not be left without an admin", which the
\* handlers see to by counting before or after they write.
AdminRemains ==
    (\A p \in Procs : pc[p] = "idle") /\ exists /\ ~forced /\ Members(role) # {} =>
        Admins(role) # {}
=============================================================================
