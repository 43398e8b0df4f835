------------------------------- MODULE SignOn -------------------------------
(***************************************************************************)
(* Signing in through the company's identity provider (oidc.go,            *)
(* oidc_user.go) and through Google (auth.go): the state that ties a       *)
(* callback to its start, the account that is found or made, and the code  *)
(* the page exchanges for the token.  What a token is good for afterwards  *)
(* is in Sessions.                                                         *)
(*                                                                         *)
(* A person is a subject of the provider or of Google.  Whether the        *)
(* provider or Google vouches for them is not modelled: either may always  *)
(* refuse or be out of reach.                                              *)
(***************************************************************************)
EXTENDS Integers, FiniteSets

CONSTANTS
    Subjects,     \* people who sign in at the provider
    Googlers,     \* people who sign in with Google
    Names,        \* user names
    Candidates,   \* Candidates[s]: the three names tried for s
    Nobody,       \* stands for no person and no name
    Procs,        \* handlers at once
    MaxAttempts,  \* bound: sign-ins that are begun
    MaxChanges    \* bound: accounts that others make, delete or block

People == Subjects \cup Googlers
Attempts == 1..MaxAttempts

ASSUME SignOnAssumption ==
    /\ Subjects \cap Googlers = {} /\ Nobody \notin People \cup Names
    /\ Candidates \in [People -> [1..3 -> Names]]
    /\ {MaxAttempts, MaxChanges} \subseteq Nat

VARIABLES
    users,      \* the rows of users, by name
    states,     \* oidcStates
    tickets,    \* the exchange codes of finished sign-ins
    who,        \* whose sign-in an attempt is
    req,        \* the handlers
    begun, changes,
    \* History, for the properties:
    passed,     \* how often a callback of an attempt was let through
    issued,     \* the tokens, in an answer or behind a code
    given,      \* how often a page was given that of an attempt
    refused     \* the sign-ins that found no name

history == <<passed, issued, given, refused>>
vars == <<users, states, tickets, who, req, begun, changes, history>>

\* by: whom the row was made for, Nobody of these people if they registered or
\* an administrator made it; subjects: oidc_subject and google_sub.
\* crossed is history: a subject was written into it that was meant for its
\* predecessor of the same name.
NoRow == [there |-> FALSE, by |-> Nobody, subjects |-> {}, blocked |-> FALSE,
          crossed |-> FALSE]
Made(s) == [NoRow EXCEPT !.there = TRUE, !.by = s, !.subjects = {s} \ {Nobody}]
OldGoogle(g) == [Made(g) EXCEPT !.subjects = {}]

\* swapped is history: the account of that name was deleted meanwhile.
Idle == [at |-> "idle", attempt |-> 0, try |-> 1, name |-> Nobody, swapped |-> FALSE]

\* At most one: both columns have a unique index.
Bound(s) == {n \in Names : users[n].there /\ s \in users[n].subjects}
Person(p) == who[req[p].attempt]

\* Names that are taken already, by people who registered or by Google users
\* of the time before google_sub.
Init ==
    /\ users \in [Names -> {NoRow, Made(Nobody)} \cup {OldGoogle(g) : g \in Googlers}]
    /\ \A n \in Names : users[n].by \in Googlers => n = Candidates[users[n].by][1]
    /\ states = {} /\ tickets = {}
    /\ who = [n \in Attempts |-> Nobody]
    /\ req = [p \in Procs |-> Idle]
    /\ begun = 0 /\ changes = 0
    /\ passed = [n \in Attempts |-> 0] /\ issued = {} /\ given = [n \in Attempts |-> 0] /\ refused = {}

Goto(p, at) == req' = [req EXCEPT ![p].at = at]
Found(p, name) == req' = [req EXCEPT ![p].at = "blocked", ![p].name = name]
Done(p) == req' = [req EXCEPT ![p] = Idle]

----------------------------------------------------------------------------
(* The provider *)

\* oidcStartHandler: the person is sent to the provider with a new state.
Start(s) ==
    /\ begun < MaxAttempts /\ begun' = begun + 1
    /\ who' = [who EXCEPT ![begun + 1] = s]
    /\ states' = states \cup {begun + 1}
    /\ UNCHANGED <<users, tickets, req, changes, history>>

\* Mutant: the state is looked up and left.
takeOIDCStateKept(n) == states

takeOIDCState(n) == states \ {n}

\* oidcCallbackHandler; a page may be sent back to it with the same state
\* again, which does nothing when the state is gone.
Callback(p, n) ==
    /\ req[p].at = "idle" /\ n \in states
    /\ states' = takeOIDCState(n)
    /\ passed' = [passed EXCEPT ![n] = @ + 1]
    /\ req' = [req EXCEPT ![p] = [Idle EXCEPT !.at = "code", !.attempt = n]]
    /\ UNCHANGED <<users, tickets, who, begun, changes, issued, given, refused>>

\* The state of an attempt gets too old, or the code that nobody fetched.
Expire(n) ==
    /\ n \in states \cup tickets
    /\ states' = states \ {n} /\ tickets' = tickets \ {n}
    /\ UNCHANGED <<users, who, req, begun, changes, history>>

\* oidcExchangeCode, verifyIDToken and oidcResolveUser, or the test of the
\* Google token: somebody is vouched for, or the sign-in ends here. So it does
\* for a newcomer when registration is closed.
ExchangeCode(p) ==
    /\ req[p].at = "code"
    /\ Goto(p, "select") \/ Done(p)
    /\ UNCHANGED <<users, states, tickets, who, begun, changes, history>>

\* oidcProvisionUser: the name comes from the database if the person is known.
SelectSubject(p) ==
    LET s == Person(p) IN
    /\ req[p].at = "select"
    /\ IF Bound(s) # {} THEN \E n \in Bound(s) : Found(p, n)
       ELSE Goto(p, IF s \in Googlers THEN "legacy" ELSE "insert")
    /\ UNCHANGED <<users, states, tickets, who, begun, changes, history>>

\* What lets INSERT ... ON CONFLICT DO NOTHING affect a row.
Free(s, n) == ~users[n].there /\ Bound(s) = {}

\* Mutant: the next name is tried without a look for this person's row.
AfterConflictNext(s) == "insert"

\* After a conflict: oidcProvisionUser looks whether another tab was first,
\* googleAuthHandler goes on to the next name.
AfterConflict(s) == IF s \in Subjects THEN "again" ELSE "insert"

InsertCandidate(p) ==
    LET r == req[p]  s == Person(p)  n == Candidates[s][r.try] IN
    /\ r.at = "insert" /\ r.try <= 3
    /\ IF Free(s, n)
       THEN /\ users' = [users EXCEPT ![n] = Made(s)]
            /\ Found(p, n)
       ELSE /\ req' = [req EXCEPT ![p].at = AfterConflict(s), ![p].try = @ + 1]
            /\ UNCHANGED users
    /\ UNCHANGED <<states, tickets, who, begun, changes, history>>

SelectAgain(p) ==
    LET s == Person(p) IN
    /\ req[p].at = "again"
    /\ IF Bound(s) # {} THEN \E n \in Bound(s) : Found(p, n) ELSE Goto(p, "insert")
    /\ UNCHANGED <<users, states, tickets, who, begun, changes, history>>

\* "could not pick a free user name", "username unavailable"
NoNameLeft(p) ==
    LET s == Person(p) IN
    /\ req[p].at = "insert" /\ req[p].try = 4
    /\ refused' = refused \cup {[who |-> s, known |-> Bound(s) # {}, changes |-> changes]}
    /\ Done(p)
    /\ UNCHANGED <<users, states, tickets, who, begun, changes, passed, issued, given>>

----------------------------------------------------------------------------
(* Google *)

\* googleAuthHandler: one request, no state.
GoogleBegin(p, g) ==
    /\ req[p].at = "idle"
    /\ begun < MaxAttempts /\ begun' = begun + 1
    /\ who' = [who EXCEPT ![begun + 1] = g]
    /\ req' = [req EXCEPT ![p] = [Idle EXCEPT !.at = "code", !.attempt = begun + 1]]
    /\ passed' = [passed EXCEPT ![begun + 1] = 1]
    /\ UNCHANGED <<users, states, tickets, changes, issued, given, refused>>

\* Mutant: any account of that name without a subject.
IsUnbound(g, n) == users[n].there /\ users[n].subjects \cap Googlers = {}

\* The password of such a row is the one once derived for this person.
IsLegacy(g, n) ==
    users[n].there /\ users[n].subjects \cap Googlers = {} /\ users[n].by = g

FindLegacy(p) ==
    LET g == Person(p)  n == Candidates[g][1] IN
    /\ req[p].at = "legacy"
    /\ req' = [req EXCEPT ![p] = IF IsLegacy(g, n) THEN [@ EXCEPT !.at = "bind", !.name = n]
                                 ELSE [@ EXCEPT !.at = "insert"]]
    /\ UNCHANGED <<users, states, tickets, who, begun, changes, history>>

\* The UPDATE asks for the name only, and nobody looks whether it failed.
BindLegacy(p) ==
    LET r == req[p]  g == Person(p) IN
    /\ r.at = "bind"
    /\ users' = IF ~users[r.name].there \/ Bound(g) \ {r.name} # {} THEN users
                ELSE [users EXCEPT ![r.name].subjects = (@ \ Googlers) \cup {g},
                                   ![r.name].crossed = @ \/ r.swapped]
    /\ Found(p, r.name)
    /\ UNCHANGED <<states, tickets, who, begun, changes, history>>

----------------------------------------------------------------------------
(* The end of it *)

\* userBlocked, then the token: in the answer to Google's, behind a code in
\* the provider's.
IssueToken(p) ==
    LET r == req[p]
        row == users[r.name]
        t == [attempt |-> r.attempt, own |-> row.by = Person(p),
              swapped |-> r.swapped \/ row.crossed] IN
    /\ r.at = "blocked"
    /\ IF ~row.there \/ row.blocked
       THEN UNCHANGED <<tickets, issued, given>>
       ELSE /\ issued' = issued \cup {t}
            /\ IF Person(p) \in Googlers
               THEN given' = [given EXCEPT ![r.attempt] = @ + 1] /\ UNCHANGED tickets
               ELSE tickets' = tickets \cup {r.attempt} /\ UNCHANGED given
    /\ Done(p)
    /\ UNCHANGED <<users, states, who, begun, changes, passed, refused>>

\* Mutant: the code is good until it expires.
takeTicketKept(n) == tickets

takeTicket(n) == tickets \ {n}

\* oidcExchangeHandler
Exchange(n) ==
    /\ n \in tickets
    /\ tickets' = takeTicket(n)
    /\ given' = [given EXCEPT ![n] = @ + 1]
    /\ UNCHANGED <<users, states, who, req, begun, changes, passed, issued, refused>>

Others == changes < MaxChanges /\ changes' = changes + 1

\* Somebody registers, or an administrator makes an account.
Register(n) ==
    /\ ~users[n].there /\ Others
    /\ users' = [users EXCEPT ![n] = Made(Nobody)]
    /\ UNCHANGED <<states, tickets, who, req, begun, history>>

\* An administrator blocks an account.
Block(n) ==
    /\ users[n].there /\ Others
    /\ users' = [users EXCEPT ![n].blocked = TRUE]
    /\ UNCHANGED <<states, tickets, who, req, begun, history>>

\* An administrator deletes an account.
Delete(n) ==
    /\ users[n].there /\ Others
    /\ users' = [users EXCEPT ![n] = NoRow]
    /\ req' = [p \in Procs |-> [req[p] EXCEPT !.swapped = @ \/ req[p].name = n]]
    /\ UNCHANGED <<states, tickets, who, begun, history>>

\* States and codes are in memory.
Restart ==
    /\ states' = {} /\ tickets' = {}
    /\ req' = [p \in Procs |-> Idle]
    /\ UNCHANGED <<users, who, begun, changes, history>>

Next ==
    \/ \E s \in Subjects : Start(s)
    \/ \E p \in Procs : \/ \E n \in Attempts : Callback(p, n)
                        \/ \E g \in Googlers : GoogleBegin(p, g)
                        \/ ExchangeCode(p) \/ SelectSubject(p)
                        \/ FindLegacy(p) \/ BindLegacy(p)
                        \/ InsertCandidate(p) \/ SelectAgain(p) \/ NoNameLeft(p)
                        \/ IssueToken(p)
    \/ \E n \in Attempts : Expire(n) \/ Exchange(n)
    \/ \E n \in Names : Register(n) \/ Block(n) \/ Delete(n)
    \/ Restart

Spec == Init /\ [][Next]_vars

----------------------------------------------------------------------------
(* Properties *)

\* The accounts made for a person. One of a Google user whose subject was
\* written over with another's does not count: they get a new one.
OwnRows(s) == {n \in Names : users[n].by = s /\ (users[n].crossed => s \in Subjects)}

\* Whoever signs in gets a token of the account that was made for them, and
\* there is one: a name that is taken is never entered because it fits the
\* address, whatever the order of two tabs, a registration and a deletion. The
\* exception is the account deleted under a callback that had found it, and
\* made again under its name for somebody else.
EntersOwnAccount ==
    /\ \A t \in issued : t.own \/ t.swapped
    /\ \A s \in People : Cardinality(OwnRows(s)) <= 1
    /\ \A n \in Names : users[n].subjects \subseteq {users[n].by} \/ users[n].crossed

\* Nobody with an account at the provider is turned away for want of a name
\* because another tab of theirs was first, as long as nobody else makes or
\* deletes accounts. Google's second tab is: googleAuthHandler has no second
\* look.
BothTabsEnter ==
    \A r \in refused : r.who \in Subjects /\ r.known => r.changes > 0

\* A sign-in passes the callback once and gives one token, whatever is sent
\* again, expires, or is lost in a restart.
UsedOnce == \A n \in Attempts : passed[n] <= 1 /\ given[n] <= 1
=============================================================================
