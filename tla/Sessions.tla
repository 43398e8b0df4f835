------------------------------ MODULE Sessions ------------------------------
(***************************************************************************)
(* One account name: its row, its tokens and its WebSockets, and the       *)
(* handlers that sign in, change the password or act on the account        *)
(* (auth.go, admin.go, ldap.go, wsHandler in ws.go).  A handler is several *)
(* statements; another may run between any two of them.                    *)
(*                                                                         *)
(* Times are seconds, as in a token's iat and in forced_logout_at.  A      *)
(* password is its number, 0 the hash no password fits ("!ldap").  The     *)
(* steps of the second factor are in SecondFactor.                         *)
(***************************************************************************)
EXTENDS Integers, FiniteSets

CONSTANTS
    Procs,          \* handlers at once
    MaxTime,        \* bound: seconds that pass
    MaxRequests,    \* bound: requests served
    MaxRestarts,    \* bound: restarts of the server
    MaxFaults,      \* bound: failing statements
    Loads           \* bound: the sets of operations that behaviours mix

ASSUME SessionsAssumption ==
    MaxTime \in Nat \ {0} /\ {MaxRequests, MaxRestarts, MaxFaults} \subseteq Nat

VARIABLES
    clock,          \* time.Now().Unix()
    row,            \* the row of users, without the second factor's columns
    totp,           \* the second factor's columns of that row
    cutoff,         \* logoutCutoffs: 0 if the map has no entry
    tokens,         \* tokens handed out, n the request that did
    socks,          \* registered WebSockets
    tickets,        \* twoFATickets
    req,            \* the handlers
    count,          \* requests so far
    pws,            \* passwords so far
    restarts, faults,
    load,           \* the operations of this behaviour
    \* History, for the properties:
    out,            \* tokens that a finished revocation was to put out
    kept,           \* those of them the row's stamp puts out after a restart
    revived,        \* tokens a smaller stamp, written over a larger, let in again
    cutBy           \* the requests whose stamps cutoff and the row hold

sessionVars == <<clock, row, totp, cutoff, tokens, socks, tickets, req, count, pws,
                 restarts, faults, load, out, kept, revived, cutBy>>
history == <<out, kept, revived, cutBy>>
bounds == <<restarts, faults, load>>

Revocations == {"change", "block", "logout", "reset", "reset_2fa", "delete"}
Ops == Revocations \cup {"login", "ldap", "external", "register", "create", "unblock", "ws",
                         "setup", "enable", "disable", "verify"}
Number == 0..MaxRequests
Token == [iat : 1..MaxTime + 1, n : Number]
NoToken == [iat |-> 0, n |-> 0]
Row == [there : BOOLEAN, pw : Nat, must : BOOLEAN, blocked : BOOLEAN, forced : 0..MaxTime]
Step == {"idle", "checked", "issue", "register", "update", "cutoff", "erase", "cut",
         "store", "enable", "purge", "insert", "consume", "unfactor", "unrecover"}
Request == [op : Ops \cup {"none"}, at : Step, n : Number,
            tok : Token \cup {NoToken}, stamp : 0..MaxTime, mine : SUBSET Token,
            straddled : BOOLEAN,       \* history: revoked during the handshake
            sec : Nat, step : Int, ticket : Number]

Idle == [op |-> "none", at |-> "idle", n |-> 0, tok |-> NoToken, stamp |-> 0, mine |-> {},
         straddled |-> FALSE, sec |-> 0, step |-> 0, ticket |-> 0]
NoFactor == [secret |-> 0, on |-> FALSE, last |-> 0]
NoRow == [there |-> FALSE, pw |-> 0, must |-> FALSE, blocked |-> FALSE, forced |-> 0]

\* The account exists, one device is signed in since the first second.
SessionsInit ==
    /\ clock = 1
    /\ row = [NoRow EXCEPT !.there = TRUE, !.pw = 1] /\ pws = 1
    /\ cutoff = 0
    /\ tokens = {[iat |-> 1, n |-> 0]} /\ socks = {} /\ tickets = {}
    /\ req = [p \in Procs |-> Idle] /\ count = 0
    /\ restarts = 0 /\ faults = 0 /\ load \in Loads
    /\ out = {} /\ kept = {} /\ revived = {}
    /\ cutBy = [mem |-> {}, row |-> {}]

----------------------------------------------------------------------------
(* What the handlers have in common *)

\* Mutant: a token of the very second of the revocation passes.
validateTokenStrict(t) == t.iat >= cutoff

\* validateToken: refused if issued no later than the revocation.
Accepted(t) == t.iat > cutoff

\* A request arrives and is worked on up to the step at.
Begin(p, op, at) ==
    /\ req[p].at = "idle" /\ op \in load /\ count < MaxRequests
    /\ count' = count + 1
    /\ req' = [req EXCEPT ![p] = [Idle EXCEPT !.op = op, !.at = at, !.n = count + 1]]

\* One that is served in a single statement.
Serve(p, op) ==
    /\ req[p].at = "idle" /\ op \in load /\ count < MaxRequests
    /\ count' = count + 1
    /\ UNCHANGED req

\* One that shows a token.
BeginWith(p, op, at, t) ==
    /\ t \in tokens /\ Accepted(t)
    /\ req[p].at = "idle" /\ op \in load /\ count < MaxRequests
    /\ count' = count + 1
    /\ req' = [req EXCEPT ![p] = [Idle EXCEPT !.op = op, !.at = at, !.n = count + 1,
                                              !.tok = t]]

\* One that is to put out every token there is.  The only ones left alone are
\* those that change-password dated a second ahead.
BeginRevocation(p, op, at, t) ==
    /\ req[p].at = "idle" /\ op \in load /\ count < MaxRequests
    /\ count' = count + 1
    /\ req' = [req EXCEPT ![p] =
                  [Idle EXCEPT !.op = op, !.at = at, !.n = count + 1, !.tok = t,
                               !.stamp = clock, !.mine = {o \in tokens : o.iat <= clock}]]

Goto(p, at) == req' = [req EXCEPT ![p].at = at]
Done(p) == req' = [req EXCEPT ![p] = Idle]
Fault == faults < MaxFaults /\ faults' = faults + 1 /\ UNCHANGED <<restarts, load>>
NoFault == UNCHANGED bounds

\* A handshake that has passed the checks a revocation is to make it fail.
Overtake(r, steps) ==
    IF r.op = "ws" /\ r.at \in steps THEN [r EXCEPT !.straddled = TRUE] ELSE r

Between(low, high) == {t \in tokens : low < t.iat /\ t.iat <= high}

----------------------------------------------------------------------------
(* Signing in *)

\* loginHandler: the password that was typed is the stored one.
Login(p) ==
    /\ row.there /\ row.pw # 0
    /\ Begin(p, "login", "checked")
    /\ UNCHANGED <<clock, row, totp, cutoff, tokens, socks, tickets, pws, bounds, history>>

\* loginHandler: the stored one does not fit, the directory accepts;
\* ensureLDAPUser makes the row if there is none.
LoginDirectory(p) ==
    /\ Begin(p, "ldap", "checked")
    /\ row' = IF row.there THEN row ELSE [NoRow EXCEPT !.there = TRUE]
    /\ UNCHANGED <<clock, totp, cutoff, tokens, socks, tickets, pws, bounds, history>>

\* googleAuthHandler, for a Google account that is bound to this name.
ExternalSignIn(p) ==
    /\ row.there
    /\ Begin(p, "external", "checked")
    /\ UNCHANGED <<clock, row, totp, cutoff, tokens, socks, tickets, pws, bounds, history>>

\* userBlocked, which lets everybody in when the database does not answer.
CheckBlocked(p) ==
    LET next == IF req[p].op = "ws" THEN "register" ELSE "issue" IN
    /\ req[p].at = "checked"
    /\ \/ /\ NoFault
          /\ IF row.there /\ ~row.blocked THEN Goto(p, next) ELSE Done(p)
       \/ /\ Fault
          /\ req' = [req EXCEPT ![p].at = next, ![p].straddled = (req[p].op = "ws")]
    /\ UNCHANGED <<clock, row, totp, cutoff, tokens, socks, tickets, count, pws, history>>

\* A password sign-in of an account with a second factor gets a ticket, every
\* other sign-in its token.
Issue(p) ==
    LET r == req[p] IN
    /\ r.at = "issue"
    /\ IF r.op \in {"login", "ldap"} /\ totp.on
       THEN /\ tickets' = tickets \cup {[n |-> r.n, tries |-> 0]}
            /\ UNCHANGED tokens
       ELSE /\ tokens' = tokens \cup {[iat |-> clock, n |-> r.n]}
            /\ UNCHANGED tickets
    /\ Done(p)
    /\ UNCHANGED <<clock, row, totp, cutoff, socks, count, pws, bounds, history>>

\* registerHandler up to the INSERT; a name that is taken is refused.
Register(p) ==
    /\ ~row.there
    /\ Begin(p, "register", "issue")
    /\ pws' = pws + 1
    /\ row' = [NoRow EXCEPT !.there = TRUE, !.pw = pws + 1]
    /\ UNCHANGED <<clock, totp, cutoff, tokens, socks, tickets, bounds, history>>

----------------------------------------------------------------------------
(* Putting sessions out *)

\* changePasswordHandler up to the stamp: the current password was typed.
ChangeBegin(p) ==
    /\ \E t \in tokens : Accepted(t) /\ BeginRevocation(p, "change", "update", t)
    /\ row.there /\ row.pw # 0
    /\ UNCHANGED <<clock, row, totp, cutoff, tokens, socks, tickets, pws, bounds, history>>

\* adminUserActionHandler: the name exists.  delete revokes before it deletes.
AdminBegin(p) ==
    /\ row.there
    /\ \E op \in Revocations \ {"change"} :
          BeginRevocation(p, op, CASE op = "delete" -> "cutoff"
                                   [] op = "reset_2fa" -> "unfactor"
                                   [] OTHER -> "update", NoToken)
    /\ UNCHANGED <<clock, row, totp, cutoff, tokens, socks, tickets, pws, bounds, history>>

AdminCreate(p) ==
    /\ ~row.there
    /\ Serve(p, "create")
    /\ pws' = pws + 1
    /\ row' = [NoRow EXCEPT !.there = TRUE, !.pw = pws + 1, !.must = TRUE]
    /\ UNCHANGED <<clock, totp, cutoff, tokens, socks, tickets, bounds, history>>

AdminUnblock(p) ==
    /\ row.there
    /\ Serve(p, "unblock")
    /\ row' = [row EXCEPT !.blocked = FALSE]
    /\ UNCHANGED <<clock, totp, cutoff, tokens, socks, tickets, pws, bounds, history>>

\* What the UPDATE of a revocation makes of the row.
Revoked(op, at) ==
    [row EXCEPT !.forced = at,
                !.blocked = @ \/ op = "block",
                !.pw = IF op \in {"change", "reset"} THEN pws + 1 ELSE @,
                !.must = IF op = "reset" THEN TRUE ELSE IF op = "change" THEN FALSE ELSE @]

\* Mutant: the action is done, the moment of it not written down.
RevokedUnstamped(op, at) == [Revoked(op, at) EXCEPT !.forced = row.forced]

\* The UPDATE, stamped when the statement was called.
RevokeUpdate(p) ==
    LET r == req[p] IN
    /\ r.at = "update" /\ row.there /\ NoFault
    /\ row' = Revoked(r.op, r.stamp)
    /\ pws' = IF r.op \in {"change", "reset"} THEN pws + 1 ELSE pws
    /\ kept' = kept \cup r.mine
    /\ revived' = revived \cup Between(r.stamp, row.forced)
    /\ cutBy' = [cutBy EXCEPT !.row = {r.n}]
    /\ req' = [q \in Procs |-> IF q = p THEN [r EXCEPT !.at = "cutoff"]
                               ELSE IF r.op = "block" THEN Overtake(req[q], {"register"})
                               ELSE req[q]]
    /\ UNCHANGED <<clock, totp, cutoff, tokens, socks, tickets, count, out>>

\* It finds no row any more, or fails.  The administrator's actions go on;
\* a change of the password is given up if it failed.
RevokeUpdateLost(p) ==
    /\ req[p].at = "update"
    /\ \/ ~row.there /\ NoFault /\ Goto(p, "cutoff")
       \/ Fault /\ IF req[p].op = "change" THEN Done(p) ELSE Goto(p, "cutoff")
    /\ UNCHANGED <<clock, row, totp, cutoff, tokens, socks, tickets, count, pws, history>>

\* setLogoutCutoff.  The administrator's actions read the clock again.
StoreCutoff(p) ==
    LET r == req[p]
        at == IF r.op = "change" THEN r.stamp ELSE clock IN
    /\ r.at = "cutoff"
    /\ cutoff' = at
    /\ revived' = revived \cup Between(at, cutoff)
    /\ cutBy' = [cutBy EXCEPT !.mem = {r.n}]
    /\ req' = [q \in Procs |->
                  IF q = p THEN [r EXCEPT !.at = IF r.op = "delete" THEN "erase" ELSE "cut"]
                  ELSE IF req[q].tok.iat <= at
                       THEN Overtake(req[q], {"checked", "register"})
                  ELSE req[q]]
    /\ UNCHANGED <<clock, row, totp, tokens, socks, tickets, count, pws, bounds, out, kept>>

\* The deletions of "delete", whose last one takes the row, and its stamp.
Erase(p) ==
    /\ req[p].at = "erase"
    /\ \/ /\ NoFault
          /\ row' = NoRow /\ totp' = NoFactor
          /\ kept' = {} /\ cutBy' = [cutBy EXCEPT !.row = {}]
          /\ req' = [q \in Procs |-> IF q = p THEN [req[p] EXCEPT !.at = "cut"]
                                     ELSE Overtake(req[q], {"register"})]
       \/ Fault /\ Goto(p, "cut") /\ UNCHANGED <<row, totp, kept, cutBy>>
    /\ UNCHANGED <<clock, cutoff, tokens, socks, tickets, count, pws, out, revived>>

\* Mutant: the new token is dated now.
RenewedNow(r) == IF r.op = "change" THEN {[iat |-> r.stamp, n |-> r.n]} ELSE {}

\* generateTokenAt: a second ahead, or the new token falls with the others.
Renewed(r) == IF r.op = "change" THEN {[iat |-> r.stamp + 1, n |-> r.n]} ELSE {}

\* Mutant: the sockets stay open.
disconnectNobody == socks

\* disconnectUser: the sockets that are left open.
disconnectUser == {}

\* The sockets are closed and the answer goes out.
RevokeFinish(p) ==
    LET r == req[p] IN
    /\ r.at = "cut"
    /\ socks' = disconnectUser
    /\ tokens' = tokens \cup Renewed(r)
    /\ out' = out \cup r.mine
    /\ Done(p)
    /\ UNCHANGED <<clock, row, totp, cutoff, tickets, count, pws, bounds, kept, revived, cutBy>>

----------------------------------------------------------------------------
(* WebSockets, time, restarts *)

WsBegin(p) ==
    /\ \E t \in tokens : BeginWith(p, "ws", "checked", t)
    /\ UNCHANGED <<clock, row, totp, cutoff, tokens, socks, tickets, pws, bounds, history>>

WsRegister(p) ==
    LET r == req[p] IN
    /\ r.at = "register"
    /\ socks' = socks \cup {[tok |-> r.tok, straddled |-> r.straddled]}
    /\ Done(p)
    /\ UNCHANGED <<clock, row, totp, cutoff, tokens, tickets, count, pws, bounds, history>>

Tick ==
    /\ clock < MaxTime
    /\ clock' = clock + 1
    /\ UNCHANGED <<row, totp, cutoff, tokens, socks, tickets, req, count, pws, bounds, history>>

\* Mutant: the map starts empty.
loadNothing == 0

\* loadLogoutCutoffs
loadLogoutCutoffs == row.forced

\* Handlers, sockets and tickets go; the map of stamps is read from the table,
\* unless that fails, which is only logged.
Restart ==
    /\ restarts < MaxRestarts /\ restarts' = restarts + 1
    /\ req' = [p \in Procs |-> Idle] /\ socks' = {} /\ tickets' = {}
    /\ \/ /\ UNCHANGED faults
          /\ cutoff' = loadLogoutCutoffs
          /\ out' = kept
          /\ cutBy' = [cutBy EXCEPT !.mem = cutBy.row]
       \/ /\ faults < MaxFaults /\ faults' = faults + 1
          /\ cutoff' = 0
          /\ out' = {}
          /\ cutBy' = [cutBy EXCEPT !.mem = {}]
    /\ UNCHANGED <<clock, row, totp, tokens, count, pws, load, kept, revived>>

SessionsNext ==
    \/ \E p \in Procs :
          \/ Login(p) \/ LoginDirectory(p) \/ ExternalSignIn(p) \/ Register(p)
          \/ CheckBlocked(p) \/ Issue(p)
          \/ ChangeBegin(p) \/ AdminBegin(p) \/ AdminCreate(p) \/ AdminUnblock(p)
          \/ RevokeUpdate(p) \/ RevokeUpdateLost(p) \/ StoreCutoff(p) \/ Erase(p)
          \/ RevokeFinish(p)
          \/ WsBegin(p) \/ WsRegister(p)
    \/ Tick

----------------------------------------------------------------------------
(* Properties *)

SessionsTypeOK ==
    /\ clock \in 1..MaxTime
    /\ row \in Row /\ totp \in [secret : Nat, on : BOOLEAN, last : Int]
    /\ cutoff \in 0..MaxTime
    /\ tokens \subseteq Token /\ socks \subseteq [tok : Token, straddled : BOOLEAN]
    /\ tickets \subseteq [n : Number, tries : Nat]
    /\ req \in [Procs -> Request]
    /\ count \in Number /\ pws \in Nat /\ restarts \in 0..MaxRestarts /\ faults \in 0..MaxFaults
    /\ load \in Loads
    /\ out \subseteq Token /\ kept \subseteq Token /\ revived \subseteq Token
    /\ cutBy \in [mem : SUBSET Number, row : SUBSET Number]

\* Once a sign-out, a block, a change or reset of the password or a deletion has
\* been answered, every token that was out when it was asked for stays refused,
\* across restarts too (validateToken, setLogoutCutoff, loadLogoutCutoffs). Left
\* out, because the code does not keep them out: tokens between two stamps that
\* were written in the wrong order; after a restart, those of a deleted account,
\* those of a revocation whose UPDATE failed, and all if the map cannot be read.
SignedOutStaysOut == \A t \in out \ revived : ~Accepted(t)

\* With no revocation under way, an open socket belongs to an account that is
\* there and not blocked, and to a token that is accepted, unless the revocation
\* fell between the checks of its handshake and its registration (wsHandler).
NoSocketOfRevoked ==
    (\A p \in Procs : req[p].op \notin Revocations) =>
        \A s \in socks : s.straddled \/ (Accepted(s.tok) /\ row.there /\ ~row.blocked)

\* Nobody is signed out by the request that signed them in: the token that
\* change-password returns is not under the stamp of that same change
\* (generateTokenAt), before a restart or after it.
OwnTokenWorks == \A t \in tokens : t.n \in cutBy.mem => Accepted(t)
=============================================================================
