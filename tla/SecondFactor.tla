---------------------------- MODULE SecondFactor ----------------------------
(***************************************************************************)
(* The second factor of the account of Sessions (twofa.go, totp.go): its   *)
(* set-up, switching it on and off, the check of a code at sign-in, the    *)
(* recovery codes.  A code is its secret and the time step it belongs to;  *)
(* the account's owner may type a code of any secret that was handed out.  *)
(***************************************************************************)
EXTENDS Sessions

CONSTANTS
    Attempts,       \* twoFATicketAttempts
    StepSeconds     \* totpStepSeconds

ASSUME SecondFactorAssumption == Attempts \in Nat /\ StepSeconds \in Nat \ {0}

VARIABLES
    secrets,        \* secrets handed out so far
    recovery,       \* the unused rows of twofa_recovery, by the request that made them
    \* History, for the properties:
    accepted,       \* codes that have been accepted
    reused,         \* codes that opened something and had been accepted before
    reopened,       \* codes an UPDATE made good again that set totp_last_step back
    confirmed,      \* secrets a code was accepted of before the factor went on
    swapped         \* an enable switched another secret on than the one it checked

factorVars == <<secrets, recovery, accepted, reused, reopened, confirmed, swapped>>
vars == <<sessionVars, factorVars>>

\* No factor, a set-up that was begun, or the factor on with a recovery code
\* left and a sign-in that waits for its code.
Init ==
    /\ SessionsInit
    /\ \/ totp = NoFactor /\ secrets = 0 /\ recovery = {} /\ confirmed = {}
       \/ totp = [NoFactor EXCEPT !.secret = 1] /\ secrets = 1
          /\ recovery = {} /\ confirmed = {}
       \/ totp = [secret |-> 1, on |-> TRUE, last |-> 0] /\ secrets = 1
          /\ recovery = {0} /\ confirmed = {1}
    /\ accepted = {} /\ reused = {} /\ reopened = {} /\ swapped = FALSE

----------------------------------------------------------------------------
(* Codes *)

\* totpStep
totpStep(t) == t \div StepSeconds

\* totpVerify: the steps whose codes are good now, one to each side.
GoodSteps == totpStep(clock) - 1 .. totpStep(clock) + 1

Code(secret, step) == [secret |-> secret, step |-> step]

Accept(c) ==
    /\ accepted' = accepted \cup {c}
    /\ reused' = IF c \in accepted THEN reused \cup {c} ELSE reused

\* What setting totp_last_step back makes good again of the codes accepted: for
\* the secret that is stored, or for a handler that compared them before.
Reopen(last) == reopened' = reopened \cup {c \in accepted : last < c.step}

\* Mutant: the window that was used before is not looked at.
FreshAny(step) == TRUE

\* The condition of the UPDATE of twoFAConsume.
Fresh(step) == totp.last < step

----------------------------------------------------------------------------
(* Set-up and switching on *)

\* twoFASetupHandler: the factor is off.
SetupBegin(p) ==
    /\ ~totp.on
    /\ \E t \in tokens : BeginWith(p, "setup", "store", t)
    /\ UNCHANGED <<clock, row, totp, cutoff, tokens, socks, tickets, pws, bounds, history,
                   factorVars>>

\* Mutant: a factor that was switched on since stays on.
WithSecretKept(s) == [totp EXCEPT !.secret = s]

\* The secret of the set-up; the factor is off whatever it was meanwhile.
WithSecret(s) == [totp EXCEPT !.secret = s, !.on = FALSE]

SetupStore(p) ==
    /\ req[p].at = "store"
    /\ secrets' = secrets + 1
    /\ totp' = IF row.there THEN WithSecret(secrets + 1) ELSE totp
    /\ Done(p)
    /\ UNCHANGED <<clock, row, cutoff, tokens, socks, tickets, count, pws, bounds, history,
                   recovery, accepted, reused, reopened, confirmed, swapped>>

\* twoFAEnableHandler: the code is good for the secret stored now.
EnableBegin(p) ==
    /\ row.there /\ totp.secret # 0 /\ ~totp.on
    /\ req[p].at = "idle" /\ "enable" \in load /\ count < MaxRequests
    /\ \E t \in tokens, step \in GoodSteps :
          /\ Accepted(t)
          /\ req' = [req EXCEPT ![p] = [Idle EXCEPT !.op = "enable", !.at = "enable",
                        !.n = count + 1, !.tok = t, !.sec = totp.secret, !.step = step]]
    /\ count' = count + 1
    /\ confirmed' = confirmed \cup {totp.secret}
    /\ UNCHANGED <<clock, row, totp, cutoff, tokens, socks, tickets, pws, bounds, history,
                   secrets, recovery, accepted, reused, reopened, swapped>>

\* Its UPDATE, which does not look whether the secret is still that one.
EnableUpdate(p) ==
    LET r == req[p] IN
    /\ r.at = "enable"
    /\ IF row.there
       THEN /\ totp' = [totp EXCEPT !.on = TRUE, !.last = r.step]
            /\ Reopen(r.step)
            /\ accepted' = accepted \cup {Code(r.sec, r.step)}
            /\ swapped' = (swapped \/ totp.secret # r.sec)
       ELSE UNCHANGED <<totp, accepted, reopened, swapped>>
    /\ Goto(p, "purge")
    /\ UNCHANGED <<clock, row, cutoff, tokens, socks, tickets, count, pws, bounds, history,
                   secrets, recovery, reused, confirmed>>

\* twoFANewRecoveryCodes: the old codes go, then the new ones are inserted.  A
\* failure in between is only logged.
PurgeRecovery(p) ==
    /\ req[p].at = "purge"
    /\ \/ NoFault /\ recovery' = {} /\ Goto(p, "insert")
       \/ Fault /\ Done(p) /\ UNCHANGED recovery
    /\ UNCHANGED <<clock, row, totp, cutoff, tokens, socks, tickets, count, pws, history,
                   secrets, accepted, reused, reopened, confirmed, swapped>>

InsertRecovery(p) ==
    /\ req[p].at = "insert"
    /\ \/ NoFault /\ recovery' = recovery \cup {req[p].n}
       \/ Fault /\ UNCHANGED recovery
    /\ Done(p)
    /\ UNCHANGED <<clock, row, totp, cutoff, tokens, socks, tickets, count, pws, history,
                   secrets, accepted, reused, reopened, confirmed, swapped>>

----------------------------------------------------------------------------
(* Showing a code *)

\* Mutant: one attempt too many is let through.
ClaimOneMore(k) ==
    tickets' = IF k.tries <= Attempts
               THEN (tickets \ {k}) \cup {[k EXCEPT !.tries = @ + 1]}
               ELSE tickets \ {k}

\* twoFAClaimAttempt: the attempt is counted, and with one too many the
\* ticket goes.
Claim(k) ==
    tickets' = IF k.tries < Attempts
               THEN (tickets \ {k}) \cup {[k EXCEPT !.tries = @ + 1]}
               ELSE tickets \ {k}

\* The first half of twoFAConsume: there is a secret, the factor is on, the
\* code is good.
GoodCode(step) == row.there /\ totp.secret # 0 /\ totp.on /\ step \in GoodSteps

\* A code that is good goes on to the UPDATE, with the secret it was compared to.
WithCode(op, step, t, ticket) ==
    [Idle EXCEPT !.op = op, !.at = "consume", !.n = count + 1, !.tok = t,
                 !.sec = totp.secret, !.step = step, !.ticket = ticket]

\* twoFAVerifyHandler: the ticket of a password sign-in and a code.
VerifyBegin(p) ==
    /\ req[p].at = "idle" /\ "verify" \in load /\ count < MaxRequests
    /\ \E k \in tickets, step \in GoodSteps :
          /\ Claim(k)
          /\ req' = IF k.tries < Attempts /\ GoodCode(step)
                    THEN [req EXCEPT ![p] = WithCode("verify", step, NoToken, k.n)]
                    ELSE req
    /\ count' = count + 1
    /\ UNCHANGED <<clock, row, totp, cutoff, tokens, socks, pws, bounds, history, factorVars>>

\* twoFADisableHandler: the password, and a code.
DisableBegin(p) ==
    /\ req[p].at = "idle" /\ "disable" \in load /\ count < MaxRequests
    /\ row.there /\ row.pw # 0
    /\ \E t \in tokens, step \in GoodSteps :
          /\ Accepted(t) /\ GoodCode(step)
          /\ req' = [req EXCEPT ![p] = WithCode("disable", step, t, 0)]
    /\ count' = count + 1
    /\ UNCHANGED <<clock, row, totp, cutoff, tokens, socks, tickets, pws, bounds, history,
                   factorVars>>

\* Either handler once the code is accepted.  Verifying drops the ticket.
Passed(p, op, ticket) ==
    /\ req' = [req EXCEPT ![p].at = IF op = "verify" THEN "checked" ELSE "unfactor"]
    /\ tickets' = {k \in tickets : k.n # ticket}

\* The second half of twoFAConsume, one conditional UPDATE.
Consume(p) ==
    LET r == req[p] IN
    /\ r.at = "consume"
    /\ IF row.there /\ Fresh(r.step)
       THEN /\ totp' = [totp EXCEPT !.last = r.step]
            /\ Accept(Code(r.sec, r.step))
            /\ Passed(p, r.op, r.ticket)
       ELSE Done(p) /\ UNCHANGED <<totp, accepted, reused, tickets>>
    /\ UNCHANGED <<clock, row, cutoff, tokens, socks, count, pws, bounds, history,
                   secrets, recovery, reopened, confirmed, swapped>>

\* A recovery code in its place: twoFAUseRecovery, one statement.
UseRecovery(p) ==
    /\ req[p].at = "idle" /\ count < MaxRequests /\ count' = count + 1
    /\ \E code \in recovery :
          /\ recovery' = recovery \ {code}
          /\ \/ /\ "verify" \in load
                /\ \E k \in tickets :
                      /\ k.tries < Attempts
                      /\ tickets' = tickets \ {k}
                      /\ req' = [req EXCEPT ![p] = [Idle EXCEPT !.op = "verify",
                                    !.at = "checked", !.n = count + 1, !.ticket = k.n]]
             \/ /\ "disable" \in load /\ row.there /\ row.pw # 0
                /\ \E t \in tokens : Accepted(t)
                      /\ req' = [req EXCEPT ![p] = [Idle EXCEPT !.op = "disable",
                                    !.at = "unfactor", !.n = count + 1, !.tok = t]]
                /\ UNCHANGED tickets
    /\ UNCHANGED <<clock, row, totp, cutoff, tokens, socks, pws, bounds, history,
                   secrets, accepted, reused, reopened, confirmed, swapped>>

\* The five minutes of a ticket are over.
Expire ==
    /\ \E k \in tickets : tickets' = tickets \ {k}
    /\ UNCHANGED <<clock, row, totp, cutoff, tokens, socks, req, count, pws, bounds, history,
                   factorVars>>

----------------------------------------------------------------------------
(* Switching off *)

\* twoFAReset, for the owner or the administrator: the columns ...
ResetColumns(p) ==
    /\ req[p].at = "unfactor"
    /\ \/ /\ NoFault
          /\ totp' = NoFactor /\ Reopen(0)
          /\ Goto(p, "unrecover")
       \/ Fault /\ Done(p) /\ UNCHANGED <<totp, reopened>>
    /\ UNCHANGED <<clock, row, cutoff, tokens, socks, tickets, count, pws, history,
                   secrets, recovery, accepted, reused, confirmed, swapped>>

\* ... and the recovery codes.  The administrator's action goes on to revoke.
ResetRecovery(p) ==
    /\ req[p].at = "unrecover"
    /\ \/ /\ NoFault
          /\ recovery' = {}
          /\ IF req[p].op = "disable" THEN Done(p)
             ELSE req' = [req EXCEPT ![p].at = "update", ![p].stamp = clock]
       \/ Fault /\ Done(p) /\ UNCHANGED recovery
    /\ UNCHANGED <<clock, row, totp, cutoff, tokens, socks, tickets, count, pws, history,
                   secrets, accepted, reused, reopened, confirmed, swapped>>

\* The steps of Sessions.  Erase takes totp_last_step with the row.
SessionStep ==
    /\ SessionsNext
    /\ Reopen(totp'.last)
    /\ UNCHANGED <<secrets, recovery, accepted, reused, confirmed, swapped>>

Next ==
    \/ SessionStep
    \/ Restart /\ UNCHANGED factorVars
    \/ \E p \in Procs :
          \/ SetupBegin(p) \/ SetupStore(p)
          \/ EnableBegin(p) \/ EnableUpdate(p) \/ PurgeRecovery(p) \/ InsertRecovery(p)
          \/ VerifyBegin(p) \/ DisableBegin(p) \/ Consume(p) \/ UseRecovery(p)
          \/ ResetColumns(p) \/ ResetRecovery(p)
    \/ Expire

Spec == Init /\ [][Next]_vars

----------------------------------------------------------------------------
(* Properties *)

Codes == [secret : Nat, step : Int]

TypeOK ==
    /\ SessionsTypeOK
    /\ \A k \in tickets : k.tries <= Attempts
    /\ secrets \in Nat /\ recovery \subseteq Number
    /\ accepted \subseteq Codes /\ reused \subseteq Codes /\ reopened \subseteq Codes
    /\ confirmed \subseteq Nat /\ swapped \in BOOLEAN

\* A code that was accepted, by whichever handler, finishes no sign-in and
\* switches nothing off any more, however the handlers overlap (twoFAConsume):
\* except one that was made good again because an overlapping enable, a reset
\* or a deletion set totp_last_step back.
CodeOnce == reused \subseteq reopened

\* When the factor is on, its secret is one the owner has shown a code of, so
\* that the account is not locked to a secret nobody has ("Enabling requires a
\* code"): unless a set-up or a reset replaced the secret between an enable's
\* check and its UPDATE.
EnabledIsConfirmed == row.there /\ totp.on /\ ~swapped => totp.secret \in confirmed
=============================================================================
