------------------------------ MODULE ChatPrefs ------------------------------
(***************************************************************************)
(* The reader's settings of the conversation of Amendments: muted,         *)
(* archived, and the boundary up to which it was cleared (chatprefs.go),   *)
(* with the server's cache of muted chats and the copy each of the         *)
(* reader's devices keeps (web/js/chatmenu.js).                            *)
(***************************************************************************)
EXTENDS Amendments

CONSTANT MaxLoads   \* bound: how often devices read the settings anew

ASSUME ChatPrefsAssumption == MaxLoads \in Nat

VARIABLES
    pref,      \* the row of chat_prefs
    mutedSet,  \* whether the chat is in the cache
    view,      \* chatPrefs of a device
    asks,      \* its request that changes a setting or clears the chat
    gets,      \* its GET of loadChatPrefs
    reads,     \* how often that was sent
    \* History, for the properties:
    upserts,   \* how many statements have set muted or archived
    cachedBy,  \* the statement whose answer was last put into the cache
    covered,   \* the messages that were there when a clear looked
    away,      \* "away": the device has taken the message out, cleared;
               \* "back": it has since come in again by a known way
    swept      \* the devices on which a clear's answer took it, not cleared

prefVars == <<pref, mutedSet, view, asks, gets, reads, upserts, cachedBy,
              covered, away, swept>>
clears == <<covered, away, swept>>
vars == <<amendmentVars, prefVars>>

NoPref == [muted |-> FALSE, archived |-> FALSE, cleared |-> 0]
NoAsk == [at |-> "idle", field |-> "muted", to |-> FALSE, before |-> NoPref,
          answer |-> NoPref, n |-> 0, max |-> 0]
NoGet == [at |-> "idle", answer |-> NoPref]

Init ==
    /\ AmendmentsInit
    /\ pref = NoPref /\ mutedSet = FALSE
    /\ view = [d \in Peers |-> NoPref]
    /\ asks = [d \in Peers |-> NoAsk] /\ gets = [d \in Peers |-> NoGet]
    /\ reads = 0 /\ upserts = 0 /\ cachedBy = 0 /\ covered = {}
    /\ away = [d \in Peers |-> "no"] /\ swept = {}

unchangedMessage == UNCHANGED <<seqs, row, mark, req, roads, cursor, rcursor, sync, history>>
unchangedCopies == unchangedMessage /\ UNCHANGED <<copy, bounds>>

----------------------------------------------------------------------------
(* Muting and archiving *)

\* setChatPref: shown at once, sent, and taken back if it is refused.
SetChatPref(d) ==
    /\ d \in load.devs /\ asks[d].at = "idle"
    /\ Change("set")
    /\ \E field \in {"muted", "archived"} :
          /\ view' = [view EXCEPT ![d][field] = ~@]
          /\ asks' = [asks EXCEPT ![d] = [NoAsk EXCEPT !.at = "set", !.field = field,
                                              !.to = ~view[d][field], !.before = view[d]]]
    /\ unchangedMessage
    /\ UNCHANGED <<copy, pref, mutedSet, gets, reads, upserts, cachedBy, clears>>

\* A field that was not sent keeps its value.
Upserted(r) == [pref EXCEPT ![r.field] = r.to]

\* chatPrefsHandler's statement, which returns the row.
ServeSet(d) ==
    LET r == asks[d] IN
    /\ r.at = "set"
    /\ pref' = Upserted(r)
    /\ upserts' = upserts + 1
    /\ asks' = [asks EXCEPT ![d] = [r EXCEPT !.at = "cache", !.answer = Upserted(r),
                                             !.n = upserts + 1]]
    /\ unchangedCopies
    /\ UNCHANGED <<mutedSet, view, gets, reads, cachedBy, clears>>

\* Mutant: the cache is only ever added to.
setMutedCacheAdd(muted) == mutedSet \/ muted

setMutedCache(muted) == muted

ServeCache(d) ==
    LET r == asks[d] IN
    /\ r.at = "cache"
    /\ mutedSet' = setMutedCache(r.answer.muted)
    /\ cachedBy' = r.n
    /\ asks' = [asks EXCEPT ![d].at = "answered"]
    /\ unchangedCopies
    /\ UNCHANGED <<pref, view, gets, reads, upserts, clears>>

TakeAnswer(d) ==
    /\ asks[d].at = "answered"
    /\ view' = [view EXCEPT ![d] = asks[d].answer]
    /\ asks' = [asks EXCEPT ![d] = NoAsk]
    /\ unchangedCopies
    /\ UNCHANGED <<pref, mutedSet, gets, reads, upserts, cachedBy, clears>>

\* It is refused, or it or its answer is lost: the device takes it back.
RefuseSet(d) ==
    /\ asks[d].at \in {"set", "answered"} /\ Refuse
    /\ view' = [view EXCEPT ![d] = asks[d].before]
    /\ asks' = [asks EXCEPT ![d] = NoAsk]
    /\ unchangedMessage
    /\ UNCHANGED <<copy, pref, mutedSet, gets, reads, upserts, cachedBy, clears>>

----------------------------------------------------------------------------
(* Clearing the chat *)

\* Mutant: the last message of the table, not of the conversation.
TableMax == 2

ConversationMax == Highest(seqs)

\* deleteChat, and chatClearHandler's SELECT MAX(seq).
AskClear(d) ==
    /\ d \in load.devs /\ asks[d].at = "idle"
    /\ Change("clear")
    /\ asks' = [asks EXCEPT ![d] = [NoAsk EXCEPT !.at = "clear", !.max = ConversationMax]]
    /\ covered' = covered \cup seqs
    /\ unchangedMessage
    /\ UNCHANGED <<copy, pref, mutedSet, view, gets, reads, upserts, cachedBy, away, swept>>

\* Mutant: the boundary is set, not raised.
RaisedTo(n) == n

\* GREATEST
Raised(n) == Max2(pref.cleared, n)

\* Its statement, which returns the boundary.
ServeClear(d) ==
    LET r == asks[d] IN
    /\ r.at = "clear"
    /\ pref' = [pref EXCEPT !.cleared = Raised(r.max)]
    /\ asks' = [asks EXCEPT ![d] = [r EXCEPT !.at = "cleared", !.max = Raised(r.max)]]
    /\ unchangedCopies
    /\ UNCHANGED <<mutedSet, view, gets, reads, upserts, cachedBy, clears>>

\* Mutant: the conversation leaves the list, the messages stay.
ForgottenNot(d) == copy

\* _forgetChatLocally
Forgotten(d) == [copy EXCEPT ![d] = NoCopy]

\* The answer: boundary, copy and conversation go; or it was lost on the way.
TakeCleared(d) ==
    /\ asks[d].at = "cleared"
    /\ \/ /\ view' = [view EXCEPT ![d].cleared = asks[d].max]
          /\ copy' = Forgotten(d)
          /\ away' = IF asks[d].max >= 1 THEN [away EXCEPT ![d] = "away"] ELSE away
          /\ swept' = IF asks[d].max < 1 /\ copy[d].there THEN swept \cup {d} ELSE swept
          /\ UNCHANGED bounds
       \/ Refuse /\ UNCHANGED <<view, copy, away, swept>>
    /\ asks' = [asks EXCEPT ![d] = NoAsk]
    /\ unchangedMessage
    /\ UNCHANGED <<pref, mutedSet, gets, reads, upserts, cachedBy, covered>>

----------------------------------------------------------------------------
(* loadChatPrefs *)

AskPrefs(d) ==
    /\ d \in load.devs /\ gets[d].at = "idle" /\ reads < MaxLoads
    /\ "load" \in load.ops
    /\ reads' = reads + 1
    /\ gets' = [gets EXCEPT ![d].at = "asked"]
    /\ unchangedCopies
    /\ UNCHANGED <<pref, mutedSet, view, asks, upserts, cachedBy, clears>>

ServePrefs(d) ==
    /\ gets[d].at = "asked"
    /\ gets' = [gets EXCEPT ![d] = [at |-> "answered", answer |-> pref]]
    /\ unchangedCopies
    /\ UNCHANGED <<pref, mutedSet, view, asks, reads, upserts, cachedBy, clears>>

\* The answer replaces what the device knew; _applyClearedBoundary takes away
\* what another device has cleared.
TakePrefs(d) ==
    /\ gets[d].at = "answered"
    /\ view' = [view EXCEPT ![d] = gets[d].answer]
    /\ IF gets[d].answer.cleared >= 1
       THEN copy' = Forgotten(d) /\ away' = [away EXCEPT ![d] = "away"]
       ELSE UNCHANGED <<copy, away>>
    /\ gets' = [gets EXCEPT ![d] = NoGet]
    /\ unchangedMessage /\ UNCHANGED bounds
    /\ UNCHANGED <<pref, mutedSet, asks, reads, upserts, cachedBy, covered, swept>>

----------------------------------------------------------------------------
\* Mutant: the cache starts empty.
loadMutedNothing == FALSE

\* loadMutedCache
loadMutedCache == pref.muted

RestartAll ==
    /\ Restart
    /\ mutedSet' = loadMutedCache /\ cachedBy' = upserts
    /\ view' = [d \in Peers |-> IF asks[d].at \in {"set", "cache"} THEN asks[d].before
                                ELSE view[d]]
    /\ asks' = [d \in Peers |-> IF asks[d].at \in {"answered", "cleared"} THEN asks[d]
                                ELSE NoAsk]
    /\ gets' = [d \in Peers |-> IF gets[d].at = "answered" THEN gets[d] ELSE NoGet]
    /\ UNCHANGED <<pref, reads, upserts, clears>>

\* clearedSeqs, by device.
clearedSeqs == [d \in Devices |-> IF d \in Peers THEN pref.cleared ELSE 0]

\* The page about to be merged was read before the boundary was raised, or
\* the message arrives live.
OldNews(d) == (sync[d].at = "page" /\ sync[d].bound < 1) \/ Holds(d, "new")

Next ==
    \/ /\ AmendmentsNext(clearedSeqs)
       /\ away' = [d \in Peers |-> IF away[d] = "away" /\ copy'[d].there /\ OldNews(d)
                                    THEN "back" ELSE away[d]]
       /\ swept' = {d \in swept : ~copy'[d].there}
       /\ UNCHANGED <<pref, mutedSet, view, asks, gets, reads, upserts, cachedBy, covered>>
    \/ RestartAll
    \/ \E d \in Peers : \/ SetChatPref(d) \/ ServeSet(d) \/ ServeCache(d) \/ TakeAnswer(d)
                        \/ RefuseSet(d)
                        \/ AskClear(d) \/ ServeClear(d) \/ TakeCleared(d)
                        \/ AskPrefs(d) \/ ServePrefs(d) \/ TakePrefs(d)

Spec == Init /\ [][Next]_vars

----------------------------------------------------------------------------
(* Properties *)

\* Once the handler of the last statement has come to the cache, pushes are held
\* back exactly for the chats the database has as muted, until the handler of an
\* earlier statement comes to it late.
MutedAgrees == cachedBy = upserts => mutedSet = pref.muted

\* What was cleared does not come back: a clear that is answered or asked for
\* at the same time never lowers the boundary.
BoundaryNeverFalls == [][pref'.cleared >= pref.cleared]_pref

\* Clearing is not blocking: what is hidden was there when the clear looked,
\* or its seq was taken before that of a message that was.
HidesWhatWasThere ==
    \A s \in 1..pref.cleared : s \in covered \/ \E t \in covered : t > s

\* What a device has taken out because it was cleared stays out, but for a page
\* that was read before the clear and for the message itself arriving late. And
\* it only loses what was cleared, but for a message that came in while the
\* answer to a clear was on its way.
LosesWhatWasCleared ==
    \A d \in Peers :
        /\ away[d] = "away" => ~copy[d].there
        /\ cursor[d] = 1 /\ pref.cleared = 0 => copy[d].there \/ d \in swept

\* A clear takes away what was there when it looked, on every device that hears
\* of it, and nothing else.
ClearIsExact == HidesWhatWasThere /\ LosesWhatWasCleared
=============================================================================
