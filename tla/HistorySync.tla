---------------------------- MODULE HistorySync ----------------------------
(***************************************************************************)
(* How one device keeps its copy of the account's messages: loadHistory of *)
(* web/js/history.js pulls pages of /history above a cursor of its own,    *)
(* while frames arrive live.  The device has memory, lost with its tab,    *)
(* and localStorage, which survives it.  A message is its seq here: the    *)
(* value is allotted when the INSERT runs, the row appears when it commits.*)
(***************************************************************************)
EXTENDS Integers, FiniteSets

CONSTANTS
    MaxSeq,    \* bound: INSERTs of messages of the account
    Chat,      \* Chat[m]: the conversation message m belongs to
    Inserts,   \* INSERTs open at once (msgWriters)
    PageSize,  \* PAGE, the rows of a page of /history
    MaxTries,  \* SYNC_RETRY_DELAYS_MS.length
    MaxConns,  \* bound: connections the device makes
    MaxTabs    \* bound: how often its tab is opened

ASSUME HistorySyncAssumption ==
    /\ MaxSeq \in Nat /\ Inserts \in Nat \ {0} /\ PageSize \in Nat \ {0}
    /\ MaxTries \in Nat /\ MaxConns \in Nat /\ MaxTabs \in Nat

VARIABLES
    lastSeq,  \* the last value messages.seq has handed out
    rows,     \* the committed rows
    lost,     \* the values taken by INSERTs that were rolled back
    tab,      \* the tab is open
    conn,     \* it has a WebSocket connection
    conns,    \* how many it has made
    tabs,     \* how often it was opened
    mem,      \* the messages in the tab's memory (chats)
    disk,     \* the messages in localStorage (hc_msgs_*)
    cursor,   \* hc_globalsince_*
    phase,    \* loadHistory: "idle", "pull", "save" or "saveShort"
    touched,  \* the messages the present loadHistory has pulled
    armed,    \* scheduleSyncRetry's timer is set
    tries,    \* _syncRetry
    late,     \* history: the rows that appeared below the cursor
    torn      \* history: what a closing tab took with it, below the cursor

tableVars == <<lastSeq, rows, lost, late>>
tabVars   == <<tab, tabs, torn>>
connVars  == <<conn, conns>>
retryVars == <<armed, tries>>
vars == <<tableVars, tabVars, connVars, mem, disk, cursor, phase, touched,
          retryVars>>

Msgs == 1 .. MaxSeq
Open == (1 .. lastSeq) \ (rows \cup lost)

\* The first n rows of S in the order of their seq.
First(S, n) == {m \in S : Cardinality({k \in S : k <= m}) <= n}
-----------------------------------------------------------------------------
Init ==
    /\ lastSeq = 0 /\ rows = {} /\ lost = {} /\ late = {}
    /\ tab = FALSE /\ tabs = 0 /\ torn = {}
    /\ conn = FALSE /\ conns = 0
    /\ mem = {} /\ disk = {} /\ cursor = 0
    /\ phase = "idle" /\ touched = {} /\ armed = FALSE /\ tries = 0
-----------------------------------------------------------------------------
(* The message table *)

BeginInsert ==
    /\ lastSeq < MaxSeq
    /\ Cardinality(Open) < Inserts
    /\ lastSeq' = lastSeq + 1
    /\ UNCHANGED <<rows, lost, late, tabVars, connVars, mem, disk, cursor,
                   phase, touched, retryVars>>

Commit(m) ==
    /\ m \in Open
    /\ rows' = rows \cup {m}
    /\ late' = IF m <= cursor THEN late \cup {m} ELSE late
    /\ UNCHANGED <<lastSeq, lost, tabVars, connVars, mem, disk, cursor, phase,
                   touched, retryVars>>

Rollback(m) ==
    /\ m \in Open
    /\ lost' = lost \cup {m}
    /\ UNCHANGED <<lastSeq, rows, late, tabVars, connVars, mem, disk, cursor,
                   phase, touched, retryVars>>
-----------------------------------------------------------------------------
(* The tab and its connection *)

OpenTab ==
    /\ ~tab
    /\ tabs < MaxTabs
    /\ tab' = TRUE
    /\ tabs' = tabs + 1
    /\ UNCHANGED <<tableVars, torn, connVars, mem, disk, cursor, phase, touched,
                   retryVars>>

\* Closing or reloading the tab: everything but localStorage is gone.
CloseTab ==
    /\ tab
    /\ tab' = FALSE
    /\ torn' = torn \cup {m \in mem \ disk : m <= cursor}
    /\ conn' = FALSE
    /\ mem' = {}
    /\ phase' = "idle" /\ touched' = {} /\ armed' = FALSE /\ tries' = 0
    /\ UNCHANGED <<tableVars, tabs, conns, disk, cursor>>

\* Mutant: a sync does not start from what localStorage holds.
StartSyncEmpty ==
    /\ mem' = mem
    /\ phase' = "pull"
    /\ touched' = {}

\* loadHistory's first step: what localStorage holds is shown at once.
StartSync ==
    /\ mem' = mem \cup disk
    /\ phase' = "pull"
    /\ touched' = {}

\* ws.onopen: it pulls, unless a loadHistory is under way.
Connect ==
    /\ tab /\ ~conn
    /\ conns < MaxConns
    /\ conn' = TRUE
    /\ conns' = conns + 1
    /\ IF phase = "idle" THEN StartSync ELSE UNCHANGED <<mem, phase, touched>>
    /\ UNCHANGED <<tableVars, tabVars, disk, cursor, retryVars>>

Disconnect ==
    /\ conn
    /\ conn' = FALSE
    /\ UNCHANGED <<tableVars, tabVars, conns, mem, disk, cursor, phase,
                   touched, retryVars>>

\* Mutant: a live message moves the cursor.
ReceiveMovesCursor(m) ==
    /\ conn
    /\ m \in rows
    /\ mem' = mem \cup {m}
    /\ disk' = disk \cup {m}
    /\ cursor' = IF m > cursor THEN m ELSE cursor
    /\ UNCHANGED <<tableVars, tabVars, connVars, phase, touched, retryVars>>

\* A frame of a message, live or from the offline queue: addToChat puts it into
\* memory and localStorage at once and leaves the cursor alone.
Receive(m) ==
    /\ conn
    /\ m \in rows
    /\ mem' = mem \cup {m}
    /\ disk' = disk \cup {m}
    /\ UNCHANGED <<tableVars, tabVars, connVars, cursor, phase, touched, retryVars>>
-----------------------------------------------------------------------------
(* loadHistory *)

\* Mutant: the first page is taken for the last.
PullOnce ==
    LET page == First({m \in rows : m > cursor}, PageSize)
    IN  /\ phase = "pull"
        /\ mem' = mem \cup page
        /\ touched' = touched \cup page
        /\ \/ page = {} /\ cursor' = cursor
           \/ cursor' \in page /\ \A k \in page : k <= cursor'
        /\ phase' = "save"
        /\ UNCHANGED <<tableVars, tabVars, connVars, disk, retryVars>>

\* Mutant: a full page does not move the cursor the next one is asked above.
PullKeepsCursor ==
    LET page == First({m \in rows : m > cursor}, PageSize)
    IN  /\ phase = "pull"
        /\ mem' = mem \cup page
        /\ touched' = touched \cup page
        /\ phase' = IF Cardinality(page) < PageSize THEN "save" ELSE "pull"
        /\ UNCHANGED <<tableVars, tabVars, connVars, disk, cursor, retryVars>>

\* A page and its merge into memory.  The cursor is saved with every page; a
\* page that is not full is the last.
Pull ==
    LET page == First({m \in rows : m > cursor}, PageSize)
    IN  /\ phase = "pull"
        /\ mem' = mem \cup page
        /\ touched' = touched \cup page
        /\ \/ page = {} /\ cursor' = cursor
           \/ cursor' \in page /\ \A k \in page : k <= cursor'
        /\ phase' = IF Cardinality(page) < PageSize THEN "save" ELSE "pull"
        /\ UNCHANGED <<tableVars, tabVars, connVars, disk, retryVars>>

\* An error status (or a 429 too many) leaves the loop.
PullFails ==
    /\ phase = "pull"
    /\ phase' = "saveShort"
    /\ UNCHANGED <<tableVars, tabVars, connVars, mem, disk, cursor, touched,
                   retryVars>>

\* Mutant: the retries are not bounded.
EndSyncUnbounded(incomplete) ==
    /\ phase' = "idle"
    /\ touched' = {}
    /\ \/ ~incomplete /\ tries' = 0 /\ armed' = armed
       \/ incomplete /\ tries' = tries + 1 /\ armed' = TRUE
    /\ UNCHANGED <<tableVars, tabVars, connVars, mem, cursor>>

\* The end of loadHistory: the flag is cleared, and scheduleSyncRetry.
EndSync(incomplete) ==
    /\ phase' = "idle"
    /\ touched' = {}
    /\ \/ ~incomplete /\ tries' = 0 /\ armed' = armed
       \/ incomplete /\ tries < MaxTries /\ tries' = tries + 1 /\ armed' = TRUE
       \/ incomplete /\ tries >= MaxTries /\ UNCHANGED retryVars
    /\ UNCHANGED <<tableVars, tabVars, connVars, mem, cursor>>

\* fetch throws: the catch skips what is left, the saving included.
PullThrows ==
    /\ phase = "pull"
    /\ EndSync(TRUE)
    /\ UNCHANGED disk

\* After the pages and the reactions the touched conversations are written to
\* localStorage, each as a whole, in place of what was there.
SaveSync ==
    LET Rewritten(m) == \E t \in touched : Chat[t] = Chat[m]
    IN  /\ phase \in {"save", "saveShort"}
        /\ disk' = {m \in disk : ~Rewritten(m)} \cup {m \in mem : Rewritten(m)}
        /\ EndSync(phase = "saveShort")

RetrySync ==
    /\ armed
    /\ armed' = FALSE
    /\ IF phase = "idle" THEN StartSync ELSE UNCHANGED <<mem, phase, touched>>
    /\ UNCHANGED <<tableVars, tabVars, connVars, disk, cursor, tries>>
-----------------------------------------------------------------------------
Next ==
    \/ BeginInsert
    \/ \E m \in Msgs : Commit(m) \/ Rollback(m) \/ Receive(m)
    \/ OpenTab \/ CloseTab \/ Connect \/ Disconnect
    \/ Pull \/ PullFails \/ PullThrows \/ SaveSync \/ RetrySync

Spec == Init /\ [][Next]_vars

\* A tab that stays open gets its answers, goes on, and fires its timers.
FairSpec == Spec /\ WF_vars(Pull) /\ WF_vars(SaveSync) /\ WF_vars(RetrySync)
-----------------------------------------------------------------------------
(* Properties *)

\* Every variable holds values of its type.
TypeOK ==
    /\ lastSeq \in 0 .. MaxSeq
    /\ rows \subseteq 1 .. lastSeq /\ lost \subseteq 1 .. lastSeq
    /\ tab \in BOOLEAN /\ tabs \in 0 .. MaxTabs
    /\ conn \in BOOLEAN /\ conns \in 0 .. MaxConns
    /\ mem \subseteq rows /\ disk \subseteq rows /\ touched \subseteq rows
    /\ late \subseteq rows /\ torn \subseteq rows
    /\ cursor \in 0 .. lastSeq
    /\ phase \in {"idle", "pull", "save", "saveShort"}
    /\ armed \in BOOLEAN /\ tries \in 0 .. MaxTries

\* The device has m, or its next sync will ask for it.
Recoverable(m) == m \in mem \cup disk \/ m > cursor

\* No row gets out of the device's reach: the cursor passes a message only when
\* its page brought it, whatever arrives live, fails or is retried.  Two things
\* break this, and only they: a row that appears below the cursor, and a tab
\* closed after the cursor was saved and before the pages were.
RecoverableUnlessLateOrTorn ==
    \A m \in rows : Recoverable(m) \/ m \in late \cup torn

\* A sync that ran to its last page has brought every row there was.
CompleteSyncIsComplete ==
    [][phase = "pull" /\ phase' = "save" =>
          \A m \in rows : m \in mem' \/ m \in late \cup torn]_vars

\* Nothing drops a message the device keeps in localStorage, least of all a sync
\* that writes a conversation back as a whole while frames arrive.
DiskKeepsMessages == [][disk \subseteq disk']_vars

\* loadHistory ends: the cursor moves with every full page, so the flag that
\* keeps a reconnect from pulling is not left behind.
SyncEnds == phase # "idle" ~> phase = "idle"
=============================================================================
