---------------------------- MODULE EncRotation ----------------------------
(***************************************************************************)
(* Changing the encryption key of an installation: runs of                 *)
(* "hexeris rotate-enc-key" (server/rotatekey.go), each of which may stop  *)
(* anywhere and be repeated, between spells of the running server, which   *)
(* starts only with the key whose fingerprint the database holds           *)
(* (server/enckeyguard.go).  Message bodies and second-factor secrets      *)
(* ("rows") carry an integrity tag: whether a key fits can be seen.  Files *)
(* do not: deciphering one with a wrong key yields rubbish in silence.     *)
(***************************************************************************)
EXTENDS Naturals

CONSTANTS
    Keys,       \* the keys the operator has
    Rows,       \* encrypted values in the database
    Files,      \* names in the upload directory
    MaxFaults,  \* bound: queries, statements and file operations that fail
    MaxStops    \* bound: runs that end before their time

States == {"none", "plain", "rubbish", "partial"}

ASSUME EncRotationAssumption ==
    /\ Keys \cap States = {}
    /\ Rows \cap Files = {}
    /\ MaxFaults \in Nat /\ MaxStops \in Nat

VARIABLES
    row,      \* row[r]: the key r is encrypted with, "plain", or "none"
    file,     \* file[f]: the same, or "rubbish"
    tmp,      \* tmp[f]: the same of f.rotating, which can be "partial", too
    journal,  \* enc_rotation: the pairs <<file, key>>
    fp,       \* the key whose fingerprint server_meta holds
    pc,       \* the run: "idle", "rows", "files", "copy", "journal", "rename"
    old,      \* SERVER_ENC_KEY of the run
    new,      \* SERVER_ENC_KEY_NEW
    dry,      \* --dry-run
    todo,     \* the rows, then the files, it has yet to look at
    cur,      \* the file it is at, in a set
    failed,   \* fileFailed > 0
    faults,   \* how many operations have failed
    stops,    \* how many runs have stopped
    under,    \* history: the rotation begun and not finished, at most one
    astray,   \* history: a run was started that no orderly rotation calls for
    skipped,  \* history: rows no run has looked at though it should have
    unread,   \* history: files whose journal entry could not be read
    ghost     \* history: files whose entry was written by a failed statement

data    == <<row, file, tmp, journal, fp>>
run     == <<pc, old, new, dry, todo, cur, failed>>
history == <<under, astray, skipped, unread, ghost>>
vars == <<data, run, faults, stops, history>>

Present == {f \in Files : file[f] # "none"}

\* An operation fails.
Fault == faults < MaxFaults /\ faults' = faults + 1
-----------------------------------------------------------------------------
Init ==
    /\ fp \in Keys
    /\ row \in [Rows -> {"none", "plain", fp}]
    /\ file \in [Files -> {"none", "plain", fp}]
    /\ tmp = [f \in Files |-> "none"]
    /\ journal = {}
    /\ pc = "idle" /\ old = fp /\ new = fp /\ dry = FALSE
    /\ todo = {} /\ cur = {} /\ failed = FALSE
    /\ faults = 0 /\ stops = 0
    /\ under = {} /\ astray = FALSE
    /\ skipped = {} /\ unread = {} /\ ghost = {}
-----------------------------------------------------------------------------
(* The server, between two runs *)

Store(r) ==
    /\ pc = "idle"
    /\ row[r] = "none"
    /\ row' = [row EXCEPT ![r] = fp]
    /\ UNCHANGED <<file, tmp, journal, fp, run, faults, stops, history>>

Upload(f) ==
    /\ pc = "idle"
    /\ file[f] = "none"
    /\ file' = [file EXCEPT ![f] = fp]
    /\ UNCHANGED <<row, tmp, journal, fp, run, faults, stops, history>>
-----------------------------------------------------------------------------
(* A run *)

\* What the instructions ask of the operator: an unfinished rotation is finished
\* with the same two keys; another one starts from the key in use and leads to a
\* key no file was ever rotated to; a finished one may be repeated as long as
\* nothing was uploaded since.
Orderly(o, n) ==
    \/ under = {<<o, n>>}
    \/ under = {} /\ fp = o /\ \A f \in Files : <<f, n>> \notin journal
    \/ under = {} /\ fp = n /\ \A f \in Files : file[f] = n => <<f, n>> \in journal

\* The fingerprint is to be that of one of the two keys, unless it cannot be read.
Start(o, n, d) ==
    /\ pc = "idle"
    /\ o # n
    /\ \/ fp \in {o, n} /\ faults' = faults
       \/ fp \notin {o, n} /\ Fault
    /\ pc' = "rows" /\ old' = o /\ new' = n /\ dry' = d
    /\ todo' = {r \in Rows : row[r] # "none"}
    /\ failed' = FALSE
    /\ under' = IF d \/ fp = n THEN under ELSE {<<o, n>>}
    /\ astray' = (astray \/ ~Orderly(o, n))
    /\ UNCHANGED <<data, cur, stops, skipped, unread, ghost>>

\* rotateMessages, rotateTOTPSecrets: the new key is tried first; a row neither
\* key fits is left alone.
RotateRow(r) ==
    /\ pc = "rows"
    /\ r \in todo
    /\ row' = IF ~dry /\ row[r] = old THEN [row EXCEPT ![r] = new] ELSE row
    /\ todo' = todo \ {r}
    /\ UNCHANGED <<file, tmp, journal, fp, pc, old, new, dry, cur, failed,
                   faults, stops, history>>

\* A read that breaks off ends the loop as the last row does, and a failed query
\* of the secrets skips them all.
RowsUnread ==
    /\ pc = "rows"
    /\ todo # {}
    /\ Fault
    /\ skipped' = skipped \cup todo
    /\ todo' = {}
    /\ UNCHANGED <<data, pc, old, new, dry, cur, failed, stops, under, astray,
                   unread, ghost>>

RowsDone ==
    /\ pc = "rows"
    /\ todo = {}
    /\ pc' = "files"
    /\ todo' = Present
    /\ UNCHANGED <<data, old, new, dry, cur, failed, faults, stops, history>>

\* Mutant: what f.rotating holds is taken for complete in every case.
FinishRenameUnchecked(f) ==
    \/ /\ tmp[f] = "none"
       /\ UNCHANGED <<file, tmp, failed, faults>>
    \/ /\ tmp[f] # "none"
       /\ file' = [file EXCEPT ![f] = tmp[f]]
       /\ tmp' = [tmp EXCEPT ![f] = "none"]
       /\ UNCHANGED <<failed, faults>>

\* rotateFiles reads the journal entry of a file: it is done.  What is left of it
\* is the rename, if f.rotating is there.
FinishRename(f) ==
    \/ /\ tmp[f] = "none"
       /\ UNCHANGED <<file, tmp, failed, faults>>
    \/ /\ tmp[f] # "none"
       /\ file' = [file EXCEPT ![f] = IF tmp[f] = "partial" THEN "rubbish" ELSE tmp[f]]
       /\ tmp' = [tmp EXCEPT ![f] = "none"]
       /\ UNCHANGED <<failed, faults>>
    \/ tmp[f] # "none" /\ Fault /\ failed' = TRUE /\ UNCHANGED <<file, tmp>>

FileDone(f) ==
    /\ pc = "files"
    /\ f \in todo
    /\ <<f, new>> \in journal
    /\ FinishRename(f)
    /\ todo' = todo \ {f}
    /\ UNCHANGED <<row, journal, fp, pc, old, new, dry, cur, stops, history>>

\* Mutant: f.rotating is created only where there is none.
FileNotDoneIfNew(f) ==
    /\ pc = "files"
    /\ f \in todo
    /\ <<f, new>> \notin journal
    /\ todo' = todo \ {f}
    /\ IF tmp[f] # "none" /\ ~dry
       THEN failed' = TRUE /\ UNCHANGED <<tmp, pc, cur>>
       ELSE /\ failed' = failed
            /\ IF dry \/ file[f] = "plain"
               THEN UNCHANGED <<tmp, pc, cur>>
               ELSE /\ tmp' = [tmp EXCEPT ![f] = "partial"]
                    /\ pc' = "copy" /\ cur' = {f}
    /\ UNCHANGED <<row, file, journal, fp, old, new, dry, faults, stops, history>>

\* No entry, or none that could be read: what f.rotating holds is thrown away.
FileNotDone(f) ==
    /\ pc = "files"
    /\ f \in todo
    /\ \/ <<f, new>> \notin journal /\ UNCHANGED <<faults, unread>>
       \/ <<f, new>> \in journal /\ Fault /\ unread' = unread \cup {f}
    /\ todo' = todo \ {f}
    /\ IF dry \/ file[f] = "plain"
       THEN tmp' = [tmp EXCEPT ![f] = "none"] /\ UNCHANGED <<pc, cur>>
       ELSE /\ tmp' = [tmp EXCEPT ![f] = "partial"]
            /\ pc' = "copy" /\ cur' = {f}
    /\ UNCHANGED <<row, file, journal, fp, old, new, dry, failed, stops, under,
                   astray, skipped, ghost>>

\* The file cannot be read, or not be copied.
FileFails(f) ==
    /\ \/ pc = "files" /\ f \in todo /\ <<f, new>> \notin journal
       \/ pc = "copy" /\ f \in cur
    /\ Fault
    /\ tmp' = [tmp EXCEPT ![f] = "none"]
    /\ pc' = "files" /\ todo' = todo \ {f} /\ cur' = {} /\ failed' = TRUE
    /\ UNCHANGED <<row, file, journal, fp, old, new, dry, stops, history>>

\* Mutant: the rename comes before the journal entry.
CopyAndRename(f) ==
    /\ pc = "copy"
    /\ f \in cur
    /\ file' = [file EXCEPT ![f] = IF @ = old THEN new ELSE "rubbish"]
    /\ tmp' = [tmp EXCEPT ![f] = "none"]
    /\ pc' = "journal"
    /\ UNCHANGED <<row, journal, fp, old, new, dry, todo, cur, failed, faults,
                   stops, history>>

\* rotateOneFile: deciphered with the old key, whatever key it is under.
Copy(f) ==
    /\ pc = "copy"
    /\ f \in cur
    /\ tmp' = [tmp EXCEPT ![f] = IF file[f] = old THEN new ELSE "rubbish"]
    /\ pc' = "journal"
    /\ UNCHANGED <<row, file, journal, fp, old, new, dry, todo, cur, failed,
                   faults, stops, history>>

Journal(f) ==
    /\ pc = "journal"
    /\ f \in cur
    /\ journal' = journal \cup {<<f, new>>}
    /\ pc' = "rename"
    /\ UNCHANGED <<row, file, tmp, fp, old, new, dry, todo, cur, failed, faults,
                   stops, history>>

\* The INSERT reports an error: it did not happen, or its commit was not heard of.
JournalFails(f) ==
    /\ pc = "journal"
    /\ f \in cur
    /\ Fault
    /\ \/ UNCHANGED <<journal, ghost>>
       \/ journal' = journal \cup {<<f, new>>} /\ ghost' = ghost \cup {f}
    /\ tmp' = [tmp EXCEPT ![f] = "none"]
    /\ pc' = "files" /\ cur' = {} /\ failed' = TRUE
    /\ UNCHANGED <<row, file, fp, old, new, dry, todo, stops, under, astray,
                   skipped, unread>>

Rename(f) ==
    /\ pc = "rename"
    /\ f \in cur
    /\ FinishRename(f)
    /\ pc' = "files" /\ cur' = {}
    /\ UNCHANGED <<row, journal, fp, old, new, dry, todo, stops, history>>

\* Mutant: the fingerprint is written although files have failed.
FinishAnyway ==
    /\ pc = "files"
    /\ todo = {}
    /\ pc' = "idle"
    /\ IF dry
       THEN UNCHANGED <<fp, under>>
       ELSE fp' = new /\ under' = {}
    /\ UNCHANGED <<row, file, tmp, journal, old, new, dry, todo, cur, failed,
                   faults, stops, astray, skipped, unread, ghost>>

\* The end of a run; the fingerprint is the last thing it writes.
Finish ==
    /\ pc = "files"
    /\ todo = {}
    /\ pc' = "idle"
    /\ IF dry \/ failed
       THEN UNCHANGED <<fp, under>>
       ELSE fp' = new /\ under' = {}
    /\ UNCHANGED <<row, file, tmp, journal, old, new, dry, todo, cur, failed,
                   faults, stops, astray, skipped, unread, ghost>>

\* log.Fatal, Ctrl-C, the end of the machine.
Stop ==
    /\ pc # "idle"
    /\ stops < MaxStops
    /\ stops' = stops + 1
    /\ pc' = "idle" /\ todo' = {} /\ cur' = {}
    /\ UNCHANGED <<data, old, new, dry, failed, faults, history>>
-----------------------------------------------------------------------------
File(f) ==
    \/ FileDone(f) \/ FileNotDone(f) \/ FileFails(f) \/ Copy(f)
    \/ Journal(f) \/ JournalFails(f) \/ Rename(f)

Run ==
    \/ \E r \in Rows : RotateRow(r)
    \/ RowsUnread \/ RowsDone
    \/ \E f \in Files : File(f)
    \/ Finish

Next ==
    \/ \E r \in Rows : Store(r)
    \/ \E f \in Files : Upload(f)
    \/ \E o, n \in Keys, d \in BOOLEAN : Start(o, n, d)
    \/ Run
    \/ Stop

Spec == Init /\ [][Next]_vars

\* "Run the rotation again": the operator does, with the keys he began with.
Resume == \E o, n \in Keys : under = {<<o, n>>} /\ Start(o, n, FALSE)

FairSpec == Spec /\ WF_vars(Run) /\ SF_vars(Resume)
-----------------------------------------------------------------------------
(* Properties *)

\* Every variable holds values of its type.
TypeOK ==
    /\ row \in [Rows -> Keys \cup {"none", "plain"}]
    /\ file \in [Files -> Keys \cup {"none", "plain", "rubbish"}]
    /\ tmp \in [Files -> Keys \cup {"none", "partial", "rubbish"}]
    /\ journal \subseteq Files \X Keys
    /\ fp \in Keys /\ old \in Keys /\ new \in Keys
    /\ pc \in {"idle", "rows", "files", "copy", "journal", "rename"}
    /\ dry \in BOOLEAN /\ failed \in BOOLEAN /\ astray \in BOOLEAN
    /\ todo \subseteq IF pc = "rows" THEN Rows ELSE Files
    /\ cur \subseteq Files
    /\ faults \in 0 .. MaxFaults /\ stops \in 0 .. MaxStops
    /\ under \subseteq Keys \X Keys
    /\ skipped \subseteq Rows /\ unread \subseteq Files /\ ghost \subseteq Files

\* Whatever stops and fails, and however often a run is repeated, no file becomes
\* rubbish, except one whose journal entry could not be read when it was there,
\* or was there although its INSERT had failed.
NoFileRuined ==
    ~astray => \A f \in Files : file[f] = "rubbish" => f \in unread \cup ghost

\* When no rotation is unfinished, everything is readable with the key whose
\* fingerprint lets the server start, except what a failed read skipped and those
\* files.
FinishedIsReadable ==
    ~astray /\ under = {} =>
        /\ \A r \in Rows \ skipped : row[r] \in {"none", "plain", fp}
        /\ \A f \in Files \ (unread \cup ghost) : file[f] \in {"none", "plain", fp}

\* An unfinished rotation that is repeated with its keys is finished some day: no
\* rest of an interrupted run makes every later one fail.
RotationFinishes == under # {} ~> under = {} \/ astray

\* server/rotatekey.go:160-161: a run that finds the new key's fingerprint "will
\* continue and finish whatever the interruption left -- that is safe".
RepeatIsSafe ==
    [][pc # "idle" /\ fp = new =>
          \A f \in Files : file'[f] = "rubbish" => file[f] = "rubbish"]_vars
=============================================================================
