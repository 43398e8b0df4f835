------------------------- MODULE EncRotationProofs -------------------------
(***************************************************************************)
(* Theorems about EncRotation: the types, that no orderly rotation ruins a *)
(* file, and that a finished one leaves everything readable, for any keys, *)
(* rows and files and any number of faults and stops.                      *)
(***************************************************************************)
EXTENDS EncRotation, TLAPS

\* The files that the two properties except.
Excepted == unread \cup ghost
Good == Files \ Excepted

\* No rotation is unfinished: everything is under the key in use.
Settled ==
    /\ \A r \in Rows \ skipped : row[r] \in {"none", "plain", fp}
    /\ \A f \in Good : file[f] \in {"none", "plain", fp} /\ tmp[f] = "none"

\* The rotation from o to n is unfinished: the entry of a file tells its key.
Moving(o, n) ==
    /\ o # n
    /\ fp = o
    /\ \A r \in Rows \ skipped : row[r] \in {"none", "plain", o, n}
    /\ \A f \in Good :
          /\ file[f] \in {"none", "plain", o, n}
          /\ file[f] = n => <<f, n>> \in journal
          /\ file[f] = "none" => tmp[f] = "none"
          /\ <<f, n>> \in journal => tmp[f] = n \/ (tmp[f] = "none" /\ file[f] = n)

DataInv ==
    /\ under = {} => Settled
    /\ \A o, n \in Keys : under = {<<o, n>>} => Moving(o, n)
    /\ under = {} \/ \E o, n \in Keys : under = {<<o, n>>}

\* What a run may rely on: it is of the unfinished rotation, or a dry run of one
\* not begun, or repeats a finished one.
RunInv ==
    pc # "idle" =>
        /\ old # new
        /\ \/ under = {<<old, new>>}
           \/ /\ under = {} /\ fp = old /\ dry
              /\ \A f \in Files : <<f, new>> \notin journal
           \/ /\ under = {} /\ fp = new
              /\ \A f \in Good : file[f] = new => <<f, new>> \in journal

\* The file it is at.
CurInv ==
    IF pc \in {"copy", "journal", "rename"}
    THEN /\ ~dry
         /\ \E f \in Files : cur = {f}
         /\ \A f \in cur \cap Good :
               /\ under = {<<old, new>>}
               /\ pc # "rename" => file[f] = old /\ <<f, new>> \notin journal
               /\ pc = "journal" => tmp[f] = new
               /\ pc = "rename" => <<f, new>> \in journal
    ELSE cur = {}

\* What it has yet to look at, and what it has done.
TodoInv ==
    /\ pc \notin {"rows", "idle"} => todo \subseteq Present
    /\ pc # "idle" /\ ~dry =>
          /\ \A r \in Rows \ skipped :
                row[r] \in {"none", "plain", new} \/ (pc = "rows" /\ r \in todo)
          /\ pc # "rows" /\ ~failed =>
                \A f \in Good :
                    \/ f \in todo \/ f \in cur
                    \/ file[f] \in {"none", "plain", new} /\ tmp[f] = "none"

OrderlyInv == ~astray => DataInv /\ RunInv /\ CurInv /\ TodoInv

IInv == TypeOK /\ OrderlyInv
-----------------------------------------------------------------------------
(* Type correctness *)

LEMMA FaultType ==
    ASSUME TypeOK, EncRotationAssumption, Fault \/ faults' = faults
    PROVE  faults' \in 0 .. MaxFaults
BY DEF TypeOK, Fault, EncRotationAssumption

LEMMA FinishRenameType ==
    ASSUME TypeOK, EncRotationAssumption, NEW f \in Files, FinishRename(f)
    PROVE  /\ file' \in [Files -> Keys \cup {"none", "plain", "rubbish"}]
           /\ tmp' \in [Files -> Keys \cup {"none", "partial", "rubbish"}]
           /\ faults' \in 0 .. MaxFaults
           /\ failed' \in BOOLEAN
<1>1. faults' \in 0 .. MaxFaults
  BY FaultType DEF FinishRename
<1>2. failed' \in BOOLEAN
  BY DEF TypeOK, FinishRename
<1>3. CASE UNCHANGED <<file, tmp>>
  BY <1>1, <1>2, <1>3 DEF TypeOK
<1>4. CASE /\ file' = [file EXCEPT ![f] = IF tmp[f] = "partial" THEN "rubbish" ELSE tmp[f]]
           /\ tmp' = [tmp EXCEPT ![f] = "none"]
           /\ tmp[f] # "none"
  BY <1>1, <1>2, <1>4 DEF TypeOK
<1> QED BY <1>3, <1>4 DEF FinishRename

\* The variables of a run, and of the history, keep their types.
LEMMA TypeStep ==
    ASSUME TypeOK, EncRotationAssumption, [Next]_vars
    PROVE  TypeOK'
<1> USE EncRotationAssumption DEF EncRotationAssumption
<1>1. CASE UNCHANGED vars
  BY <1>1 DEF TypeOK, vars, data, run, history
<1>2. ASSUME NEW r \in Rows, Store(r) PROVE TypeOK'
  BY <1>2 DEF TypeOK, Store, run, history
<1>3. ASSUME NEW f \in Files, Upload(f) PROVE TypeOK'
  BY <1>3 DEF TypeOK, Upload, run, history
<1>4. ASSUME NEW o \in Keys, NEW n \in Keys, NEW d \in BOOLEAN, Start(o, n, d)
      PROVE  TypeOK'
  <2>1. faults' \in 0 .. MaxFaults
    BY <1>4, FaultType DEF Start
  <2>2. under' \subseteq Keys \X Keys /\ astray' \in BOOLEAN
    <3>1. astray' \in BOOLEAN
      BY <1>4 DEF TypeOK, Start
    <3> QED BY <1>4, <3>1 DEF TypeOK, Start
  <2> QED BY <1>4, <2>1, <2>2 DEF TypeOK, Start, data
<1>5. ASSUME NEW r \in Rows, RotateRow(r) PROVE TypeOK'
  BY <1>5 DEF TypeOK, RotateRow, history
<1>6. CASE RowsUnread
  <2>1. faults' \in 0 .. MaxFaults
    BY <1>6, FaultType DEF RowsUnread
  <2> QED BY <1>6, <2>1 DEF TypeOK, RowsUnread, data
<1>7. CASE RowsDone
  BY <1>7 DEF TypeOK, RowsDone, data, history, Present
<1>8. ASSUME NEW f \in Files, FileDone(f) PROVE TypeOK'
  BY <1>8, FinishRenameType DEF TypeOK, FileDone, history
<1>9. ASSUME NEW f \in Files, FileNotDone(f) PROVE TypeOK'
  BY <1>9 DEF TypeOK, FileNotDone, Fault
<1>10. ASSUME NEW f \in Files, FileFails(f) PROVE TypeOK'
  BY <1>10 DEF TypeOK, FileFails, history, Fault
<1>11. ASSUME NEW f \in Files, Copy(f) PROVE TypeOK'
  BY <1>11 DEF TypeOK, Copy, history
<1>12. ASSUME NEW f \in Files, Journal(f) PROVE TypeOK'
  BY <1>12 DEF TypeOK, Journal, history
<1>13. ASSUME NEW f \in Files, JournalFails(f) PROVE TypeOK'
  BY <1>13 DEF TypeOK, JournalFails, Fault
<1>14. ASSUME NEW f \in Files, Rename(f) PROVE TypeOK'
  BY <1>14, FinishRenameType DEF TypeOK, Rename, history
<1>15. CASE Finish
  BY <1>15 DEF TypeOK, Finish
<1>16. CASE Stop
  BY <1>16 DEF TypeOK, Stop, data, history
<1> QED
  BY <1>1, <1>2, <1>3, <1>4, <1>5, <1>6, <1>7, <1>8, <1>9, <1>10, <1>11, <1>12,
     <1>13, <1>14, <1>15, <1>16 DEF Next, Run, File
-----------------------------------------------------------------------------
(* The invariant, action by action *)

\* The names that the provers must tell from keys, and rows from files.
LEMMA NotKeys ==
    ASSUME EncRotationAssumption
    PROVE  /\ \A k \in Keys : k \notin {"none", "plain", "rubbish", "partial"}
           /\ Rows \cap Files = {}
BY DEF EncRotationAssumption, States

\* The rotation under way is one only.
LEMMA OnePair ==
    ASSUME NEW o, NEW n, NEW p, NEW q, {<<o, n>>} = {<<p, q>>}
    PROVE  o = p /\ n = q
<1>1. <<o, n>> \in {<<p, q>>}
  OBVIOUS
<1>2. <<o, n>> = <<p, q>>
  BY <1>1
<1> QED BY <1>2

LEMMA InitOrderly ==
    ASSUME Init, EncRotationAssumption
    PROVE  OrderlyInv
BY NotKeys DEF Init, OrderlyInv, DataInv, Settled, RunInv, CurInv, TodoInv, Good, Excepted

LEMMA ServerSteps ==
    ASSUME TypeOK, OrderlyInv, EncRotationAssumption, ~astray,
           (\E r \in Rows : Store(r)) \/ (\E f \in Files : Upload(f))
    PROVE  OrderlyInv'
<1> USE NotKeys
<1>1. ASSUME NEW r \in Rows, Store(r) PROVE OrderlyInv'
  BY <1>1 DEF TypeOK, OrderlyInv, DataInv, Settled, Moving, RunInv, CurInv, TodoInv,
     Good, Excepted, Present, Store, run, history
<1>2. ASSUME NEW f \in Files, Upload(f) PROVE OrderlyInv'
  <2>1. DataInv'
    BY <1>2 DEF TypeOK, OrderlyInv, DataInv, Settled, Moving, Good, Excepted, Upload,
       run, history
  <2> QED
    BY <1>2, <2>1 DEF TypeOK, OrderlyInv, RunInv, CurInv, TodoInv, Upload, run
<1> QED BY <1>1, <1>2

LEMMA StartStep ==
    ASSUME TypeOK, OrderlyInv, EncRotationAssumption, ~astray',
           NEW o \in Keys, NEW n \in Keys, NEW d \in BOOLEAN, Start(o, n, d)
    PROVE  OrderlyInv'
<1> USE NotKeys
<1>1. ~astray /\ Orderly(o, n) /\ DataInv /\ CurInv /\ pc = "idle"
  BY DEF Start, OrderlyInv
<1>2. DataInv'
  <2>1. CASE under' = under
    BY <1>1, <2>1 DEF Start, DataInv, Settled, Moving, Good, Excepted, data
  <2>2. CASE under' # under
    <3>1. under' = {<<o, n>>} /\ fp = o /\ under = {} /\ o # n
      BY <1>1, <2>2 DEF Start, Orderly
    <3>2. \A f \in Files : <<f, n>> \notin journal
      BY <1>1, <3>1 DEF Orderly, Start
    <3> QED BY <1>1, <3>1, <3>2 DEF Start, DataInv, Settled, Moving, Good, Excepted, data
  <2> QED BY <2>1, <2>2
<1>3. RunInv'
  <2>1. pc' # "idle" /\ old' = o /\ new' = n /\ dry' = d /\ o # n
    BY DEF Start
  <2>2. UNCHANGED <<file, journal, fp, unread, ghost>>
    BY DEF Start, data
  <2>3. CASE under = {<<o, n>>}
    <3>1. under' = {<<o, n>>}
      BY <2>3 DEF Start
    <3> QED BY <2>1, <3>1 DEF RunInv
  <2>4. CASE under = {} /\ fp = o /\ \A f \in Files : <<f, n>> \notin journal
    <3>1. CASE d
      <4>1. under' = {}
        BY <2>4, <3>1 DEF Start
      <4> QED BY <2>1, <2>2, <2>4, <3>1, <4>1 DEF RunInv
    <3>2. CASE ~d
      <4>1. under' = {<<o, n>>}
        BY <2>4, <3>2 DEF Start
      <4> QED BY <2>1, <4>1 DEF RunInv
    <3> QED BY <3>1, <3>2
  <2>5. CASE under = {} /\ fp = n /\ \A f \in Files : file[f] = n => <<f, n>> \in journal
    <3>1. under' = {}
      BY <2>5 DEF Start
    <3> QED BY <2>1, <2>2, <2>5, <3>1 DEF RunInv, Good, Excepted
  <2> QED BY <1>1, <2>3, <2>4, <2>5 DEF Orderly
<1>4. CurInv'
  BY <1>1 DEF Start, CurInv
<1>5. TodoInv'
  BY <1>1 DEF TypeOK, Start, TodoInv, data
<1> QED BY <1>2, <1>3, <1>4, <1>5 DEF OrderlyInv

\* RotateRow, RowsUnread and RowsDone.
LEMMA RowSteps ==
    ASSUME TypeOK, OrderlyInv, EncRotationAssumption, ~astray,
           (\E r \in Rows : RotateRow(r)) \/ RowsUnread \/ RowsDone
    PROVE  OrderlyInv'
<1> USE NotKeys
<1>0. pc = "rows" /\ cur = {} /\ RunInv /\ DataInv /\ TodoInv
  BY DEF OrderlyInv, CurInv, RotateRow, RowsUnread, RowsDone
<1>1. ASSUME NEW r \in Rows, RotateRow(r) PROVE OrderlyInv'
  <2>1. DataInv'
    <3>1. UNCHANGED <<file, tmp, journal, fp, under, skipped, unread, ghost>>
      BY <1>1 DEF RotateRow, history
    <3>2. CASE row' = row
      BY <1>0, <3>1, <3>2 DEF DataInv, Settled, Moving, Good, Excepted
    <3>3. CASE row' = [row EXCEPT ![r] = new] /\ ~dry
      <4>1. CASE under = {<<old, new>>}
        <5>1. ASSUME NEW o \in Keys, NEW n \in Keys, under = {<<o, n>>} PROVE o = old /\ n = new
          <6>1. {<<o, n>>} = {<<old, new>>}
            BY <4>1, <5>1
          <6> QED BY ZenonT(30), <6>1, OnePair
        <5> QED BY <1>0, <3>1, <3>3, <4>1, <5>1 DEF TypeOK, DataInv, Moving, Good, Excepted
      <4>2. CASE under = {} /\ fp = new
        BY <1>0, <3>1, <3>3, <4>2 DEF TypeOK, DataInv, Settled, Good, Excepted
      <4> QED BY <1>0, <3>3, <4>1, <4>2 DEF RunInv
    <3> QED BY <1>1, <3>2, <3>3 DEF RotateRow
  <2>2. RunInv' /\ CurInv'
    BY <1>0, <1>1 DEF RunInv, CurInv, RotateRow, history, Good, Excepted
  <2>3. TodoInv'
    BY <1>0, <1>1 DEF TypeOK, DataInv, Settled, Moving, RunInv, TodoInv, RotateRow, history
  <2> QED BY <2>1, <2>2, <2>3 DEF OrderlyInv
<1>2. CASE RowsUnread
  <2>1. DataInv'
    BY <1>0, <1>2 DEF DataInv, Settled, Moving, Good, Excepted, RowsUnread, data
  <2>2. RunInv' /\ CurInv'
    BY <1>0, <1>2 DEF RunInv, CurInv, RowsUnread, data, Good, Excepted
  <2>3. TodoInv'
    BY <1>0, <1>2 DEF TypeOK, TodoInv, RowsUnread, data
  <2> QED BY <2>1, <2>2, <2>3 DEF OrderlyInv
<1>3. CASE RowsDone
  <2>1. DataInv'
    BY <1>0, <1>3 DEF DataInv, Settled, Moving, Good, Excepted, RowsDone, data, history
  <2>2. RunInv' /\ CurInv'
    BY <1>0, <1>3 DEF RunInv, CurInv, RowsDone, data, history, Good, Excepted
  <2>3. TodoInv'
    BY ZenonT(30), <1>0, <1>3 DEF TypeOK, TodoInv, RunInv, DataInv, Settled, Moving, RowsDone, data,
       history, Present, Good, Excepted
  <2> QED BY <2>1, <2>2, <2>3 DEF OrderlyInv
<1> QED BY <1>1, <1>2, <1>3

\* A file that is good after a step was good before it.
LEMMA GoodShrinks ==
    ASSUME [Next]_vars
    PROVE  unread \subseteq unread' /\ ghost \subseteq ghost' /\ Good' \subseteq Good
<1>1. unread \subseteq unread' /\ ghost \subseteq ghost'
  BY DEF Next, Run, File, vars, history, Store, Upload, Start, RotateRow, RowsUnread,
     RowsDone, FileDone, FileNotDone, FileFails, Copy, Journal, JournalFails, Rename,
     Finish, Stop
<1> QED BY <1>1 DEF Good, Excepted

\* Data under one rotation: what DataInv says of it, and how to get it back.
LEMMA DataUnder ==
    ASSUME NEW o \in Keys, NEW n \in Keys, under = {<<o, n>>}
    PROVE  DataInv <=> Moving(o, n)
<1>1. under # {}
  OBVIOUS
<1>2. ASSUME NEW p \in Keys, NEW q \in Keys, under = {<<p, q>>} PROVE p = o /\ q = n
  <2>1. <<p, q>> \in {<<o, n>>}
    BY <1>2
  <2> QED BY <2>1
<1> QED BY <1>1, <1>2 DEF DataInv

LEMMA DataUnderNext ==
    ASSUME NEW o \in Keys, NEW n \in Keys, under' = {<<o, n>>}
    PROVE  DataInv' <=> Moving(o, n)'
<1>1. under' # {}
  OBVIOUS
<1>2. ASSUME NEW p \in Keys, NEW q \in Keys, under' = {<<p, q>>} PROVE p = o /\ q = n
  <2>1. <<p, q>> \in {<<o, n>>}
    BY <1>2
  <2> QED BY <2>1
<1> QED BY <1>1, <1>2 DEF DataInv

LEMMA DataSettled ==
    ASSUME under = {}
    PROVE  DataInv <=> Settled
BY DEF DataInv

\* Completing a rename leaves a good file that has an entry under the new key.
LEMMA FinishRenameGood ==
    ASSUME TypeOK, EncRotationAssumption, DataInv, RunInv, pc # "idle",
           NEW f \in Files, FinishRename(f), <<f, new>> \in journal,
           UNCHANGED <<row, journal, fp, under, skipped, unread, ghost>>
    PROVE  /\ DataInv'
           /\ f \in Good /\ ~failed' =>
                 file'[f] \in {"none", "plain", new} /\ tmp'[f] = "none"
           /\ \A g \in Files : g # f => file'[g] = file[g] /\ tmp'[g] = tmp[g]
           /\ \A g \in Files : file[g] # "none" => file'[g] # "none"
           /\ failed => failed'
           /\ f \in Good /\ under = {} => UNCHANGED <<file, tmp>>
<1> USE NotKeys
<1>0. Good' = Good
  BY DEF Good, Excepted
<1>1. under = {<<old, new>>} \/ (under = {} /\ fp = new)
  BY DEF RunInv
<1>2. \/ UNCHANGED <<file, tmp>> /\ (~failed' => tmp[f] = "none") /\ (failed => failed')
      \/ /\ tmp[f] # "none"
         /\ file' = [file EXCEPT ![f] = IF tmp[f] = "partial" THEN "rubbish" ELSE tmp[f]]
         /\ tmp' = [tmp EXCEPT ![f] = "none"]
         /\ failed' = failed
  BY DEF FinishRename
<1>3. \A g \in Files : file[g] # "none" => file'[g] # "none"
  BY <1>2 DEF TypeOK
<1>4. \A g \in Files : g # f => file'[g] = file[g] /\ tmp'[g] = tmp[g]
  BY <1>2 DEF TypeOK
<1>5. failed => failed'
  BY <1>2
<1>6. CASE under = {<<old, new>>}
  <2>0. PICK o \in Keys, n \in Keys : o = old /\ n = new
    BY DEF TypeOK
  <2>1. Moving(o, n)
    BY <1>6, <2>0, DataUnder
  <2>2. f \in Good => file'[f] \in {"none", "plain", o, n}
                      /\ (tmp'[f] = n \/ (tmp'[f] = "none" /\ file'[f] = n))
    BY <1>2, <2>0, <2>1 DEF TypeOK, Moving
  <2>3. f \in Good /\ ~failed' => file'[f] = n /\ tmp'[f] = "none"
    BY <1>2, <2>0, <2>1 DEF TypeOK, Moving
  <2>4. f \in Good /\ file'[f] = "none" => tmp'[f] = "none"
    BY <1>2, <2>0, <2>1 DEF TypeOK, Moving
  <2>5. ASSUME NEW g \in Good
        PROVE  /\ file'[g] \in {"none", "plain", o, n}
               /\ file'[g] = n => <<g, n>> \in journal
               /\ file'[g] = "none" => tmp'[g] = "none"
               /\ <<g, n>> \in journal =>
                     tmp'[g] = n \/ (tmp'[g] = "none" /\ file'[g] = n)
    BY <1>4, <2>0, <2>1, <2>2, <2>4 DEF Moving, Good
  <2>6. Moving(o, n)'
    BY <1>0, <2>1, <2>5 DEF Moving
  <2>7. DataInv'
    BY <1>6, <2>0, <2>6, DataUnderNext
  <2> QED BY <1>3, <1>4, <1>5, <1>6, <2>0, <2>3, <2>7
<1>7. CASE under = {} /\ fp = new
  <2>1. Settled
    BY <1>7 DEF DataInv
  <2>2. f \in Good => UNCHANGED <<file, tmp>>
    BY <1>2, <2>1 DEF Settled
  <2>3. \A g \in Good : file'[g] = file[g] /\ tmp'[g] = tmp[g]
    BY <1>4, <2>2 DEF Good
  <2>4. Settled'
    BY <1>0, <2>1, <2>3 DEF Settled
  <2>5. DataInv'
    BY <1>7, <2>4 DEF DataInv
  <2>6. f \in Good => file'[f] \in {"none", "plain", new} /\ tmp'[f] = "none"
    BY <1>7, <2>1, <2>3 DEF Settled
  <2> QED BY <1>3, <1>4, <1>5, <1>7, <2>2, <2>5, <2>6
<1> QED BY <1>1, <1>6, <1>7

LEMMA FileDoneStep ==
    ASSUME TypeOK, OrderlyInv, EncRotationAssumption, ~astray,
           NEW f \in Files, FileDone(f)
    PROVE  OrderlyInv'
<1> USE NotKeys
<1>0. /\ pc = "files" /\ pc' = "files" /\ cur = {} /\ cur' = {}
      /\ RunInv /\ DataInv /\ TodoInv /\ todo' = todo \ {f}
      /\ UNCHANGED <<row, journal, fp, old, new, dry, under, skipped, unread, ghost>>
      /\ <<f, new>> \in journal
  BY DEF OrderlyInv, CurInv, FileDone, history
<1>1. /\ DataInv'
      /\ f \in Good /\ ~failed' => file'[f] \in {"none", "plain", new} /\ tmp'[f] = "none"
      /\ \A g \in Files : g # f => file'[g] = file[g] /\ tmp'[g] = tmp[g]
      /\ \A g \in Files : file[g] # "none" => file'[g] # "none"
      /\ failed => failed'
      /\ f \in Good /\ under = {} => UNCHANGED <<file, tmp>>
  BY <1>0, FinishRenameGood DEF FileDone
<1>2. RunInv'
  <2>1. under = {} => \A g \in Good : file'[g] = file[g]
    BY <1>1 DEF Good
  <2> QED BY <1>0, <2>1 DEF RunInv, Good, Excepted
<1>3. CurInv'
  BY <1>0 DEF CurInv
<1>4. TodoInv'
  BY <1>0, <1>1 DEF TypeOK, TodoInv, Present, Good, Excepted
<1> QED BY <1>1, <1>2, <1>3, <1>4 DEF OrderlyInv

LEMMA RenameStep ==
    ASSUME TypeOK, OrderlyInv, EncRotationAssumption, ~astray,
           NEW f \in Files, Rename(f)
    PROVE  OrderlyInv'
<1> USE NotKeys
<1>0. /\ pc = "rename" /\ pc' = "files" /\ cur = {f} /\ cur' = {}
      /\ RunInv /\ DataInv /\ TodoInv /\ todo' = todo
      /\ UNCHANGED <<row, journal, fp, old, new, dry, under, skipped, unread, ghost>>
      /\ f \in Good => <<f, new>> \in journal
  BY DEF OrderlyInv, CurInv, Rename, history
<1>2. CurInv'
  BY <1>0 DEF CurInv
<1>3. CASE f \in Good
  <2>1. /\ DataInv'
        /\ f \in Good /\ ~failed' => file'[f] \in {"none", "plain", new} /\ tmp'[f] = "none"
        /\ \A g \in Files : g # f => file'[g] = file[g] /\ tmp'[g] = tmp[g]
        /\ \A g \in Files : file[g] # "none" => file'[g] # "none"
        /\ failed => failed'
        /\ f \in Good /\ under = {} => UNCHANGED <<file, tmp>>
    BY <1>0, <1>3, FinishRenameGood DEF Rename
  <2>2. RunInv'
    <3>1. under = {} => \A g \in Good : file'[g] = file[g]
      BY <2>1 DEF Good
    <3> QED BY <1>0, <3>1 DEF RunInv, Good, Excepted
  <2>3. TodoInv'
    BY <1>0, <2>1 DEF TypeOK, TodoInv, Present, Good, Excepted
  <2> QED BY <1>2, <2>1, <2>2, <2>3 DEF OrderlyInv
<1>4. CASE f \notin Good
  <2>1. \A g \in Good : file'[g] = file[g] /\ tmp'[g] = tmp[g]
    BY <1>4 DEF Rename, FinishRename, TypeOK, Good
  <2>2. \A g \in Files : file[g] # "none" => file'[g] # "none"
    BY DEF Rename, FinishRename, TypeOK
  <2>3. failed => failed'
    BY DEF Rename, FinishRename
  <2>4. DataInv'
    BY <1>0, <2>1 DEF DataInv, Settled, Moving, Good, Excepted
  <2>5. RunInv'
    BY <1>0, <2>1 DEF RunInv, Good, Excepted
  <2>6. TodoInv'
    BY <1>0, <1>4, <2>1, <2>2, <2>3 DEF TypeOK, TodoInv, Present, Good, Excepted
  <2> QED BY <1>2, <2>4, <2>5, <2>6 DEF OrderlyInv
<1> QED BY <1>3, <1>4

LEMMA FileNotDoneStep ==
    ASSUME TypeOK, OrderlyInv, EncRotationAssumption, ~astray,
           NEW f \in Files, FileNotDone(f)
    PROVE  OrderlyInv'
<1> USE NotKeys
<1>0. /\ pc = "files" /\ cur = {} /\ f \in todo /\ todo' = todo \ {f}
      /\ RunInv /\ DataInv /\ TodoInv
      /\ UNCHANGED <<row, file, journal, fp, old, new, dry, failed, under, skipped, ghost>>
  BY DEF OrderlyInv, CurInv, FileNotDone
<1>1. Good' \subseteq Good /\ (f \in Good' => <<f, new>> \notin journal)
  BY <1>0 DEF FileNotDone, Good, Excepted
<1>2. \A g \in Files : g # f => tmp'[g] = tmp[g]
  BY DEF FileNotDone, TypeOK
<1>3. file[f] # "none"
  BY <1>0 DEF TodoInv, Present
<1>4. f \in Good' /\ under = {} => /\ file[f] = "plain" \/ dry
                                   /\ tmp'[f] = "none"
  <2> SUFFICES ASSUME f \in Good', under = {} PROVE file[f] = "plain" \/ dry
    BY DEF FileNotDone, TypeOK
  <2>1. Settled
    BY <1>0 DEF DataInv
  <2> QED BY <1>0, <1>1, <1>3, <2>1 DEF Settled, RunInv
<1>5. DataInv'
  <2>1. CASE under = {}
    <3>1. Settled
      BY <1>0, <2>1 DEF DataInv
    <3>2. \A r \in Rows \ skipped' : row'[r] \in {"none", "plain", fp'}
      BY <1>0, <3>1 DEF Settled
    <3>3. \A g \in Good' : file'[g] \in {"none", "plain", fp'} /\ tmp'[g] = "none"
      BY <1>0, <1>1, <1>2, <1>4, <2>1, <3>1 DEF Settled, Good
    <3> QED BY <1>0, <2>1, <3>2, <3>3 DEF DataInv, Settled
  <2>2. CASE under = {<<old, new>>}
    <3>1. PICK o \in Keys, n \in Keys : o = old /\ n = new
      BY DEF TypeOK
    <3>2. Moving(o, n)
      BY <1>0, <2>2, <3>1, DataUnder
    <3>3. ASSUME NEW g \in Good'
          PROVE  /\ file'[g] \in {"none", "plain", o, n}
                 /\ file'[g] = n => <<g, n>> \in journal'
                 /\ file'[g] = "none" => tmp'[g] = "none"
                 /\ <<g, n>> \in journal' =>
                       tmp'[g] = n \/ (tmp'[g] = "none" /\ file'[g] = n)
      <4>1. CASE g = f
        BY <1>0, <1>1, <1>3, <3>1, <3>2, <4>1 DEF Moving
      <4>2. CASE g # f
        BY <1>0, <1>1, <1>2, <3>2, <4>2 DEF Moving, Good
      <4> QED BY <4>1, <4>2
    <3>4. Moving(o, n)'
      BY <1>0, <3>2, <3>3 DEF Moving
    <3> QED BY <1>0, <2>2, <3>1, <3>4, DataUnderNext
  <2> QED BY <1>0, <2>1, <2>2 DEF RunInv
<1>6. RunInv'
  BY <1>0, <1>1 DEF RunInv, FileNotDone
<1>7. CurInv'
  <2>1. CASE dry \/ file[f] = "plain"
    BY <1>0, <2>1 DEF CurInv, FileNotDone
  <2>2. CASE ~(dry \/ file[f] = "plain")
    <3>1. pc' = "copy" /\ cur' = {f}
      BY <2>2 DEF FileNotDone
    <3>2. ASSUME f \in Good' PROVE under = {<<old, new>>} /\ file[f] = old
      <4>1. under = {<<old, new>>}
        BY <1>0, <1>4, <2>2, <3>2 DEF RunInv
      <4>2. PICK o \in Keys, n \in Keys : o = old /\ n = new
        BY DEF TypeOK
      <4>3. Moving(o, n)
        BY <1>0, <4>1, <4>2, DataUnder
      <4> QED BY <1>1, <1>3, <2>2, <3>2, <4>1, <4>2, <4>3 DEF Moving
    <3> QED BY <1>0, <1>1, <2>2, <3>1, <3>2 DEF CurInv
  <2> QED BY <2>1, <2>2
<1>8. TodoInv'
  <2>1. pc' \in {"files", "copy"} /\ (pc' = "copy" => cur' = {f})
    BY <1>0 DEF FileNotDone
  <2>2. ~dry => (pc' = "files" => file[f] = "plain" /\ tmp'[f] = "none")
    BY <1>0 DEF FileNotDone, TypeOK
  <2> QED BY <1>0, <1>1, <1>2, <2>1, <2>2 DEF TodoInv, Present, Good
<1> QED BY <1>5, <1>6, <1>7, <1>8 DEF OrderlyInv

\* A file that fails leaves the run with fileFailed > 0, and no entry of a good
\* file behind; without an entry nothing is claimed of f.rotating.
LEMMA FailStep ==
    ASSUME TypeOK, OrderlyInv, EncRotationAssumption, ~astray,
           NEW f \in Files, FileFails(f) \/ JournalFails(f)
    PROVE  OrderlyInv'
<1> USE NotKeys
<1>0. /\ pc \in {"files", "copy", "journal"} /\ pc' = "files" /\ cur' = {} /\ failed'
      /\ RunInv /\ DataInv /\ TodoInv /\ todo' \subseteq todo
      /\ UNCHANGED <<row, file, fp, old, new, dry, under, skipped, unread>>
      /\ tmp' = [tmp EXCEPT ![f] = "none"]
  BY DEF OrderlyInv, FileFails, JournalFails, history, TypeOK
<1>1. /\ Good' \subseteq Good
      /\ \A g \in Good', k \in Keys : <<g, k>> \in journal' <=> <<g, k>> \in journal
      /\ f \in Good' => <<f, new>> \notin journal
  <2>1. CASE FileFails(f)
    <3>1. f \in Good => <<f, new>> \notin journal
      BY <2>1 DEF FileFails, OrderlyInv, CurInv
    <3>2. journal' = journal /\ Good' = Good
      BY <2>1 DEF FileFails, history, Good, Excepted
    <3> QED BY <3>1, <3>2
  <2>2. CASE JournalFails(f)
    <3>1. f \in Good => <<f, new>> \notin journal
      BY <2>2 DEF JournalFails, OrderlyInv, CurInv
    <3>2. \/ journal' = journal /\ ghost' = ghost
          \/ journal' = journal \cup {<<f, new>>} /\ ghost' = ghost \cup {f}
      BY <2>2 DEF JournalFails
    <3>3. \A g \in Good' : g \in Good /\ (journal' = journal \/ g # f)
      BY <1>0, <3>2 DEF Good, Excepted
    <3> QED BY <3>1, <3>2, <3>3
  <2> QED BY <2>1, <2>2
<1>2. \A g \in Files : g # f => tmp'[g] = tmp[g]
  BY <1>0 DEF TypeOK
<1>3. tmp'[f] = "none"
  BY <1>0 DEF TypeOK
<1>4. DataInv'
  <2>1. CASE under = {}
    <3>1. Settled
      BY <1>0, <2>1 DEF DataInv
    <3>2. \A g \in Good' : file'[g] \in {"none", "plain", fp'} /\ tmp'[g] = "none"
      BY <1>0, <1>1, <1>2, <1>3, <3>1 DEF Settled, Good
    <3>3. Settled'
      BY <1>0, <3>1, <3>2 DEF Settled
    <3> QED BY <1>0, <2>1, <3>3 DEF DataInv
  <2>2. CASE under = {<<old, new>>}
    <3>1. PICK o \in Keys, n \in Keys : o = old /\ n = new
      BY DEF TypeOK
    <3>2. Moving(o, n)
      BY <1>0, <2>2, <3>1, DataUnder
    <3>3. ASSUME NEW g \in Good'
          PROVE  /\ file'[g] \in {"none", "plain", o, n}
                 /\ file'[g] = n => <<g, n>> \in journal'
                 /\ file'[g] = "none" => tmp'[g] = "none"
                 /\ <<g, n>> \in journal' =>
                       tmp'[g] = n \/ (tmp'[g] = "none" /\ file'[g] = n)
      <4>1. CASE g = f
        BY <1>0, <1>1, <1>3, <3>1, <3>2, <4>1 DEF Moving
      <4>2. CASE g # f
        BY <1>0, <1>1, <1>2, <3>2, <4>2 DEF Moving, Good
      <4> QED BY <4>1, <4>2
    <3>4. Moving(o, n)'
      BY <1>0, <3>2, <3>3 DEF Moving
    <3> QED BY <1>0, <2>2, <3>1, <3>4, DataUnderNext
  <2>3. CASE under = {} \/ under = {<<old, new>>}
    BY <2>1, <2>2, <2>3
  <2> QED BY <1>0, <2>3 DEF RunInv
<1>5. RunInv'
  <2>1. CASE FileFails(f)
    <3>1. journal' = journal
      BY <2>1 DEF FileFails
    <3> QED BY <1>0, <1>1, <3>1 DEF RunInv
  <2>2. CASE JournalFails(f)
    <3>1. ~dry
      BY <2>2 DEF JournalFails, OrderlyInv, CurInv
    <3>2. \A g \in Good' : g \in Good /\ (<<g, new>> \in journal => <<g, new>> \in journal')
      BY <1>1, <2>2 DEF JournalFails
    <3> QED BY <1>0, <3>1, <3>2 DEF RunInv
  <2> QED BY <2>1, <2>2
<1>6. CurInv'
  BY <1>0 DEF CurInv
<1>7. TodoInv'
  BY <1>0 DEF TodoInv, Present
<1> QED BY <1>4, <1>5, <1>6, <1>7 DEF OrderlyInv

LEMMA CopyStep ==
    ASSUME TypeOK, OrderlyInv, EncRotationAssumption, ~astray,
           NEW f \in Files, Copy(f)
    PROVE  OrderlyInv'
<1> USE NotKeys
<1>0. /\ pc = "copy" /\ pc' = "journal" /\ cur = {f} /\ cur' = {f} /\ ~dry
      /\ RunInv /\ DataInv /\ TodoInv /\ CurInv
      /\ UNCHANGED <<row, file, journal, fp, old, new, dry, todo, failed, under,
                     skipped, unread, ghost>>
      /\ tmp' = [tmp EXCEPT ![f] = IF file[f] = old THEN new ELSE "rubbish"]
  BY DEF OrderlyInv, CurInv, Copy, history
<1>1. f \in Good => /\ under = {<<old, new>>} /\ file[f] = old
                    /\ <<f, new>> \notin journal /\ tmp'[f] = new
  BY <1>0 DEF CurInv, TypeOK
<1>2. Good' = Good /\ \A g \in Good : g # f => tmp'[g] = tmp[g]
  BY <1>0 DEF Good, Excepted, TypeOK
<1>3. DataInv'
  <2>1. CASE under = {}
    <3>1. \A g \in Good : tmp'[g] = tmp[g]
      BY <1>1, <1>2, <2>1
    <3> QED BY <1>0, <1>2, <2>1, <3>1 DEF DataInv, Settled
  <2>2. CASE under = {<<old, new>>}
    <3>1. PICK o \in Keys, n \in Keys : o = old /\ n = new
      BY DEF TypeOK
    <3>2. Moving(o, n)
      BY <1>0, <2>2, <3>1, DataUnder
    <3>3. \A g \in Good : /\ file[g] = "none" => tmp'[g] = "none"
                          /\ <<g, n>> \in journal => tmp'[g] = tmp[g]
      <4>1. f \in Good => file[f] # "none"
        BY <1>1 DEF TypeOK
      <4> QED BY <1>1, <1>2, <3>1, <3>2, <4>1 DEF Moving
    <3>4. Moving(o, n)'
      BY <1>0, <1>2, <3>2, <3>3 DEF Moving
    <3> QED BY <1>0, <2>2, <3>1, <3>4, DataUnderNext
  <2>3. CASE under = {} \/ under = {<<old, new>>}
    BY <2>1, <2>2, <2>3
  <2> QED BY <1>0, <2>3 DEF RunInv
<1>4. RunInv'
  BY <1>0, <1>2 DEF RunInv
<1>5. CurInv'
  BY <1>0, <1>1, <1>2 DEF CurInv
<1>6. TodoInv'
  BY <1>0, <1>2 DEF TodoInv, Present
<1> QED BY <1>3, <1>4, <1>5, <1>6 DEF OrderlyInv

LEMMA JournalStep ==
    ASSUME TypeOK, OrderlyInv, EncRotationAssumption, ~astray,
           NEW f \in Files, Journal(f)
    PROVE  OrderlyInv'
<1> USE NotKeys
<1>0. /\ pc = "journal" /\ pc' = "rename" /\ cur = {f} /\ cur' = {f} /\ ~dry
      /\ RunInv /\ DataInv /\ TodoInv /\ CurInv
      /\ UNCHANGED <<row, file, tmp, fp, old, new, dry, todo, failed, under,
                     skipped, unread, ghost>>
      /\ journal' = journal \cup {<<f, new>>}
  BY DEF OrderlyInv, CurInv, Journal, history
<1>1. f \in Good => under = {<<old, new>>} /\ file[f] = old /\ tmp[f] = new
  BY <1>0 DEF CurInv
<1>2. Good' = Good
  BY <1>0 DEF Good, Excepted
<1>3. DataInv'
  <2>1. CASE under = {}
    BY <1>0, <1>2, <2>1 DEF DataInv, Settled
  <2>2. CASE under = {<<old, new>>}
    <3>1. PICK o \in Keys, n \in Keys : o = old /\ n = new
      BY DEF TypeOK
    <3>2. Moving(o, n)
      BY <1>0, <2>2, <3>1, DataUnder
    <3>3. \A g \in Good : <<g, n>> \in journal' => g = f \/ <<g, n>> \in journal
      BY <1>0
    <3>4. Moving(o, n)'
      BY <1>0, <1>1, <1>2, <3>1, <3>2, <3>3 DEF Moving
    <3> QED BY <1>0, <2>2, <3>1, <3>4, DataUnderNext
  <2>3. CASE under = {} \/ under = {<<old, new>>}
    BY <2>1, <2>2, <2>3
  <2> QED BY <1>0, <2>3 DEF RunInv
<1>4. RunInv'
  BY <1>0, <1>2 DEF RunInv
<1>5. CurInv'
  BY <1>0, <1>1, <1>2 DEF CurInv
<1>6. TodoInv'
  BY <1>0, <1>2 DEF TodoInv, Present
<1> QED BY <1>3, <1>4, <1>5, <1>6 DEF OrderlyInv

LEMMA EndSteps ==
    ASSUME TypeOK, OrderlyInv, EncRotationAssumption, ~astray, Finish \/ Stop
    PROVE  OrderlyInv'
<1> USE NotKeys
<1>0. pc' = "idle" /\ cur' = {} /\ pc # "idle" /\ RunInv /\ DataInv /\ TodoInv
  BY DEF OrderlyInv, CurInv, Finish, Stop
<1>1. RunInv' /\ CurInv' /\ TodoInv'
  BY <1>0 DEF RunInv, CurInv, TodoInv
<1>2. CASE UNCHANGED <<fp, under>> /\ UNCHANGED <<row, file, tmp, journal, skipped, unread, ghost>>
  BY <1>0, <1>1, <1>2 DEF OrderlyInv, DataInv, Settled, Moving, Good, Excepted
<1>3. CASE Finish /\ ~(dry \/ failed)
  <2>1. /\ fp' = new /\ under' = {} /\ todo = {} /\ cur = {} /\ pc = "files"
        /\ UNCHANGED <<row, file, tmp, journal, skipped, unread, ghost>>
    BY <1>3 DEF Finish, OrderlyInv, CurInv
  <2>2. \A r \in Rows \ skipped : row[r] \in {"none", "plain", new}
    BY <1>0, <1>3, <2>1 DEF TodoInv
  <2>3. \A f \in Good : file[f] \in {"none", "plain", new} /\ tmp[f] = "none"
    BY <1>0, <1>3, <2>1 DEF TodoInv
  <2>4. DataInv'
    BY <2>1, <2>2, <2>3 DEF DataInv, Settled, Good, Excepted
  <2> QED BY <1>1, <2>4 DEF OrderlyInv
<1>4. CASE Stop
  BY <1>2, <1>4 DEF Stop, data, history
<1>5. CASE Finish /\ (dry \/ failed)
  BY <1>2, <1>5 DEF Finish
<1> QED BY <1>3, <1>4, <1>5

LEMMA OrderlyStep ==
    ASSUME TypeOK, OrderlyInv, EncRotationAssumption, [Next]_vars
    PROVE  OrderlyInv'
<1> SUFFICES ASSUME ~astray' PROVE OrderlyInv'
  BY DEF OrderlyInv
<1>0. CASE UNCHANGED vars
  BY <1>0 DEF OrderlyInv, DataInv, Settled, Moving, RunInv, CurInv, TodoInv, Good,
     Excepted, Present, vars, data, run, history
<1>1. CASE \E o, n \in Keys, d \in BOOLEAN : Start(o, n, d)
  BY <1>1, StartStep
<1>2. CASE (\E r \in Rows : Store(r)) \/ (\E f \in Files : Upload(f))
  <2>1. ~astray
    BY <1>2 DEF Store, Upload, history
  <2> QED BY <1>2, <2>1, ServerSteps
<1>3. CASE (\E r \in Rows : RotateRow(r)) \/ RowsUnread \/ RowsDone
  <2>1. ~astray
    BY <1>3 DEF RotateRow, RowsUnread, RowsDone, history
  <2> QED BY <1>3, <2>1, RowSteps
<1>4. ASSUME NEW f \in Files, File(f) PROVE OrderlyInv'
  <2>1. ~astray
    BY <1>4 DEF File, FileDone, FileNotDone, FileFails, Copy, Journal, JournalFails,
       Rename, history
  <2> QED
    BY <1>4, <2>1, FileDoneStep, FileNotDoneStep, FailStep, CopyStep, JournalStep,
       RenameStep DEF File
<1>5. CASE Finish \/ Stop
  <2>1. ~astray
    BY <1>5 DEF Finish, Stop, history
  <2> QED BY <1>5, <2>1, EndSteps
<1> QED BY <1>0, <1>1, <1>2, <1>3, <1>4, <1>5 DEF Next, Run
-----------------------------------------------------------------------------
(* The theorems *)

LEMMA InvariantHolds ==
    ASSUME EncRotationAssumption
    PROVE  Spec => []IInv
<1>1. Init => IInv
  <2>1. ASSUME Init PROVE TypeOK
    <3>1. faults \in 0 .. MaxFaults /\ stops \in 0 .. MaxStops
      BY <2>1 DEF Init, EncRotationAssumption
    <3>2. /\ row \in [Rows -> Keys \cup {"none", "plain"}]
          /\ file \in [Files -> Keys \cup {"none", "plain", "rubbish"}]
          /\ tmp \in [Files -> Keys \cup {"none", "partial", "rubbish"}]
      BY <2>1 DEF Init
    <3> QED BY <2>1, <3>1, <3>2 DEF Init, TypeOK
  <2> QED BY <2>1, InitOrderly DEF IInv
<1>2. IInv /\ [Next]_vars => IInv'
  BY TypeStep, OrderlyStep DEF IInv
<1> QED BY <1>1, <1>2, PTL DEF Spec

\* Every variable holds values of its type.
THEOREM TypeCorrect ==
    ASSUME EncRotationAssumption
    PROVE  Spec => []TypeOK
<1>1. IInv => TypeOK
  BY DEF IInv
<1> QED BY <1>1, InvariantHolds, PTL

\* No stop, failure or repetition of an orderly rotation turns a file to rubbish,
\* unless its journal entry could not be read, or was written by a failed INSERT.
THEOREM NoFileIsRuined ==
    ASSUME EncRotationAssumption
    PROVE  Spec => []NoFileRuined
<1>1. IInv => NoFileRuined
  <2> SUFFICES ASSUME TypeOK, OrderlyInv, ~astray, NEW f \in Good
               PROVE  file[f] # "rubbish"
    BY DEF IInv, NoFileRuined, Good, Excepted
  <2>1. CASE under = {}
    BY <2>1, NotKeys DEF OrderlyInv, DataInv, Settled, TypeOK
  <2>2. ASSUME NEW o \in Keys, NEW n \in Keys, under = {<<o, n>>} PROVE file[f] # "rubbish"
    BY ZenonT(30), <2>2, NotKeys DEF OrderlyInv, DataInv, Moving
  <2> QED BY <2>1, <2>2 DEF OrderlyInv, DataInv
<1> QED BY <1>1, InvariantHolds, PTL

\* Once an orderly rotation is finished, the server that starts with the new key
\* can read every row and file it was to carry over.
THEOREM FinishedRotationIsReadable ==
    ASSUME EncRotationAssumption
    PROVE  Spec => []FinishedIsReadable
<1>1. IInv => FinishedIsReadable
  BY DEF IInv, OrderlyInv, DataInv, Settled, FinishedIsReadable, Good, Excepted
<1> QED BY <1>1, InvariantHolds, PTL
=============================================================================
