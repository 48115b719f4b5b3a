--------------------------- MODULE StoredDocument ---------------------------
(***************************************************************************)
(* One JSON document of the data folder (src-tauri/src/store/storage.rs),  *)
(* saved by read-modify-write under its lock, read without it, and damaged *)
(* by what is not FTPeach.  A `strict' document is known_hosts.json, which *)
(* has a fail-closed reader of its own (store/known_hosts.rs).             *)
(*                                                                         *)
(* A content is the set of edits its bytes hold and how they decode:       *)
(*   good   an envelope this version reads                                 *)
(*   shape  an envelope whose payload is not the document's type           *)
(*   torn   not JSON;      newer   a schema of a newer FTPeach             *)
(* Any read of an existing file may be refused, by whatever else holds it. *)
(***************************************************************************)
EXTENDS Naturals, Sequences, SequencesExt

CONSTANTS Savers, Readers, MaxEdits, MaxDamages, CopiesKept

Nobody == "nobody"

ASSUME StoreAssumption == /\ MaxEdits \in Nat
                          /\ MaxDamages \in Nat
                          /\ CopiesKept \in Nat \ {0}
                          /\ Nobody \notin Savers

VARIABLES
    strict,      \* which kind of document this is
    live,        \* the document's file
    lastGood,    \* its .last-good.bak
    copies,      \* its .corrupt-*.bak files, newest first
    issue,       \* storage_issues of its path
    storeLock,   \* who holds write_locks of its path
    savePc, saveData,  \* where each save is, and the edits it is to write
    peeked,      \* what a reader without the lock has read and not yet judged
    edits, damages,
    masked,      \* history: a refusal noted in this run was noted over
    overwritten  \* history: the edits such a save has left out

storeVars == <<strict, live, lastGood, copies, issue, storeLock, savePc,
               saveData, peeked, edits, damages, masked, overwritten>>
docFiles == <<live, lastGood, copies>>
notes == <<issue, masked>>

Forms == {"good", "shape", "torn", "newer"}
Absent == [data |-> {}, form |-> "absent"]
Stored == [data: SUBSET (1..MaxEdits), form: Forms]

StoreTypeOK ==
    /\ strict \in BOOLEAN
    /\ live \in Stored \cup {Absent}
    /\ lastGood \in Stored \cup {Absent}
    /\ copies \in Seq(Stored) /\ Len(copies) <= CopiesKept
    /\ issue \in {"none", "Recovered", "Replaced", "Unreadable", "Newer",
                  "BackupNotUpdated"}
    /\ storeLock \in Savers \cup {Nobody}
    /\ savePc \in [Savers -> {"idle", "locked", "loaded", "cleared", "staged", "backedUp"}]
    /\ saveData \in [Savers -> SUBSET (1..MaxEdits)]
    /\ peeked \in [Readers -> Stored \cup {Absent}]
    /\ edits \in 0..MaxEdits /\ damages \in 0..MaxDamages
    /\ masked \in BOOLEAN /\ overwritten \subseteq 1..MaxEdits

StoreInit ==
    /\ strict \in BOOLEAN
    /\ live = Absent /\ lastGood = Absent /\ copies = <<>>
    /\ issue = "none" /\ storeLock = Nobody
    /\ savePc = [s \in Savers |-> "idle"]
    /\ saveData = [s \in Savers |-> {}]
    /\ peeked = [r \in Readers |-> Absent]
    /\ edits = 0 /\ damages = 0 /\ masked = FALSE /\ overwritten = {}

SaveTo(s, pc) == savePc' = [savePc EXCEPT ![s] = pc]
SaveEnds(s) == /\ SaveTo(s, "idle")
               /\ storeLock' = Nobody
               /\ saveData' = [saveData EXCEPT ![s] = {}]

-----------------------------------------------------------------------------
(* Reading. *)

\* archive_corrupt: names follow content, so the same bytes are kept once.
Archived(content) ==
    IF Contains(copies, content) THEN copies
    ELSE LET all == <<content>> \o copies
         IN  SubSeq(all, 1, IF Len(all) < CopiesKept THEN Len(all) ELSE CopiesKept)

\* storage_issue: one issue a file, the last one noted.
Note(i) == /\ issue' = i
           /\ masked' = (masked \/ (issue = "Unreadable" /\ i # "Unreadable"))

\* Mutant: damaged bytes are let go when their copy fails.
JudgeAnyway(content, kept) ==
    /\ copies' = IF kept THEN Archived(content) ELSE copies
    /\ Note(IF lastGood.form = "good" THEN "Recovered" ELSE "Replaced")

\* read_json on bytes that do not decode as the document: they are copied
\* aside (`kept', or the copy failed), and the backup is tried.  A backup
\* that decodes makes the issue Recovered whichever way the copy went.
Judge(content, kept) ==
    /\ copies' = IF kept THEN Archived(content) ELSE copies
    /\ IF lastGood.form = "good"
       THEN issue' = "Recovered" /\ masked' = (masked \/ ~kept \/ issue = "Unreadable")
       ELSE Note(IF kept THEN "Replaced" ELSE "Unreadable")

\* What read_json answers for `content', without what it notes.
Answer(content) ==
    IF content.form = "good" THEN content.data
    ELSE IF content.form # "newer" /\ lastGood.form = "good" THEN lastGood.data
    ELSE {}

\* read_json: the content read, judged, and the issue noted.
ReadJson(content) ==
    \/ /\ content.form = "good"
       /\ UNCHANGED <<copies, notes>>
    \/ /\ content.form = "newer" /\ Note("Newer")
       /\ UNCHANGED copies
    \/ /\ content.form \in {"shape", "torn"}
       /\ \E kept \in BOOLEAN : Judge(content, kept)
    \/ /\ content.form = "absent"
       /\ IF lastGood = Absent THEN UNCHANGED notes
          ELSE Note(IF lastGood.form = "good" THEN "Recovered" ELSE "Replaced")
       /\ UNCHANGED copies

\* read_trust_store: only a file that decodes is an answer; none counts as an
\* empty store only where there was never one.
TrustAnswers == \/ live.form = "good"
                \/ live = Absent /\ lastGood = Absent

\* A settings_get, sites_list or tabs_get: no lock, so a save may come
\* between its read and what it does about it.
Peek(r) ==
    /\ ~strict /\ live.form \notin {"good", "absent"} /\ peeked[r] = Absent
    /\ peeked' = [peeked EXCEPT ![r] = live]
    /\ UNCHANGED <<strict, docFiles, notes, storeLock, savePc, saveData, edits, damages, overwritten>>

JudgePeeked(r) ==
    /\ peeked[r] # Absent
    /\ ReadJson(peeked[r])
    /\ peeked' = [peeked EXCEPT ![r] = Absent]
    /\ UNCHANGED <<strict, live, lastGood, storeLock, savePc, saveData, edits, damages, overwritten>>

-----------------------------------------------------------------------------
(* Saving: set_settings, save_site, set_tabs, pin_or_verify and the others *)
(* take the lock, read, change what they read and call write_json.         *)

TakeStoreLock(s) ==
    /\ savePc[s] = "idle" /\ storeLock = Nobody
    /\ storeLock' = s
    /\ SaveTo(s, "locked")
    /\ UNCHANGED <<strict, docFiles, notes, saveData, peeked, edits, damages, overwritten>>

LoadDocument(s) ==
    /\ savePc[s] = "locked" /\ edits < MaxEdits
    /\ \E refused \in BOOLEAN :
        /\ refused => live # Absent
        /\ IF strict /\ (refused \/ ~TrustAnswers)
           THEN SaveEnds(s) /\ UNCHANGED <<copies, notes, edits>>
           ELSE /\ IF strict THEN UNCHANGED <<copies, notes>>
                   ELSE IF refused THEN Note("Unreadable") /\ UNCHANGED copies
                   ELSE ReadJson(live)
                /\ edits' = edits + 1
                /\ saveData' = [saveData EXCEPT ![s] =
                      (IF refused THEN {} ELSE Answer(live)) \cup {edits'}]
                /\ SaveTo(s, "loaded")
                /\ UNCHANGED storeLock
    /\ UNCHANGED <<strict, live, lastGood, peeked, damages, overwritten>>

\* ensure_writable looks at the file again.  It decodes the envelope only: a
\* payload of the wrong shape is nothing it sees.  It refuses what is noted
\* Unreadable or Newer, a newer schema, torn bytes it cannot copy, and a file
\* it is not let to read.
EnsureWritable(s) ==
    /\ savePc[s] = "loaded"
    /\ \/ /\ issue \notin {"Unreadable", "Newer"}
          /\ \/ live.form \in {"good", "shape", "absent"} /\ UNCHANGED copies
             \/ live.form = "torn" /\ copies' = Archived(live)
          /\ SaveTo(s, "cleared")
          /\ UNCHANGED <<storeLock, saveData>>
       \/ /\ issue \in {"Unreadable", "Newer"} \/ live # Absent
          /\ SaveEnds(s)
          /\ UNCHANGED copies
    /\ UNCHANGED <<strict, live, lastGood, notes, peeked, edits, damages, overwritten>>

WriteTemporary(s) ==
    /\ savePc[s] = "cleared"
    /\ \/ SaveTo(s, "staged") /\ UNCHANGED <<storeLock, saveData>>
       \/ SaveEnds(s)
    /\ UNCHANGED <<strict, docFiles, notes, peeked, edits, damages, overwritten>>

\* The previous content becomes the backup only if it still decodes as the
\* document; a backup that cannot be written does not stop the save.
KeepPrevious(s) ==
    /\ savePc[s] = "staged"
    /\ \/ live.form = "good" /\ lastGood' = live /\ UNCHANGED notes
       \/ live.form = "good" /\ Note("BackupNotUpdated") /\ UNCHANGED lastGood
       \/ live.form # "good" /\ UNCHANGED <<lastGood, notes>>
    /\ SaveTo(s, "backedUp")
    /\ UNCHANGED <<strict, live, copies, storeLock, saveData, peeked, edits, damages, overwritten>>

RenameIntoPlace(s) ==
    /\ savePc[s] = "backedUp"
    /\ \/ UNCHANGED <<live, overwritten>>
       \/ /\ live' = [data |-> saveData[s], form |-> "good"]
          /\ overwritten' =
                overwritten \cup IF masked THEN (live.data \cup lastGood.data) \ saveData[s]
                                    ELSE {}
    /\ SaveEnds(s)
    /\ UNCHANGED <<strict, lastGood, copies, notes, peeked, edits, damages>>

-----------------------------------------------------------------------------
(* What is not a save. *)

\* The application ends or crashes; only files outlive it.
Restart ==
    /\ savePc' = [s \in Savers |-> "idle"]
    /\ saveData' = [s \in Savers |-> {}]
    /\ storeLock' = Nobody /\ issue' = "none" /\ masked' = FALSE
    /\ peeked' = [r \in Readers |-> Absent]
    /\ UNCHANGED <<strict, docFiles, edits, damages, overwritten>>

\* A disk, an editor or a newer FTPeach leaves something else in the file,
\* or takes it away.  A newer FTPeach is not beside a running one.
DamageDocument ==
    /\ damages < MaxDamages /\ live.form = "good"
    /\ damages' = damages + 1
    /\ \/ \E form \in {"shape", "torn"} : live' = [live EXCEPT !.form = form]
       \/ /\ \A s \in Savers : savePc[s] = "idle"
          /\ live' = [live EXCEPT !.form = "newer"]
       \/ live' = Absent
    /\ UNCHANGED <<strict, lastGood, copies, notes, storeLock, savePc, saveData,
                   peeked, edits, overwritten>>

StoreStep ==
    \/ \E s \in Savers : \/ TakeStoreLock(s)
                         \/ LoadDocument(s)
                         \/ EnsureWritable(s)
                         \/ WriteTemporary(s)
                         \/ KeepPrevious(s)
                         \/ RenameIntoPlace(s)
    \/ \E r \in Readers : Peek(r) \/ JudgePeeked(r)
    \/ Restart

StoreNext == StoreStep \/ DamageDocument
StoreSpec == StoreInit /\ [][StoreNext]_storeVars

-----------------------------------------------------------------------------
(* Properties. *)

HeldSomewhere == live.data \cup lastGood.data
                 \cup UNION {copies[i].data : i \in DOMAIN copies}

\* Nothing FTPeach itself does loses a saved edit: once in the document's
\* file it stays in the file, in its last-good backup or in a copy of damaged
\* bytes, whatever else saves, reads, fails or crashes in between.  One case is
\* left out because the code does lose the edit: storage_issue keeps one issue
\* per file, so an Unreadable (the read was refused, or the copy failed) is
\* noted over by the backup's Recovered and by a reader that judges older bytes
\* late, and the next save is let through (docs/storage.md:28 says such a file
\* stays read-only).  What that save leaves out may still be in the backup, and
\* goes with the one after it, of a later run perhaps.
\* Of a newer FTPeach's file nothing is ever written over, and a trust store
\* (known_hosts.json) never goes back to an earlier state: a pin once in its
\* file is in it after every save, with two connections pinning at once, and
\* no damage makes FTPeach start it afresh or take up its backup.
SavesLoseNothing ==
    [][ StoreStep => /\ HeldSomewhere \subseteq HeldSomewhere' \cup overwritten'
                     /\ live.form = "newer" => live' = live
                     /\ strict => live.data \subseteq live'.data ]_storeVars
=============================================================================
