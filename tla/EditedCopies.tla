---------------------------- MODULE EditedCopies ----------------------------
(***************************************************************************)
(* Copies of remote files opened in an external editor, from the download  *)
(* to their upload or to the recovery folder (src-tauri/src/local_fs/      *)
(* open_with.rs, edit_recovery.rs, verified_move.rs, unix_file.rs,         *)
(* commands/open_with.rs, runtime/shutdown.rs, and the questions asked in  *)
(* src/features/open-with).  One session directory is followed from the    *)
(* run that fills it to the run that ends it; the editor outlives both.    *)
(* A revision is the number of the save that made it; two saves never have *)
(* the same modification time and length.                                  *)
(***************************************************************************)
EXTENDS Naturals, FiniteSets

CONSTANTS Copies, MaxSaves, MaxRuns   \* a bound on saves of a copy, and on runs

\* Revision 1 is the download, so a save needs a second.
ASSUME CopiesAssumption == IsFiniteSet(Copies) /\ MaxSaves \in Nat \ {0, 1} /\ MaxRuns \in Nat

VARIABLES
    copyFile,    \* the copy: its revision, None if it is not there
    folders,     \* copies whose own folder in the session directory is there
    editing,     \* copies an editor was opened on
    onServer,    \* what the server holds
    rescued,     \* the revisions in recovered-edits
    synced,      \* the registry: CopyRecord.synced, or NoCopyRecord
    manifest,    \* copies.json, as of its last write
    polls,       \* copies being watched
    seen,        \* the watcher's last signature
    ask,         \* the revision the window asks about, None if none waits
    sending,     \* the revision an upload was answered for, None if none runs
    sent,        \* the revision its transfer read, None before it did
    app,         \* "running", "closing", "down"
    left,        \* the session is of an earlier run
    collector,   \* collect: "no", "copies", "loose", "empty", "folders"
    todo, snap,  \* its files to do and the manifest it read
    moving,      \* the copy it moves to another volume, and how far
    denies,      \* an open handle keeps writers out, as on Windows
    latest,      \* history: the last revision saved in the editor
    discarded,   \* history: what the user discarded
    runs

copyVars == <<copyFile, folders, editing, onServer, rescued, synced, manifest, polls, seen,
              ask, sending, sent, app, left, collector, todo, snap, moving, denies, latest,
              discarded, runs>>
questions == <<polls, seen, ask, sending, sent>>
collecting == <<collector, todo, snap, moving>>
frozen == <<denies, latest, discarded, runs>>

None == 0
Revisions == 0..MaxSaves
NoCopyRecord == MaxSaves + 1
Unrecorded == [c \in Copies |-> NoCopyRecord]
NoneYet == [c \in Copies |-> None]
StillMove == [of |-> Copies, data |-> None, published |-> FALSE]

CopiesTypeOK ==
    /\ copyFile \in [Copies -> Revisions] /\ folders \subseteq Copies /\ editing \subseteq Copies
    /\ onServer \in [Copies -> Revisions] /\ rescued \in [Copies -> SUBSET Revisions]
    /\ synced \in [Copies -> 0..NoCopyRecord] /\ manifest \in [Copies -> 0..NoCopyRecord]
    /\ polls \subseteq Copies /\ seen \in [Copies -> 0..NoCopyRecord]
    /\ ask \in [Copies -> Revisions] /\ sending \in [Copies -> Revisions]
    /\ sent \in [Copies -> Revisions] /\ latest \in [Copies -> Revisions]
    /\ app \in {"running", "closing", "down"} /\ left \in BOOLEAN /\ denies \in BOOLEAN
    /\ collector \in {"no", "copies", "loose", "empty", "folders"}
    /\ todo \subseteq Copies /\ snap \in [Copies -> 0..NoCopyRecord]
    /\ moving.data \in Revisions /\ moving.published \in BOOLEAN
    /\ discarded \in [Copies -> SUBSET Revisions] /\ runs \in 0..MaxRuns

CopiesInit ==
    /\ copyFile = NoneYet /\ folders = {} /\ editing = {} /\ latest = NoneYet
    /\ onServer = [c \in Copies |-> 1] /\ rescued = [c \in Copies |-> {}]
    /\ synced = Unrecorded /\ manifest = Unrecorded
    /\ polls = {} /\ seen = Unrecorded /\ ask = NoneYet /\ sending = NoneYet /\ sent = NoneYet
    /\ app = "running" /\ left = FALSE /\ denies \in BOOLEAN
    /\ collector = "no" /\ todo = {} /\ snap = Unrecorded /\ moving = StillMove
    /\ discarded = [c \in Copies |-> {}] /\ runs = 0

UsedBy(c) == app = "running" /\ ~left /\ c \in folders
\* persist: a write that fails is only logged.
Persisted(record) == manifest' = record \/ UNCHANGED manifest

\* open_with_start: the download into a folder of its own; then the record, and
\* the editor.  The launch that fails forgets the copy and removes it.
DownloadCopy(c) ==
    /\ app = "running" /\ ~left /\ c \notin folders /\ latest[c] = None
    /\ folders' = folders \cup {c} /\ copyFile' = [copyFile EXCEPT ![c] = onServer[c]]
    /\ UNCHANGED <<editing, onServer, rescued, synced, manifest, questions, app, left,
                   collecting, frozen>>
Register(c) ==
    /\ UsedBy(c) /\ synced[c] = NoCopyRecord /\ copyFile[c] # None
    /\ \E signature \in {copyFile[c], None} :     \* None: it could not be read
          synced' = [synced EXCEPT ![c] = signature]
    /\ Persisted(synced')
    /\ UNCHANGED <<copyFile, folders, editing, onServer, rescued, questions, app, left,
                   collecting, frozen>>
Launch(c) ==
    /\ UsedBy(c) /\ synced[c] # NoCopyRecord /\ c \notin editing
    /\ \/ /\ editing' = editing \cup {c}
          /\ polls' = polls \cup {c} /\ seen' = [seen EXCEPT ![c] = synced[c]]
          /\ UNCHANGED <<copyFile, folders, synced, manifest>>
       \/ /\ copyFile' = [copyFile EXCEPT ![c] = None] /\ folders' = folders \ {c}
          /\ synced' = [synced EXCEPT ![c] = NoCopyRecord] /\ Persisted(synced')
          /\ UNCHANGED <<editing, polls, seen>>
    /\ UNCHANGED <<onServer, rescued, ask, sending, sent, app, left, collecting, frozen>>

\* The editor saves over the name, whatever became of FTPeach: not while the
\* handle of a move keeps it out, and not once its folder is gone.
EditorSaves(c) ==
    /\ c \in editing /\ c \in folders /\ latest[c] < MaxSaves
    /\ ~(denies /\ moving.of = {c})
    /\ latest' = [latest EXCEPT ![c] = IF latest[c] = None THEN 2 ELSE latest[c] + 1]
    /\ copyFile' = [copyFile EXCEPT ![c] = latest'[c]]
    /\ UNCHANGED <<folders, editing, onServer, rescued, synced, manifest, questions, app, left,
                   collecting, denies, discarded, runs>>

\* The watcher's tick, and the question the window opens or replaces.
PollCopy(c) ==
    /\ c \in polls /\ app = "running" /\ copyFile[c] \notin {None, seen[c]}
    /\ seen' = [seen EXCEPT ![c] = copyFile[c]] /\ ask' = [ask EXCEPT ![c] = copyFile[c]]
    /\ UNCHANGED <<copyFile, folders, editing, onServer, rescued, synced, manifest, polls,
                   sending, sent, app, left, collecting, frozen>>
\* The answer: upload, or not now.  A copy has one upload at a time.
AnswerQuestion(c) ==
    /\ ask[c] # None /\ sending[c] = None /\ app = "running"
    /\ ask' = [ask EXCEPT ![c] = None]
    /\ sending' = [sending EXCEPT ![c] = ask[c]] \/ UNCHANGED sending
    /\ UNCHANGED <<copyFile, folders, editing, onServer, rescued, synced, manifest, polls, seen,
                   sent, app, left, collecting, frozen>>
UploadReads(c) ==
    /\ sending[c] # None /\ sent[c] = None /\ app # "down" /\ copyFile[c] # None
    /\ sent' = [sent EXCEPT ![c] = copyFile[c]]
    /\ UNCHANGED <<copyFile, folders, editing, onServer, rescued, synced, manifest, polls, seen,
                   ask, sending, app, left, collecting, frozen>>
\* It lands, or it fails and is asked about again unless a newer one is.
UploadLands(c) ==
    /\ sent[c] \notin {None, onServer[c]} /\ app # "down"
    /\ onServer' = [onServer EXCEPT ![c] = sent[c]]
    /\ UNCHANGED <<copyFile, folders, editing, rescued, synced, manifest, questions, app, left,
                   collecting, frozen>>
UploadFails(c) ==
    /\ sending[c] # None /\ sent[c] # onServer[c]
    /\ sending' = [sending EXCEPT ![c] = None] /\ sent' = [sent EXCEPT ![c] = None]
    /\ ask' = [ask EXCEPT ![c] = IF c \in polls /\ @ = None THEN sending[c] ELSE @]
    /\ UNCHANGED <<copyFile, folders, editing, onServer, rescued, synced, manifest, polls, seen,
                   app, left, collecting, frozen>>

\* Mutant: mark_synced records the copy as it is now.
MarksCurrent(c) == copyFile[c]
\* mark_synced: the revision the question was about.
Marks(c) == sending[c]
MarkSynced(c) ==
    /\ sending[c] # None /\ sent[c] = onServer[c] /\ app # "down"
    /\ synced' = [synced EXCEPT ![c] = IF @ = NoCopyRecord THEN @ ELSE Marks(c)]
    /\ Persisted(synced')
    /\ sending' = [sending EXCEPT ![c] = None] /\ sent' = [sent EXCEPT ![c] = None]
    /\ UNCHANGED <<copyFile, folders, editing, onServer, rescued, polls, seen, ask, app, left,
                   collecting, frozen>>

\* The pane's connection is gone.
StopWatching(c) ==
    /\ c \in polls /\ polls' = polls \ {c} /\ ask' = [ask EXCEPT ![c] = None]
    /\ UNCHANGED <<copyFile, folders, editing, onServer, rescued, synced, manifest, seen,
                   sending, sent, app, left, collecting, frozen>>

\* wind_down stops every watcher and collects; the process ends when that is
\* done, at its deadline, or at once in a crash.
Close ==
    /\ app = "running" /\ ~left /\ app' = "closing" /\ polls' = {}
    /\ UNCHANGED <<copyFile, folders, editing, onServer, rescued, synced, manifest, seen, ask,
                   sending, sent, left, collecting, frozen>>
Stopped == collector' = "no" /\ todo' = {} /\ snap' = Unrecorded /\ moving' = StillMove
ProcessEnds ==
    /\ app # "down" /\ app' = "down" /\ left' = TRUE
    /\ synced' = Unrecorded /\ polls' = {} /\ seen' = Unrecorded
    /\ ask' = NoneYet /\ sending' = NoneYet /\ sent' = NoneYet /\ Stopped
    /\ UNCHANGED <<copyFile, folders, editing, onServer, rescued, manifest, frozen>>
NextRun ==
    /\ app = "down" /\ runs < MaxRuns /\ app' = "running" /\ runs' = runs + 1
    /\ UNCHANGED <<copyFile, folders, editing, onServer, rescued, synced, manifest, questions,
                   left, collecting, denies, latest, discarded>>

\* collect, at the end of the run or (collect_abandoned) in the next.
StartCollecting ==
    /\ collector = "no" /\ folders # {} /\ (app = "closing" \/ (app = "running" /\ left))
    /\ collector' = "copies" /\ snap' = manifest /\ UNCHANGED moving
    /\ todo' = {c \in Copies : manifest[c] # NoCopyRecord}
    /\ UNCHANGED <<copyFile, folders, editing, onServer, rescued, synced, manifest, questions,
                   app, left, frozen>>
HeldByFiles(c) ==                                      \* the collector is done with c
    /\ todo' = todo \ {c} /\ moving' = StillMove /\ UNCHANGED <<collector, snap>>

\* remove_if_clean, or preserve: one rename, or a move to another volume, or an
\* error, which leaves the copy and ends the collection.
CollectCopy(c) ==
    /\ c \in todo /\ moving = StillMove
    /\ \/ /\ copyFile[c] = None \/ (collector = "copies" /\ copyFile[c] = snap[c])
          /\ copyFile' = [copyFile EXCEPT ![c] = None] /\ HeldByFiles(c) /\ UNCHANGED rescued
       \/ /\ copyFile[c] # None /\ ~(collector = "copies" /\ copyFile[c] = snap[c])
          /\ \/ /\ rescued' = [rescued EXCEPT ![c] = @ \cup {copyFile[c]}]
                /\ copyFile' = [copyFile EXCEPT ![c] = None] /\ HeldByFiles(c)
             \/ /\ moving' = [of |-> {c}, data |-> copyFile[c], published |-> FALSE]
                /\ UNCHANGED <<collector, todo, snap, copyFile, rescued>>
             \/ Stopped /\ UNCHANGED <<copyFile, rescued>>
    /\ UNCHANGED <<folders, editing, onServer, synced, manifest, questions, app, left, frozen>>
\* copy_verify_delete: the copy is published if the source is still what was
\* read, and the source is removed if it still is then.
PublishMove(c) ==
    /\ moving.of = {c} /\ ~moving.published
    /\ IF copyFile[c] = moving.data
         THEN /\ rescued' = [rescued EXCEPT ![c] = @ \cup {moving.data}]
              /\ moving' = [moving EXCEPT !.published = TRUE]
              /\ UNCHANGED <<collector, todo, snap>>
         ELSE Stopped /\ UNCHANGED rescued
    /\ UNCHANGED <<copyFile, folders, editing, onServer, synced, manifest, questions, app, left,
                   frozen>>
RemoveMoved(c) ==
    /\ moving.of = {c} /\ moving.published
    /\ \/ /\ copyFile[c] = moving.data /\ HeldByFiles(c)
          /\ copyFile' = [copyFile EXCEPT ![c] = None]
       \/ Stopped /\ UNCHANGED copyFile
    /\ UNCHANGED <<folders, editing, onServer, rescued, synced, manifest, questions, app, left,
                   frozen>>

\* Then every file left in a folder, recorded or not; then the manifest is
\* emptied; then the folders go.
CollectLoose ==
    /\ collector = "copies" /\ todo = {} /\ collector' = "loose"
    /\ todo' = {c \in folders : copyFile[c] # None} /\ UNCHANGED <<snap, moving>>
    /\ UNCHANGED <<copyFile, folders, editing, onServer, rescued, synced, manifest, questions,
                   app, left, frozen>>
EmptyManifest ==
    /\ collector = "loose" /\ todo = {}
    /\ \/ manifest' = Unrecorded /\ collector' = "folders" /\ UNCHANGED <<todo, snap, moving>>
       \/ Stopped /\ UNCHANGED manifest
    /\ UNCHANGED <<copyFile, folders, editing, onServer, rescued, synced, questions, app, left,
                   frozen>>
\* Mutant: the folder is swept with what is in it.
Swept(c) == collector = "folders" /\ c \in folders
\* remove_dir refuses a folder with a file in it, which ends the collection.
Removable(c) == collector = "folders" /\ c \in folders /\ copyFile[c] = None
RemoveFolder(c) ==
    /\ Removable(c) /\ folders' = folders \ {c} /\ copyFile' = [copyFile EXCEPT ![c] = None]
    /\ UNCHANGED <<editing, onServer, rescued, synced, manifest, questions, app, left,
                   collecting, frozen>>
EndCollecting ==
    /\ collector = "folders" /\ (\A c \in folders : ~Removable(c)) /\ Stopped
    /\ UNCHANGED <<copyFile, folders, editing, onServer, rescued, synced, manifest, questions,
                   app, left, frozen>>

\* open_with_discard_recovered_edits: everything there is.
Discard ==
    /\ app = "running" /\ \E c \in Copies : rescued[c] # {}
    /\ discarded' = [c \in Copies |-> discarded[c] \cup rescued[c]]
    /\ rescued' = [c \in Copies |-> {}]
    /\ UNCHANGED <<copyFile, folders, editing, onServer, synced, manifest, questions, app, left,
                   collecting, denies, latest, runs>>

CopiesNext ==
    \/ \E c \in Copies :
          \/ DownloadCopy(c) \/ Register(c) \/ Launch(c) \/ EditorSaves(c) \/ PollCopy(c)
          \/ AnswerQuestion(c) \/ UploadReads(c) \/ UploadLands(c) \/ UploadFails(c)
          \/ MarkSynced(c) \/ StopWatching(c) \/ CollectCopy(c) \/ PublishMove(c)
          \/ RemoveMoved(c) \/ RemoveFolder(c)
    \/ Close \/ ProcessEnds \/ NextRun \/ StartCollecting \/ CollectLoose \/ EmptyManifest
    \/ EndCollecting \/ Discard

CopiesSpec == CopiesInit /\ [][CopiesNext]_copyVars

\* The last revision the user saved in the editor is in the copy, in the
\* recovery folder or on the server, or the user discarded it: whatever was
\* asked, sent, marked or failed to be written down, wherever the process ended,
\* and though the editor goes on saving while its session is collected
\* (edit_recovery.rs:1-5, open_with.rs:1-5).
SavedEditIsHeld ==
    \A c \in Copies : latest[c] # None =>
        latest[c] \in {copyFile[c], onServer[c]} \cup rescued[c] \cup discarded[c]
=============================================================================
