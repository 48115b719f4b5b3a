----------------------------- MODULE FolderWalk -----------------------------
(***************************************************************************)
(* A folder copy or move (application/recursive_transfer): scan, folders,  *)
(* files one by one, and for a move the removal of the source.  A pause    *)
(* keeps the journal for the next attempt, a stop takes back what the walk *)
(* made.  Outside, other programs edit the source and the target.          *)
(*                                                                         *)
(* One row of the queue and its attempts; the target folder holds the      *)
(* files of the walk.  A file stands for its version, a receipt for the    *)
(* exact object: every write has a number of its own.                      *)
(***************************************************************************)
EXTENDS Naturals, Sequences

CONSTANTS
    WalkFiles,     \* how many files the source folder has
    MaxWalks,      \* bound: attempts
    MaxOutside,    \* bound: what other programs do
    MaxEarly       \* bound: cancels sent before the walk registers

ASSUME WalkAssumption ==
    WalkFiles \in Nat /\ MaxWalks \in Nat /\ MaxOutside \in Nat /\ MaxEarly \in Nat

Files == 1 .. WalkFiles
NoFile == [by |-> "nothing", ver |-> 0, n |-> 0]
NoJournal == [done |-> [f \in Files |-> 0], targets |-> [f \in Files |-> NoFile],
              sources |-> [f \in Files |-> 0], created |-> {}, madeDir |-> FALSE,
              inFlight |-> 0, deleting |-> FALSE]

VARIABLES
    wMoving, wPolicy, wRemote, \* the intent: move, existing files, target on a server
    wSrc,       \* the version of each source file, 0 when it is gone
    wDst,       \* the object at each target name
    wDir,       \* whether the target folder stands
    wPc,        \* the stage of the running attempt
    wFile,      \* the file it is on
    wScan,      \* the manifest
    wExisting,  \* names that stood in the target before
    wReceipt,   \* the source receipt of the file it is on
    wErrors, wSkipped, \* counts of the report that decide the outcome
    wJournal,   \* its journal
    wToken, wPause,    \* Control
    wEarly,     \* CANCELLED_BEFORE_START
    wKept,      \* PAUSED
    wWalks, wOutside,  \* attempts, and what others have done
    wRemoved,   \* history: the source version a move has removed
    wStood      \* history: target names that stood before the row began

walkVars == <<wMoving, wPolicy, wRemote, wSrc, wDst, wDir, wPc, wFile, wScan, wExisting,
              wReceipt, wErrors, wSkipped, wJournal, wToken, wPause, wEarly, wKept, wWalks,
              wOutside, wRemoved, wStood>>
intent == <<wMoving, wPolicy, wRemote, wStood>>
disk == <<wSrc, wDst, wDir, wRemoved>>
report == <<wErrors, wSkipped>>
control == <<wToken, wPause, wEarly>>
counts == <<wWalks, wOutside>>
plan == <<wScan, wExisting>>

FileVersions == 0 .. MaxOutside + 1
Objects == [by : {"nothing", "before", "walk", "other"}, ver : FileVersions,
            n : 0 .. MaxOutside + WalkFiles * MaxWalks + 1]

WalkTypeOK ==
    /\ wMoving \in BOOLEAN /\ wRemote \in BOOLEAN
    /\ wPolicy \in {"refuse", "overwrite", "skip"}
    /\ wSrc \in [Files -> FileVersions] /\ wDst \in [Files -> Objects] /\ wDir \in BOOLEAN
    /\ wPc \in {"idle", "scan", "copy", "send", "landed", "verify", "remove", "settle"}
    /\ wFile \in 0 .. WalkFiles + 1 /\ wScan \in [Files -> FileVersions]
    /\ wExisting \subseteq Files /\ wReceipt \in FileVersions
    /\ wErrors \in BOOLEAN /\ wSkipped \in BOOLEAN
    /\ wJournal.inFlight \in Files \cup {0} /\ wJournal.created \subseteq Files
    /\ wToken \in BOOLEAN /\ wPause \in BOOLEAN /\ wEarly \in Seq({"pause", "stop"})
    /\ Len(wKept) <= 1 /\ wWalks \in 0 .. MaxWalks /\ wOutside \in 0 .. MaxOutside
    /\ wRemoved \in [Files -> FileVersions] /\ wStood \subseteq Files

WalkInit ==
    /\ wMoving \in BOOLEAN /\ wRemote \in BOOLEAN /\ ~(wMoving /\ wRemote)
    /\ wPolicy \in {"refuse", "overwrite", "skip"}
    /\ wStood \in SUBSET Files /\ wDir = (wStood # {})
    /\ wSrc = [f \in Files |-> 1]
    /\ wDst = [f \in Files |-> IF f \in wStood THEN [by |-> "before", ver |-> 0, n |-> 0]
                               ELSE NoFile]
    /\ wPc = "idle" /\ wFile = 0 /\ wScan = [f \in Files |-> 0] /\ wExisting = {}
    /\ wReceipt = 0 /\ wErrors = FALSE /\ wSkipped = FALSE /\ wJournal = NoJournal
    /\ wToken = FALSE /\ wPause = FALSE /\ wEarly = <<>> /\ wKept = <<>>
    /\ wWalks = 0 /\ wOutside = 0 /\ wRemoved = [f \in Files |-> 0]
-----------------------------------------------------------------------------
Stamped(f, ver) == [by |-> "walk", ver |-> ver, n |-> (wWalks - 1) * WalkFiles + f]

(* Mutant: a stop takes back what the walk created, whatever it has removed. *)
TakenBackAlways(j) ==
    IF wRemote THEN {} ELSE {f \in j.created : wDst[f] = j.targets[f]}

\* journal::take_back: what the journal made and still vouches for.  On a
\* server what landed stays; once a move deletes its source, everything does.
TakenBack(j) ==
    IF j.deleting \/ wRemote THEN {} ELSE {f \in j.created : wDst[f] = j.targets[f]}

TakeBack(j) ==
    LET left == [f \in Files |-> IF f \in TakenBack(j) THEN NoFile ELSE wDst[f]] IN
    /\ wDst' = left
    /\ wDir' = IF j.madeDir /\ ~j.deleting /\ ~wRemote /\ \A f \in Files : left[f] = NoFile
               THEN FALSE ELSE wDir
    /\ UNCHANGED <<wSrc, wRemoved>>

\* stamps: what the target holds now of the files a pause sent to a server.
Stamps(j) ==
    IF ~wRemote THEN j
    ELSE [j EXCEPT !.targets = [f \in Files |->
            IF j.done[f] # 0 /\ j.targets[f] = NoFile THEN wDst[f] ELSE j.targets[f]]]

\* keep_in: the journal is kept while there is room in the budget of all walks.
KeepJournal(j) == wKept' \in {<<j>>, <<>>}

\* journal::take: the journal leaves the kept ones with the attempt it is for.
TakeJournal(resume) == wKept' = IF resume THEN <<>> ELSE wKept

\* journal::close_connection: nothing can resume it any more; what landed stays.
ForgetKept == wKept' = <<>> /\ UNCHANGED disk

\* wind_down: a pause keeps the journal, a stop takes it back.
WindDown(j, pause) ==
    IF pause THEN KeepJournal(Stamps(j)) /\ UNCHANGED disk ELSE TakeBack(j) /\ wKept' = <<>>

Fail == wPc' = "settle" /\ wErrors' = TRUE

\* An attempt that has ended leaves nothing but its journal.
Forgotten ==
    /\ wScan' = [f \in Files |-> 0] /\ wExisting' = {} /\ wReceipt' = 0
    /\ wErrors' = FALSE /\ wSkipped' = FALSE /\ wToken' = FALSE /\ wPause' = FALSE
-----------------------------------------------------------------------------
\* run_inner up to its first await: an earlier cancel decides for a walk that
\* is not there yet, the first one sent; a resume takes its journal.
StartWalk(resume) ==
    /\ wPc = "idle" /\ wWalks < MaxWalks /\ wWalks' = wWalks + 1
    /\ IF wEarly # <<>>
       THEN /\ wEarly' = <<>> /\ wPc' = "idle" /\ wJournal' = NoJournal
            /\ IF resume /\ wKept # <<>> THEN WindDown(Head(wKept), Head(wEarly) = "pause")
               ELSE UNCHANGED <<disk, wKept>>
       ELSE /\ UNCHANGED <<wEarly, disk>> /\ TakeJournal(resume)
            /\ IF resume /\ wKept = <<>> THEN wPc' = "idle" /\ wJournal' = NoJournal
               ELSE wPc' = "scan" /\ wJournal' = IF resume THEN Head(wKept) ELSE NoJournal
    /\ wFile' = 0 /\ UNCHANGED <<intent, plan, wReceipt, report, wToken, wPause, wOutside>>

\* scan: the source as it is now.
ScanSource == wScan' = wSrc

\* listing of the target: the names that stand there.
Standing == {f \in Files : wDst[f] # NoFile}

\* run_inner: what an earlier attempt delivered must be there as it left it.
DeliveredStands == \A f \in Files : wJournal.done[f] # 0 => wDst[f] = wJournal.targets[f]

\* mkdir: a folder that is there is taken as it is, only a new one is the walk's.
MakeFolder == wDir' = TRUE /\ wJournal' = [wJournal EXCEPT !.madeDir = @ \/ ~wDir]

\* make_directories, after the manifest and the check of earlier deliveries.
ScanAndMakeFolders ==
    /\ wPc = "scan" /\ ScanSource
    /\ UNCHANGED <<intent, wSrc, wDst, wRemoved, wReceipt, wSkipped, control, wKept, counts>>
    /\ \/ /\ wToken \/ ~DeliveredStands
          /\ Fail /\ UNCHANGED <<wDir, wFile, wExisting, wJournal>>
       \/ /\ ~wToken /\ DeliveredStands /\ MakeFolder
          /\ wFile' = 1 /\ wPc' = "copy" /\ UNCHANGED wErrors
          /\ wExisting' = IF wPolicy = "refuse" \/ wJournal'.madeDir THEN {} ELSE Standing

Existed == wFile \notin wJournal.created /\ wFile \in wExisting
Delivered == wJournal.done[wFile] # 0 /\ wJournal.done[wFile] = wScan[wFile]
NextFile == wPc' = "copy" /\ wFile' = wFile + 1

\* copy_files, per file: delivered already, not in the manifest, or skipped.
PassOver ==
    /\ wPc = "copy" /\ wFile \in Files /\ ~wToken
    /\ \/ wScan[wFile] = 0 /\ NextFile /\ UNCHANGED report
       \/ /\ wScan[wFile] # 0 /\ Delivered /\ UNCHANGED wSkipped
          /\ IF wRemote \/ wSrc[wFile] = wJournal.sources[wFile]
             THEN NextFile /\ UNCHANGED wErrors ELSE Fail /\ UNCHANGED wFile
       \/ /\ wScan[wFile] # 0 /\ ~Delivered /\ wPolicy = "skip" /\ Existed
          /\ NextFile /\ wSkipped' = TRUE /\ UNCHANGED wErrors
    /\ UNCHANGED <<intent, disk, plan, wReceipt, wJournal, control, wKept, counts>>

BeginFile ==
    /\ wPc = "copy" /\ wFile \in Files /\ ~wToken
    /\ wScan[wFile] # 0 /\ ~Delivered /\ ~(wPolicy = "skip" /\ Existed)
    /\ wReceipt' = wSrc[wFile]
    /\ IF wSrc[wFile] = 0 THEN Fail /\ UNCHANGED wJournal
       ELSE /\ wPc' = "send" /\ UNCHANGED wErrors
            /\ wJournal' = [wJournal EXCEPT !.done[wFile] = 0, !.inFlight = wFile]
    /\ UNCHANGED <<intent, disk, wFile, plan, wSkipped, control, wKept, counts>>

NameFree == wDst[wFile] = NoFile

\* copy_file: the file lands, refused over another one without "overwrite".
CopyFile ==
    /\ wSrc[wFile] # 0 /\ (NameFree \/ wPolicy = "overwrite")
    /\ wDst' = [wDst EXCEPT ![wFile] = Stamped(wFile, wSrc[wFile])]

\* Whether a file found at the name after a cancel can only be this one.
OursIfFound == IF wRemote THEN wPolicy # "overwrite" ELSE NameFree

\* A copy cut short by a cancel that finds its file landed at a name that was
\* free counts it as delivered.
SendFile ==
    /\ wPc = "send"
    /\ UNCHANGED <<intent, wSrc, wDir, wRemoved, plan, wReceipt, wSkipped, wJournal, control,
                   wKept, counts>>
    /\ \/ /\ CopyFile
          /\ \/ wPc' = "landed" /\ UNCHANGED <<wFile, wErrors>>
             \/ wToken /\ ~OursIfFound /\ NextFile /\ wErrors' = TRUE
       \/ NextFile /\ wErrors' = TRUE /\ UNCHANGED wDst

\* The source must still be what was read; the target is stamped as it stands.
RecordFile ==
    /\ wPc = "landed"
    /\ IF wSrc[wFile] = wReceipt
       THEN /\ NextFile /\ UNCHANGED wErrors
            /\ wJournal' = [wJournal EXCEPT
                    !.done[wFile] = wScan[wFile], !.sources[wFile] = wReceipt, !.inFlight = 0,
                    !.targets[wFile] = IF wRemote THEN NoFile ELSE wDst[wFile],
                    !.created = IF Existed THEN @ ELSE @ \cup {wFile}]
       ELSE Fail /\ UNCHANGED <<wFile, wJournal>>
    /\ wReceipt' = 0 /\ UNCHANGED <<intent, disk, plan, wSkipped, control, wKept, counts>>

\* The loop is over, or stops at the cancel.
EndOfFiles ==
    /\ wPc = "copy" /\ (wFile > WalkFiles \/ wToken)
    /\ IF wErrors \/ wToken \/ (wMoving /\ wSkipped) THEN Fail
       ELSE wPc' = (IF wMoving THEN "verify" ELSE "settle") /\ UNCHANGED wErrors
    /\ UNCHANGED <<intent, disk, wFile, plan, wReceipt, wSkipped, wJournal, control, wKept,
                   counts>>

\* remove_source: the source is scanned again before its first file goes.
VerifySource ==
    /\ wPc = "verify"
    /\ IF wSrc = wScan /\ ~wToken
       THEN /\ wPc' = "remove" /\ wFile' = WalkFiles /\ UNCHANGED wErrors
            /\ wJournal' = [wJournal EXCEPT !.deleting = TRUE]
       ELSE Fail /\ UNCHANGED <<wFile, wJournal>>
    /\ UNCHANGED <<intent, disk, plan, wReceipt, wSkipped, control, wKept, counts>>

\* identity::protect: the object is opened and is still the recorded one.
StillRecorded(f) == wSrc[f] = wJournal.sources[f]

\* remove_local: the protected object goes.
RemoveLocal(f) ==
    /\ wSrc' = [wSrc EXCEPT ![f] = 0] /\ wRemoved' = [wRemoved EXCEPT ![f] = wSrc[f]]

\* A file goes while its copy is held and is the recorded one, and while it is
\* itself still what was copied.
RemoveSourceFile ==
    /\ wPc = "remove"
    /\ IF wFile = 0 THEN wPc' = "settle" /\ UNCHANGED <<wSrc, wRemoved, wFile, wErrors>>
       ELSE IF wScan[wFile] = 0 THEN wFile' = wFile - 1 /\ UNCHANGED <<wSrc, wRemoved, wPc, wErrors>>
       ELSE IF ~wToken /\ wDst[wFile] = wJournal.targets[wFile] /\ StillRecorded(wFile)
       THEN RemoveLocal(wFile) /\ wFile' = wFile - 1 /\ UNCHANGED <<wPc, wErrors>>
       ELSE Fail /\ UNCHANGED <<wSrc, wRemoved, wFile>>
    /\ UNCHANGED <<intent, wDst, wDir, plan, wReceipt, wSkipped, wJournal, control, wKept, counts>>

\* Cut short by the user: kept or taken back.  Otherwise what landed stays.
SettleWalk ==
    /\ wPc = "settle" /\ wPc' = "idle" /\ wJournal' = NoJournal
    /\ IF wErrors /\ wToken THEN WindDown(wJournal, wPause) ELSE UNCHANGED <<disk, wKept>>
    /\ wFile' = 0 /\ Forgotten /\ UNCHANGED <<intent, wEarly, counts>>

\* cancel: a stop overrides a pause, a pause never softens a stop.
CancelWalk(how) ==
    /\ IF wPc = "idle"
       THEN /\ Len(wEarly) < MaxEarly /\ wEarly' = Append(wEarly, how)
            /\ UNCHANGED <<wToken, wPause>>
       ELSE /\ wToken' = TRUE /\ UNCHANGED wEarly
            /\ wPause' = (how = "pause" /\ (wPause \/ ~wToken))
    /\ UNCHANGED <<intent, disk, wPc, wFile, plan, wReceipt, report, wJournal, wKept, counts>>

\* discard: a stop of the paused row.
DiscardWalk ==
    /\ wPc = "idle" /\ wKept # <<>> /\ wKept' = <<>> /\ TakeBack(Head(wKept))
    /\ UNCHANGED <<intent, wPc, wFile, plan, wReceipt, report, wJournal, control, counts>>

\* close_connection: a running walk is stopped, a paused one loses its journal.
CloseWalkConnection ==
    /\ wRemote /\ (wPc # "idle" \/ wKept # <<>>) /\ ForgetKept
    /\ wToken' = (wPc # "idle") /\ wPause' = FALSE
    /\ UNCHANGED <<intent, wPc, wFile, plan, wReceipt, report, wJournal, wEarly, counts>>
-----------------------------------------------------------------------------
\* Other programs.  They leave the name of a file alone from its copy to its
\* stamp: in that window the walk would take what they write for its own.
OutsideWrite(f) ==
    /\ wOutside < MaxOutside /\ wOutside' = wOutside + 1
    /\ wDir /\ ~(wPc \in {"send", "landed"} /\ wFile = f)
    /\ wRemote => wPc = "idle"
    /\ wDst' = [wDst EXCEPT ![f] =
            [by |-> "other", ver |-> 0, n |-> MaxWalks * WalkFiles + wOutside']]
    /\ UNCHANGED <<intent, wSrc, wDir, wRemoved, wPc, wFile, plan, wReceipt, report, wJournal,
                   control, wKept, wWalks>>

EditSource(f) ==
    /\ wOutside < MaxOutside /\ wOutside' = wOutside + 1
    /\ wSrc' = [wSrc EXCEPT ![f] = wOutside' + 1]
    /\ UNCHANGED <<intent, wDst, wDir, wRemoved, wPc, wFile, plan, wReceipt, report, wJournal,
                   control, wKept, wWalks>>

WalkNext ==
    \/ \E resume \in BOOLEAN : StartWalk(resume)
    \/ ScanAndMakeFolders \/ PassOver \/ BeginFile \/ SendFile \/ RecordFile \/ EndOfFiles
    \/ VerifySource \/ RemoveSourceFile \/ SettleWalk \/ DiscardWalk \/ CloseWalkConnection
    \/ \E how \in {"pause", "stop"} : CancelWalk(how)
    \/ \E f \in Files : OutsideWrite(f) \/ EditSource(f)

WalkSpec == WalkInit /\ [][WalkNext]_walkVars
-----------------------------------------------------------------------------
(* A move never loses a file: an original goes only while the target holds *)
(* the walk's copy of that very version, and from then on only another     *)
(* program changes that copy.  A stop after the first removal takes        *)
(* nothing back, nor does a later attempt (remove_source, take_back).  A   *)
(* file at the target that is not the walk's it changes only where the     *)
(* user asked to overwrite, and a name that stood before is never emptied. *)
WalkLosesNobodysFile ==
    [][\A f \in Files :
        /\ wSrc'[f] = 0 /\ wSrc[f] # 0 => wDst[f].by = "walk" /\ wDst[f].ver = wSrc[f]
        /\ wRemoved[f] # 0 /\ wSrc[f] = 0 =>
                wDst'[f] = wDst[f] \/ wDst'[f].by = "other"
        /\ wDst'[f] # wDst[f] /\ wDst[f].by \in {"before", "other"} =>
                wDst'[f].by = "other" \/ (wPolicy = "overwrite" /\ wDst'[f].by = "walk")
        /\ wDst'[f] # wDst[f] /\ wDst'[f] = NoFile => f \notin wStood]_walkVars
=============================================================================
