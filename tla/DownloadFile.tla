---------------------------- MODULE DownloadFile ----------------------------
(***************************************************************************)
(* The local side of a download (protocol/transfer_file.rs) under every    *)
(* backend's download_file: a partial beside the destination, a record     *)
(* that says which remote file it is of, the second question to the server *)
(* and the commit.  The file on the server changes at any time; a pause, a *)
(* stop or the end of the application cuts the attempt off at any await.   *)
(*                                                                         *)
(* One destination: its reservation keeps a second download of it out.  A  *)
(* file is the sequence of the remote versions its pieces came from.       *)
(***************************************************************************)
EXTENDS Naturals, Sequences

CONSTANTS
    Pieces,         \* pieces of the remote file, in every version
    MaxDownloads,   \* bound: attempts, each with an artifact of its own
    MaxRemoteEdits  \* bound: changes of the remote file

ASSUME DownloadAssumption == Pieces \in Nat \ {0} /\ MaxDownloads \in Nat /\ MaxRemoteEdits \in Nat

NoContent == <<0>>  \* no file; 0 is no version
NoRecord == [of |-> 0, artifact |-> 0]

VARIABLES
    rVersion,   \* the file on the server
    dest,       \* the destination
    parts,      \* the partials, by artifact
    resumeRec,  \* the resume record beside the destination
    dPc,        \* where the attempt is
    dOver,      \* overwrite_allowed
    dArt, dStart,   \* its artifact, and where it began in it
    dSeen,      \* what the server said before: a version, 0 for none
    dTries,
    dUnasked    \* history: committed without the server's second answer

downloadVars == <<rVersion, dest, parts, resumeRec, dPc, dOver, dArt, dStart, dSeen, dTries,
                  dUnasked>>
beside == <<parts, resumeRec>>
attempt == <<dOver, dArt, dStart, dSeen, dTries>>

Contents == UNION {[1 .. n -> 0 .. MaxRemoteEdits + 1] : n \in 0 .. Pieces}
Artifacts == 1 .. MaxDownloads

DownloadTypeOK ==
    /\ rVersion \in 1 .. MaxRemoteEdits + 1 /\ dest \in Contents
    /\ parts \in [Artifacts -> Contents]
    /\ resumeRec \in [of : 0 .. MaxRemoteEdits + 1, artifact : 0 .. MaxDownloads]
    /\ dPc \in {"idle", "asking", "creating", "recording", "reading", "asked", "commit",
                "spent", "failed", "changed", "discard"}
    /\ dOver \in BOOLEAN /\ dArt \in 0 .. MaxDownloads /\ dStart \in 0 .. Pieces
    /\ dSeen \in 0 .. MaxRemoteEdits + 1 /\ dTries \in 0 .. MaxDownloads /\ dUnasked \in BOOLEAN

DownloadInit ==
    /\ rVersion = 1 /\ dest \in {NoContent, <<>>} /\ parts = [a \in Artifacts |-> NoContent]
    /\ resumeRec = NoRecord /\ dPc = "idle" /\ dOver = FALSE /\ dArt = 0 /\ dStart = 0
    /\ dSeen = 0 /\ dTries = 0 /\ dUnasked = FALSE
-----------------------------------------------------------------------------
\* DownloadTarget::reserve.
ReserveDownload ==
    /\ dPc = "idle" /\ dTries < MaxDownloads
    /\ dTries' = dTries + 1 /\ dPc' = "asking" /\ dOver' \in BOOLEAN
    /\ UNCHANGED <<rVersion, dest, beside, dArt, dStart, dSeen, dUnasked>>

\* source_identity: the version the server tells, 0 when it tells none.
SourceIdentity == {rVersion, 0}

\* source_identity, then prepare: the partial of the very file the server has
\* now, or a new one.  A partial that is whole already goes to the commit.
Prepare ==
    /\ dPc = "asking" /\ dSeen' \in SourceIdentity
    /\ \/ /\ resumeRec.of = dSeen' /\ dSeen' # 0 /\ parts[resumeRec.artifact] # NoContent
          /\ dArt' = resumeRec.artifact /\ dStart' = Len(parts[dArt'])
          /\ dPc' = IF dStart' = Pieces THEN "commit" ELSE "reading"
       \/ dArt' = dTries /\ dStart' = 0 /\ dPc' = "creating" \* also without resume
    /\ UNCHANGED <<rVersion, dest, beside, dOver, dTries, dUnasked>>

CreatePartial ==
    /\ dPc = "creating" /\ dPc' = "recording"
    /\ parts' = [parts EXCEPT ![dArt] = <<>>]
    /\ UNCHANGED <<rVersion, dest, resumeRec, attempt, dUnasked>>

WriteRecord ==
    /\ dPc = "recording"
    /\ resumeRec' = [of |-> dSeen, artifact |-> dArt] /\ dPc' = "reading"
    /\ UNCHANGED <<rVersion, dest, parts, attempt, dUnasked>>

\* A server that does not resume sends the whole file again: open_at(0).
StartOver ==
    /\ dPc = "reading" /\ dStart > 0 /\ Len(parts[dArt]) = dStart
    /\ parts' = [parts EXCEPT ![dArt] = <<>>]
    /\ UNCHANGED <<rVersion, dest, resumeRec, dPc, attempt, dUnasked>>

ReadPiece ==
    /\ dPc = "reading" /\ Len(parts[dArt]) < Pieces
    /\ parts' = [parts EXCEPT ![dArt] = Append(@, rVersion)]
    /\ UNCHANGED <<rVersion, dest, resumeRec, dPc, attempt, dUnasked>>

\* The read ends; one that is whole, or of the wrong length, asks again.
EndOfRead ==
    /\ dPc = "reading"
    /\ dPc' \in IF Len(parts[dArt]) = Pieces THEN {"asked"} ELSE {"asked", "failed"}
    /\ UNCHANGED <<rVersion, dest, beside, attempt, dUnasked>>

(* Mutant: the server is not asked again after a whole read. *)
TrustRead ==
    /\ dPc = "asked" /\ dPc' = IF Len(parts[dArt]) = Pieces THEN "commit" ELSE "failed"
    /\ UNCHANGED <<rVersion, dest, beside, attempt, dUnasked>>

\* unless_changed: no answer, before or now, keeps the outcome as it is.
AskAgain ==
    /\ dPc = "asked"
    /\ LET whole == IF Len(parts[dArt]) = Pieces THEN "commit" ELSE "failed" IN
       \/ dSeen # 0 /\ dSeen # rVersion /\ dPc' = "changed" /\ UNCHANGED dUnasked
       \/ dSeen = rVersion /\ dPc' = whole /\ UNCHANGED dUnasked
       \/ dPc' = whole /\ dUnasked' = TRUE
    /\ UNCHANGED <<rVersion, dest, beside, attempt>>

\* rename_no_replace: refused where anything has the name.
RenameNoReplace == dest = NoContent /\ dest' = parts[dArt]

\* commit: over the old file, or only where there is none.
Commit ==
    /\ dPc = "commit"
    /\ \/ /\ IF dOver THEN dest' = parts[dArt] ELSE RenameNoReplace
          /\ parts' = [parts EXCEPT ![dArt] = NoContent]
          /\ dPc' = "spent"
       \/ dPc' = "failed" /\ UNCHANGED <<dest, parts>>
    /\ UNCHANGED <<rVersion, resumeRec, attempt, dUnasked>>

\* forget_resume_record: the record that names this partial, unless it is held.
ForgetRecord ==
    /\ dPc = "spent" /\ dPc' = "idle"
    /\ resumeRec' \in {resumeRec} \cup IF resumeRec.artifact = dArt THEN {NoRecord} ELSE {}
    /\ UNCHANGED <<rVersion, dest, parts, attempt, dUnasked>>

\* finish after a failure: the bytes of two versions go, so does a partial
\* that got nothing, and then the record of a partial that is gone.
FinishFailed ==
    /\ dPc \in {"failed", "changed"}
    /\ IF dPc = "changed" \/ (dStart = 0 /\ parts[dArt] = <<>>)
       THEN parts' = [parts EXCEPT ![dArt] = NoContent] /\ dPc' = "spent"
       ELSE UNCHANGED parts /\ dPc' = "idle"
    /\ UNCHANGED <<rVersion, dest, resumeRec, attempt, dUnasked>>

\* A pause, a stop or the end of the application: the attempt is dropped where
\* it waits.  After a stop the partial goes, then the record that finds it.
DropDownload ==
    /\ dPc \notin {"idle", "discard"} /\ dPc' \in {"idle", "discard"}
    /\ UNCHANGED <<rVersion, dest, beside, attempt, dUnasked>>

DiscardPartial ==
    /\ dPc = "discard" /\ dPc' = "idle"
    /\ IF resumeRec = NoRecord THEN UNCHANGED beside
       ELSE LET gone == [parts EXCEPT ![resumeRec.artifact] = NoContent] IN
            \/ parts' = gone /\ resumeRec' \in {NoRecord, resumeRec}
            \/ UNCHANGED beside
    /\ UNCHANGED <<rVersion, dest, attempt, dUnasked>>

RemoteEdit ==
    /\ rVersion <= MaxRemoteEdits /\ rVersion' = rVersion + 1
    /\ UNCHANGED <<dest, beside, dPc, attempt, dUnasked>>

DownloadNext ==
    \/ ReserveDownload \/ Prepare \/ CreatePartial \/ WriteRecord \/ StartOver \/ ReadPiece
    \/ EndOfRead \/ AskAgain \/ Commit \/ ForgetRecord \/ FinishFailed \/ DropDownload
    \/ DiscardPartial \/ RemoteEdit

DownloadSpec == DownloadInit /\ [][DownloadNext]_downloadVars
-----------------------------------------------------------------------------
(* The destination never holds part of a file, nor bytes of two versions,  *)
(* whatever attempts and changes of the remote file went before, as long   *)
(* as the server answers the second question (prepare's comparison of the  *)
(* record, unless_changed, finish).                                        *)
DestinationIsOneVersion ==
    \/ dest \in {NoContent, <<>>} \/ dUnasked
    \/ Len(dest) = Pieces /\ \A i, j \in 1 .. Pieces : dest[i] = dest[j]
=============================================================================
