--------------------------- MODULE Files_proofs -----------------------------
(***************************************************************************)
(* What a transfer leaves on a server and on the disk: the version that an *)
(* overwrite sets aside, the file a download puts in place, the copy a     *)
(* relay makes, the folders it walks, the copies that are edited           *)
(* elsewhere, the leases that keep writers apart, and the files of this    *)
(* computer.  Each part has an inductive invariant of its own, for any     *)
(* number of attempts, pieces, losses and crashes.                         *)
(***************************************************************************)
EXTENDS SetAside, DownloadFile, RelayCopy, EditedCopies, FolderWalk,
        TargetReservation, LocalMutations, FiniteSetTheorems, SequenceTheorems,
        WellFoundedInduction, TLAPS
-----------------------------------------------------------------------------
(* SetAside: set_aside, its records and what restores them *)
\* The files an upload may hide, one per attempt.
AsidesOf(s) == {s} \X (1 .. MaxReplacements[s])

\* The types of the variables, in four parts.
ServerTypes ==
    /\ nameHolds \in Versions \cup {Nothing} /\ partials \subseteq Stagings
    /\ hidden \in [Asides -> Versions \cup {Nothing}]
    /\ landed \subseteq Stagings /\ lastHidden \in Asides \cup {NoAside}
RecordTypes ==
    /\ setAside \in [Stagings -> [aside : Asides \cup {NoAside}, stranded : BOOLEAN]]
    /\ keptStranded \in [Stagings -> Asides \cup {NoAside}]
    /\ unrecorded \subseteq Asides
AttemptTypes ==
    /\ upPc \in [Stagings -> Working \cup {"idle", "paused", "done"}]
    /\ upTry \in [Stagings -> Nat]
    /\ doomed \in [Stagings -> Asides \cup {NoAside}]
SessionTypes ==
    /\ pane \in {"down", "restoring", "up", "closing"} /\ stranding \subseteq Stagings
    /\ appUp \in BOOLEAN /\ crashes \in 0 .. MaxCrashes

\* An attempt that has begun is one of the upload's attempts.
TriesCount ==
    \A s \in Stagings :
        /\ upTry[s] \in 0 .. MaxReplacements[s]
        /\ upPc[s] # "idle" => upTry[s] # 0

\* A record, in memory or on disk, names a file its own upload hid, none later
\* than the last, and the one on disk is not the later of the two.
RecordsInOrder ==
    \A s \in Stagings :
        /\ Recorded(s) =>
            /\ setAside[s].aside[1] = s /\ setAside[s].aside[2] <= upTry[s]
            /\ lastHidden # NoAside /\ lastHidden[1] = s => setAside[s].aside[2] <= lastHidden[2]
        /\ keptStranded[s] # NoAside =>
            /\ keptStranded[s][1] = s /\ keptStranded[s][2] <= upTry[s]
            /\ lastHidden # NoAside /\ lastHidden[1] = s => keptStranded[s][2] <= lastHidden[2]
            /\ Recorded(s) => keptStranded[s][2] <= setAside[s].aside[2]
        /\ setAside[s].stranded => Recorded(s) /\ keptStranded[s] = setAside[s].aside

\* An empty name was emptied for a version that still exists and is recorded.
EmptyNameIsRecorded ==
    nameHolds = Nothing =>
        /\ lastHidden # NoAside /\ hidden[lastHidden] # Nothing
        /\ \/ lastHidden \in unrecorded
           \/ \E s \in Stagings : lastHidden \in {setAside[s].aside, keptStranded[s]}

\* While an attempt moves files the session is up; its staging file is gone
\* only once it has taken the name.
WholeUntilLanded ==
    \A s \in Stagings :
        /\ upPc[s] \in Moving => pane = "up" /\ (s \in partials \/ s \in landed)
        /\ upPc[s] = "lost" /\ Recorded(s) => s \in partials \/ s \in landed

\* What an attempt is about to remove is what its own upload hid, and the
\* upload has taken the name since.
DoomedIsReplaced ==
    \A s \in Stagings :
        upPc[s] = "clear" /\ doomed[s] # NoAside =>
            /\ doomed[s][1] = s /\ s \in landed
            /\ nameHolds = Nothing => doomed[s] # lastHidden

\* Without the application there is no attempt, no record in memory, no session.
NothingRunsUnstarted ==
    ~appUp =>
        /\ pane = "down"
        /\ \A s \in Stagings : upPc[s] \in {"idle", "done"} /\ ~Recorded(s)

(* The inductive invariant: no attempt empties the name without leaving a    *)
(* record, and no record is forgotten before its file may go.               *)
SetAsideInv ==
    /\ ServerTypes /\ RecordTypes /\ AttemptTypes /\ SessionTypes /\ TriesCount
    /\ RecordsInOrder /\ EmptyNameIsRecorded
    /\ WholeUntilLanded /\ DoomedIsReplaced /\ NothingRunsUnstarted

(* A hidden name tells its upload and its attempt, and is none of the empty mark. *)
LEMMA AsideShape ==
  ASSUME NEW a \in Asides
  PROVE  /\ a = <<a[1], a[2]>> /\ a[1] \in Stagings /\ a[2] \in Nat /\ a # NoAside
<1>1. PICK s \in Stagings : a \in {s} \X (1 .. MaxReplacements[s])
  BY DEF Asides
<1>2. a[1] = s /\ a[2] \in 1 .. MaxReplacements[s] /\ a = <<a[1], a[2]>>
  BY <1>1
<1>3. MaxReplacements[s] \in Nat
  BY SetAsideAssumption
<1>4. a # NoAside
  BY <1>2 DEF NoAside
<1> QED
  BY <1>2, <1>3, <1>4

(* The name an attempt hides the old version under is one of its upload's. *)
LEMMA NewAsideShape ==
  ASSUME AttemptTypes, TriesCount, NEW s \in Stagings, upPc[s] # "idle"
  PROVE  /\ NewAside(s) \in Asides /\ NewAside(s) # NoAside
         /\ NewAside(s)[1] = s /\ NewAside(s)[2] = upTry[s]
<1>1. MaxReplacements[s] \in Nat /\ upTry[s] \in 1 .. MaxReplacements[s]
  BY SetAsideAssumption DEF AttemptTypes, TriesCount
<1>2. NewAside(s) \in {s} \X (1 .. MaxReplacements[s])
  BY <1>1 DEF NewAside
<1> QED
  BY <1>2, AsideShape DEF Asides, NewAside

(* The empty record is a record that names nothing. *)
LEMMA NoEntryShape ==
  /\ NoEntry \in [aside : Asides \cup {NoAside}, stranded : BOOLEAN]
  /\ NoEntry.aside = NoAside /\ NoEntry.stranded = FALSE
BY DEF NoEntry

(* What a record names is a hidden name or nothing. *)
LEMMA RecordShape ==
  ASSUME RecordTypes, NEW s \in Stagings
  PROVE  /\ setAside[s].aside \in Asides \cup {NoAside} /\ setAside[s].stranded \in BOOLEAN
         /\ setAside[s] \in [aside : Asides \cup {NoAside}, stranded : BOOLEAN]
         /\ keptStranded[s] \in Asides \cup {NoAside}
BY DEF RecordTypes

(* What the request under way may do on the server: whole files stay or take *)
(* the name, the name is emptied only for a version that is then hidden, and *)
(* the version it was last emptied for stays where it is.                    *)
LEMMA RequestEffect ==
  ASSUME SetAsideInv, NEW s \in Stagings, upPc[s] \in Moving \cup {"clear"}, Request(s)
  PROVE  /\ ServerTypes'
         /\ landed \subseteq landed'
         /\ \A r \in Stagings : r \in partials \/ r \in landed => r \in partials' \/ r \in landed'
         /\ \/ lastHidden' = lastHidden
            \/ (upPc[s] = "aside" /\ lastHidden' = NewAside(s))
         /\ nameHolds' = Nothing =>
              /\ lastHidden' # NoAside /\ hidden'[lastHidden'] # Nothing
              /\ \/ nameHolds = Nothing /\ lastHidden' = lastHidden
                 \/ upPc[s] = "aside" /\ lastHidden' = NewAside(s)
<1> USE SetAsideAssumption DEF SetAsideInv
<1>1. NewAside(s) \in Asides /\ NewAside(s) # NoAside
  BY NewAsideShape DEF Moving
<1>2. Nothing \notin Stagings
  OBVIOUS
<1>3. CASE upPc[s] \in {"move", "over"}
  <2>1. Publish(s)
    BY <1>3 DEF Request
  <2> QED
    BY <2>1, <1>2 DEF Publish, ServerTypes, Versions
<1>4. CASE upPc[s] = "aside"
  <2>1. HideOld(s)
    BY <1>4 DEF Request
  <2>2. ServerTypes'
    BY <2>1, <1>1 DEF HideOld, ServerTypes
  <2>3. hidden'[NewAside(s)] # Nothing
    BY <2>1, <1>1 DEF HideOld, ServerTypes
  <2> QED
    BY <2>1, <2>2, <2>3, <1>1, <1>4 DEF HideOld
<1>5. CASE upPc[s] = "restore"
  <2>1. PutBack(NewAside(s))
    BY <1>5 DEF Request
  <2> QED
    BY <2>1, <1>1 DEF PutBack, ServerTypes
<1>6. CASE upPc[s] = "clear"
  <2>1. RemoveHidden(doomed[s])
    BY <1>6 DEF Request
  <2>2. doomed[s] \in Asides
    BY <2>1 DEF RemoveHidden, AttemptTypes
  <2>3. ServerTypes'
    BY <2>1, <2>2 DEF RemoveHidden, ServerTypes
  <2>4. nameHolds = Nothing => doomed[s] # lastHidden /\ lastHidden \in Asides
    BY <2>1, <1>6 DEF RemoveHidden, DoomedIsReplaced, EmptyNameIsRecorded, ServerTypes
  <2>5. nameHolds = Nothing => hidden'[lastHidden] # Nothing
    BY <2>1, <2>2, <2>4 DEF RemoveHidden, EmptyNameIsRecorded, ServerTypes
  <2>6. UNCHANGED <<nameHolds, partials, landed, lastHidden>>
    BY <2>1 DEF RemoveHidden
  <2> QED
    BY <2>3, <2>5, <2>6 DEF EmptyNameIsRecorded
<1> QED
  BY <1>3, <1>4, <1>5, <1>6 DEF Moving

(* A request that ends without its answer, whatever it did and wherever the *)
(* attempt goes on, leaves every version where a record leads to it.        *)
LEMMA UnansweredStep ==
  ASSUME SetAsideInv, NEW s \in Stagings, Unanswered(s),
         NEW to \in {"lost", "done", "paused", "cleanup"}, Goto(s, to),
         upPc[s] = "clear" => to # "lost", UNCHANGED <<upTry, doomed, sessionVars>>
  PROVE  SetAsideInv'
<1> USE SetAsideAssumption DEF SetAsideInv
<1>1. NewAside(s) \in Asides /\ NewAside(s) # NoAside /\ NewAside(s)[1] = s
      /\ NewAside(s)[2] = upTry[s]
  BY NewAsideShape DEF Unanswered, Moving
<1>2. /\ ServerTypes'
      /\ landed \subseteq landed'
      /\ \A r \in Stagings : r \in partials \/ r \in landed => r \in partials' \/ r \in landed'
      /\ lastHidden' = lastHidden \/ (upPc[s] = "aside" /\ lastHidden' = NewAside(s))
      /\ nameHolds' = Nothing =>
           /\ lastHidden' # NoAside /\ hidden'[lastHidden'] # Nothing
           /\ \/ nameHolds = Nothing /\ lastHidden' = lastHidden
              \/ upPc[s] = "aside" /\ lastHidden' = NewAside(s) /\ NewAside(s) \in unrecorded'
  <2>1. CASE /\ Request(s)
             /\ unrecorded' =
                   IF upPc[s] = "aside" THEN unrecorded \cup {NewAside(s)} ELSE unrecorded
    BY <2>1, RequestEffect DEF Unanswered
  <2>2. CASE UNCHANGED <<serverFiles, unrecorded>>
    BY <2>2 DEF serverFiles, ServerTypes, EmptyNameIsRecorded
  <2> QED
    BY <2>1, <2>2 DEF Unanswered
<1>3. unrecorded \subseteq unrecorded' /\ UNCHANGED <<setAside, keptStranded>>
  BY DEF Unanswered
<1>4. RecordTypes'
  BY <1>1, <1>3 DEF Unanswered, RecordTypes
<1>5. AttemptTypes'
  BY DEF AttemptTypes, Goto, Working, Moving
<1>6. SessionTypes'
  BY DEF SessionTypes, sessionVars
<1>7. TriesCount'
  BY DEF TriesCount, Goto, AttemptTypes, Unanswered, Moving
<1>8. RecordsInOrder'
  BY <1>1, <1>2, <1>3, RecordShape, AsideShape DEF RecordsInOrder, Recorded
<1>9. EmptyNameIsRecorded'
  BY <1>2, <1>3 DEF EmptyNameIsRecorded
<1>10. WholeUntilLanded'
  BY <1>2, <1>3 DEF WholeUntilLanded, Goto, AttemptTypes, sessionVars, Recorded, Unanswered, Moving
<1>11. DoomedIsReplaced'
  <2> SUFFICES ASSUME NEW r \in Stagings, upPc'[r] = "clear", doomed'[r] # NoAside
               PROVE  /\ doomed[r][1] = r /\ r \in landed'
                      /\ nameHolds' = Nothing => doomed[r] # lastHidden'
    BY DEF DoomedIsReplaced
  <2>1. r # s /\ upPc[r] = "clear" /\ doomed[r] # NoAside
    BY DEF Goto, AttemptTypes
  <2>2. doomed[r][1] = r /\ r \in landed /\ (nameHolds = Nothing => doomed[r] # lastHidden)
    BY <2>1 DEF DoomedIsReplaced
  <2> QED
    BY <1>1, <1>2, <2>1, <2>2
<1>12. NothingRunsUnstarted'
  BY <1>3 DEF NothingRunsUnstarted, Unanswered, Moving, Recorded, sessionVars
<1> QED
  BY <1>2, <1>4, <1>5, <1>6, <1>7, <1>8, <1>9, <1>10, <1>11, <1>12

(* Every step of every attempt, session and crash keeps it. *)
LEMMA SetAsideInvStep ==
  ASSUME SetAsideInv, [SetAsideNext]_setAsideVars, SizesAnswered
  PROVE  SetAsideInv'
<1> USE SetAsideAssumption DEF SetAsideInv

<1>1. CASE UNCHANGED setAsideVars
  <2>1. ServerTypes'
    BY <1>1 DEF setAsideVars, ServerTypes, Versions
  <2>2. RecordTypes'
    BY <1>1 DEF setAsideVars, RecordTypes
  <2>3. AttemptTypes'
    BY <1>1 DEF setAsideVars, AttemptTypes, Working, Moving
  <2>4. SessionTypes'
    BY <1>1 DEF setAsideVars, SessionTypes
  <2>5. TriesCount'
    BY <1>1 DEF setAsideVars, TriesCount, AttemptTypes, Working, Moving
  <2>6. RecordsInOrder'
    BY <1>1 DEF setAsideVars, RecordsInOrder, Recorded, ServerTypes, Versions,
         RecordTypes, AttemptTypes, Working, Moving
  <2>7. EmptyNameIsRecorded'
    BY <1>1 DEF setAsideVars, EmptyNameIsRecorded, ServerTypes, Versions, RecordTypes
  <2>8. WholeUntilLanded'
    BY <1>1 DEF setAsideVars, WholeUntilLanded, Moving, Recorded, ServerTypes, Versions,
         RecordTypes, AttemptTypes, Working, SessionTypes
  <2>9. DoomedIsReplaced'
    BY <1>1 DEF setAsideVars, DoomedIsReplaced, ServerTypes, Versions, AttemptTypes,
         Working, Moving
  <2>10. NothingRunsUnstarted'
    BY <1>1 DEF setAsideVars, NothingRunsUnstarted, Recorded, RecordTypes, AttemptTypes,
         Working, Moving, SessionTypes
  <2> QED
    BY <2>1, <2>2, <2>3, <2>4, <2>5, <2>6, <2>7, <2>8, <2>9, <2>10 DEF SetAsideInv
<1>2. ASSUME NEW s \in Stagings, StageWhole(s) PROVE SetAsideInv'
  <2>1. ServerTypes'
    BY <1>2 DEF StageWhole, ServerTypes, Versions
  <2>2. RecordTypes'
    BY <1>2 DEF StageWhole, records, RecordTypes
  <2>3. AttemptTypes'
    BY <1>2 DEF StageWhole, Goto, AttemptTypes, Working, Moving
  <2>4. SessionTypes'
    BY <1>2 DEF StageWhole, sessionVars, SessionTypes
  <2>5. TriesCount'
    BY <1>2 DEF StageWhole, Goto, TriesCount, AttemptTypes, Working, Moving
  <2>6. RecordsInOrder'
    BY <1>2, AsideShape, NewAsideShape DEF StageWhole, Goto, records, sessionVars,
         RecordsInOrder, Recorded, ServerTypes, Versions, RecordTypes, AttemptTypes,
         Working, Moving, SessionTypes, TriesCount, EmptyNameIsRecorded, WholeUntilLanded,
         DoomedIsReplaced, NothingRunsUnstarted
  <2>7. EmptyNameIsRecorded'
    BY <1>2 DEF StageWhole, records, EmptyNameIsRecorded, ServerTypes, Versions,
         RecordTypes
  <2>8. WholeUntilLanded'
    BY <1>2 DEF StageWhole, Goto, records, sessionVars, WholeUntilLanded, Moving,
         Recorded, ServerTypes, Versions, RecordTypes, AttemptTypes, Working, SessionTypes
  <2>9. DoomedIsReplaced'
    BY <1>2 DEF StageWhole, Goto, DoomedIsReplaced, ServerTypes, Versions, AttemptTypes,
         Working, Moving
  <2>10. NothingRunsUnstarted'
    BY <1>2 DEF StageWhole, Goto, records, sessionVars, NothingRunsUnstarted, Recorded,
         RecordTypes, AttemptTypes, Working, Moving, SessionTypes
  <2> QED
    BY <2>1, <2>2, <2>3, <2>4, <2>5, <2>6, <2>7, <2>8, <2>9, <2>10 DEF SetAsideInv
<1>3. ASSUME NEW s \in Stagings, Rename(s) PROVE SetAsideInv'
  <2>1. ServerTypes'
    BY <1>3 DEF Rename, Publish, serverFiles, ServerTypes, Versions
  <2>2. RecordTypes'
    BY <1>3, NoEntryShape DEF Rename, Settle, records, RecordTypes
  <2>3. AttemptTypes'
    BY <1>3, RecordShape DEF Rename, AttemptTypes, Goto, Working, Moving
  <2>4. SessionTypes'
    BY <1>3 DEF Rename, sessionVars, SessionTypes
  <2>5. TriesCount'
    BY <1>3 DEF Rename, Goto, TriesCount, AttemptTypes, Working, Moving
  <2>6. RecordsInOrder'
    BY <1>3, NoEntryShape, RecordShape
       DEF Rename, Publish, Settle, records, serverFiles, RecordsInOrder, Recorded, RecordTypes,
           sessionVars
  <2>7. EmptyNameIsRecorded'
    BY <1>3 DEF Rename, Publish, Settle, serverFiles, records, EmptyNameIsRecorded,
         ServerTypes, Versions, RecordTypes
  <2>8. WholeUntilLanded'
    BY <1>3 DEF Rename, Publish, Settle, Goto, serverFiles, records, sessionVars,
         WholeUntilLanded, Moving, Recorded, ServerTypes, Versions, RecordTypes,
         AttemptTypes, Working, SessionTypes
  <2>9. DoomedIsReplaced'
    BY <1>3, NoEntryShape, AsideShape, NewAsideShape DEF Rename, Publish, Settle, Goto,
         serverFiles, records, sessionVars, DoomedIsReplaced, ServerTypes, Versions,
         RecordTypes, AttemptTypes, Working, Moving, SessionTypes, TriesCount,
         RecordsInOrder, Recorded, EmptyNameIsRecorded, WholeUntilLanded,
         NothingRunsUnstarted
  <2>10. NothingRunsUnstarted'
    BY <1>3 DEF Rename, Settle, Goto, records, sessionVars, NothingRunsUnstarted,
         Recorded, RecordTypes, AttemptTypes, Working, Moving, SessionTypes
  <2> QED
    BY <2>1, <2>2, <2>3, <2>4, <2>5, <2>6, <2>7, <2>8, <2>9, <2>10 DEF SetAsideInv
<1>4. ASSUME NEW s \in Stagings, RenameAside(s) PROVE SetAsideInv'
  <2>1. ServerTypes'
    BY <1>4, NewAsideShape DEF RenameAside, HideOld, serverFiles, ServerTypes
  <2>2. RecordTypes'
    <3>1. NewAside(s) \in Asides
      BY <1>4, NewAsideShape DEF RenameAside
    <3>2. [aside |-> NewAside(s), stranded |-> FALSE]
            \in [aside : Asides \cup {NoAside}, stranded : BOOLEAN]
      BY <3>1
    <3>3. CASE /\ setAside' = [setAside EXCEPT ![s] = [aside |-> NewAside(s), stranded |-> FALSE]]
               /\ UNCHANGED <<keptStranded, unrecorded>>
      BY <3>2, <3>3 DEF RecordTypes
    <3>4. CASE UNCHANGED records
      BY <3>4 DEF RecordTypes, records
    <3> QED
      BY <1>4, <3>3, <3>4 DEF RenameAside, records
  <2>3. AttemptTypes'
    BY <1>4 DEF RenameAside, HideOld, Goto, AttemptTypes, Working, Moving
  <2>4. SessionTypes'
    BY <1>4 DEF RenameAside, sessionVars, SessionTypes
  <2>5. TriesCount'
    BY <1>4 DEF RenameAside, HideOld, Goto, TriesCount, AttemptTypes, Working, Moving
  <2>6. RecordsInOrder'
    BY <1>4, AsideShape, NewAsideShape DEF RenameAside, HideOld, Goto, serverFiles,
         records, sessionVars, RecordsInOrder, Recorded, ServerTypes, Versions,
         RecordTypes, AttemptTypes, Working, Moving, SessionTypes, TriesCount,
         EmptyNameIsRecorded, WholeUntilLanded, DoomedIsReplaced, NothingRunsUnstarted
  <2>7. EmptyNameIsRecorded'
    BY <1>4, AsideShape, NewAsideShape DEF RenameAside, HideOld, Goto, serverFiles,
         records, sessionVars, EmptyNameIsRecorded, ServerTypes, Versions, RecordTypes,
         AttemptTypes, Working, Moving, SessionTypes, TriesCount, RecordsInOrder,
         Recorded, WholeUntilLanded, DoomedIsReplaced, NothingRunsUnstarted
  <2>8. WholeUntilLanded'
    BY <1>4 DEF RenameAside, HideOld, Goto, serverFiles, records, sessionVars,
         WholeUntilLanded, Moving, Recorded, ServerTypes, Versions, RecordTypes,
         AttemptTypes, Working, SessionTypes
  <2>9. DoomedIsReplaced'
    BY <1>4, AsideShape, NewAsideShape DEF RenameAside, HideOld, Goto, serverFiles,
         records, sessionVars, DoomedIsReplaced, ServerTypes, Versions, RecordTypes,
         AttemptTypes, Working, Moving, SessionTypes, TriesCount, RecordsInOrder,
         Recorded, EmptyNameIsRecorded, WholeUntilLanded, NothingRunsUnstarted
  <2>10. NothingRunsUnstarted'
    BY <1>4 DEF RenameAside, Goto, records, sessionVars, NothingRunsUnstarted, Recorded,
         RecordTypes, AttemptTypes, Working, Moving, SessionTypes
  <2> QED
    BY <2>1, <2>2, <2>3, <2>4, <2>5, <2>6, <2>7, <2>8, <2>9, <2>10 DEF SetAsideInv
<1>5. ASSUME NEW s \in Stagings, RenameOver(s) PROVE SetAsideInv'
  <2>1. ServerTypes'
    BY <1>5 DEF RenameOver, Publish, serverFiles, ServerTypes, Versions
  <2>2. RecordTypes'
    BY <1>5, NoEntryShape DEF RenameOver, Settle, records, RecordTypes
  <2>3. AttemptTypes'
    BY <1>5, NewAsideShape DEF RenameOver, AttemptTypes, Goto, Working, Moving
  <2>4. SessionTypes'
    BY <1>5 DEF RenameOver, sessionVars, SessionTypes
  <2>5. TriesCount'
    BY <1>5 DEF RenameOver, Goto, TriesCount, AttemptTypes, Working, Moving
  <2>6. RecordsInOrder'
    BY <1>5, NoEntryShape, RecordShape
       DEF RenameOver, Publish, Settle, records, serverFiles, RecordsInOrder, Recorded,
           RecordTypes, sessionVars
  <2>7. EmptyNameIsRecorded'
    BY <1>5 DEF RenameOver, Publish, Settle, serverFiles, records, EmptyNameIsRecorded,
         ServerTypes, Versions, RecordTypes
  <2>8. WholeUntilLanded'
    BY <1>5 DEF RenameOver, Publish, Settle, Goto, serverFiles, records, sessionVars,
         WholeUntilLanded, Moving, Recorded, ServerTypes, Versions, RecordTypes,
         AttemptTypes, Working, SessionTypes
  <2>9. DoomedIsReplaced'
    BY <1>5, NoEntryShape, AsideShape, NewAsideShape DEF RenameOver, Publish, Settle,
         Goto, serverFiles, records, sessionVars, DoomedIsReplaced, ServerTypes, Versions,
         RecordTypes, AttemptTypes, Working, Moving, SessionTypes, TriesCount,
         RecordsInOrder, Recorded, EmptyNameIsRecorded, WholeUntilLanded,
         NothingRunsUnstarted
  <2>10. NothingRunsUnstarted'
    BY <1>5 DEF RenameOver, Settle, Goto, records, sessionVars, NothingRunsUnstarted,
         Recorded, RecordTypes, AttemptTypes, Working, Moving, SessionTypes
  <2> QED
    BY <2>1, <2>2, <2>3, <2>4, <2>5, <2>6, <2>7, <2>8, <2>9, <2>10 DEF SetAsideInv
<1>6. ASSUME NEW s \in Stagings, Restore(s) PROVE SetAsideInv'
  <2>1. ServerTypes'
    BY <1>6, NewAsideShape DEF Restore, PutBack, serverFiles, ServerTypes
  <2>2. RecordTypes'
    BY <1>6, NoEntryShape DEF Restore, Settle, records, RecordTypes
  <2>3. AttemptTypes'
    BY <1>6 DEF Restore, Goto, AttemptTypes, Working, Moving
  <2>4. SessionTypes'
    BY <1>6 DEF Restore, sessionVars, SessionTypes
  <2>5. TriesCount'
    BY <1>6 DEF Restore, Goto, TriesCount, AttemptTypes, Working, Moving
  <2>6. RecordsInOrder'
    BY <1>6, NoEntryShape, RecordShape
       DEF Restore, PutBack, Settle, records, serverFiles, RecordsInOrder, Recorded, RecordTypes,
           sessionVars
  <2>7. EmptyNameIsRecorded'
    BY <1>6 DEF Restore, PutBack, Settle, serverFiles, records, EmptyNameIsRecorded,
         ServerTypes, Versions, RecordTypes
  <2>8. WholeUntilLanded'
    BY <1>6 DEF Restore, Goto, PutBack, Settle, serverFiles, records, sessionVars,
         WholeUntilLanded, Moving, Recorded, ServerTypes, Versions, RecordTypes,
         AttemptTypes, Working, SessionTypes
  <2>9. DoomedIsReplaced'
    BY <1>6 DEF Restore, Goto, PutBack, serverFiles, DoomedIsReplaced, ServerTypes,
         Versions, AttemptTypes, Working, Moving
  <2>10. NothingRunsUnstarted'
    BY <1>6 DEF Restore, Goto, Settle, records, sessionVars, NothingRunsUnstarted,
         Recorded, RecordTypes, AttemptTypes, Working, Moving, SessionTypes
  <2> QED
    BY <2>1, <2>2, <2>3, <2>4, <2>5, <2>6, <2>7, <2>8, <2>9, <2>10 DEF SetAsideInv
<1>7. ASSUME NEW s \in Stagings, RemoveOld(s) PROVE SetAsideInv'
  <2>1. ServerTypes'
    BY <1>7 DEF RemoveOld, RemoveHidden, serverFiles, ServerTypes, Versions
  <2>2. RecordTypes'
    BY <1>7 DEF RemoveOld, records, RecordTypes
  <2>3. AttemptTypes'
    BY <1>7 DEF RemoveOld, Goto, AttemptTypes, Working, Moving
  <2>4. SessionTypes'
    BY <1>7 DEF RemoveOld, sessionVars, SessionTypes
  <2>5. TriesCount'
    BY <1>7 DEF RemoveOld, Goto, TriesCount, AttemptTypes, Working, Moving
  <2>6. RecordsInOrder'
    BY <1>7 DEF RemoveOld, RemoveHidden, serverFiles, records, RecordsInOrder, Recorded,
         ServerTypes, Versions, RecordTypes, AttemptTypes, Working, Moving
  <2>7. EmptyNameIsRecorded'
    BY <1>7, AsideShape, NewAsideShape DEF RemoveOld, Goto, RemoveHidden, serverFiles,
         records, sessionVars, EmptyNameIsRecorded, ServerTypes, Versions, RecordTypes,
         AttemptTypes, Working, Moving, SessionTypes, TriesCount, RecordsInOrder,
         Recorded, WholeUntilLanded, DoomedIsReplaced, NothingRunsUnstarted
  <2>8. WholeUntilLanded'
    BY <1>7 DEF RemoveOld, Goto, RemoveHidden, serverFiles, records, sessionVars,
         WholeUntilLanded, Moving, Recorded, ServerTypes, Versions, RecordTypes,
         AttemptTypes, Working, SessionTypes
  <2>9. DoomedIsReplaced'
    BY <1>7 DEF RemoveOld, Goto, RemoveHidden, serverFiles, DoomedIsReplaced, ServerTypes,
         Versions, AttemptTypes, Working, Moving
  <2>10. NothingRunsUnstarted'
    BY <1>7 DEF RemoveOld, Goto, records, sessionVars, NothingRunsUnstarted, Recorded,
         RecordTypes, AttemptTypes, Working, Moving, SessionTypes
  <2> QED
    BY <2>1, <2>2, <2>3, <2>4, <2>5, <2>6, <2>7, <2>8, <2>9, <2>10 DEF SetAsideInv
<1>8. ASSUME NEW s \in Stagings, LoseConnection(s) PROVE SetAsideInv'
  <2>1. CASE upPc[s] = "clear"
    <3>1. Goto(s, "done")
      BY <1>8, <2>1 DEF LoseConnection
    <3> QED
      BY <1>8, <3>1, UnansweredStep DEF LoseConnection
  <2>2. CASE upPc[s] # "clear"
    <3>1. Goto(s, "lost")
      BY <1>8, <2>2 DEF LoseConnection
    <3> QED
      BY <1>8, <2>2, <3>1, UnansweredStep DEF LoseConnection
  <2> QED
    BY <2>1, <2>2
<1>9. ASSUME NEW s \in Stagings, DropAttempt(s) PROVE SetAsideInv'
  <2>1. Goto(s, "paused") \/ Goto(s, "cleanup")
    BY <1>9 DEF DropAttempt
  <2> QED
    BY <1>9, <2>1, UnansweredStep DEF DropAttempt
<1>10. ASSUME NEW s \in Stagings, LookAfterLoss(s) PROVE SetAsideInv'
  <2>1. ServerTypes'
    BY <1>10 DEF LookAfterLoss, serverFiles, ServerTypes, Versions
  <2>2. RecordTypes'
    BY <1>10, NoEntryShape DEF LookAfterLoss, Settle, records, RecordTypes
  <2>3. AttemptTypes'
    BY <1>10, RecordShape DEF LookAfterLoss, AttemptTypes, Goto, Working, Moving
  <2>4. SessionTypes'
    BY <1>10 DEF LookAfterLoss, sessionVars, SessionTypes
  <2>5. TriesCount'
    BY <1>10 DEF LookAfterLoss, Goto, TriesCount, AttemptTypes, Working, Moving
  <2>6. RecordsInOrder'
    BY <1>10, NoEntryShape, RecordShape
       DEF LookAfterLoss, Settle, records, serverFiles, RecordsInOrder, Recorded, RecordTypes,
           sessionVars
  <2>7. EmptyNameIsRecorded'
    BY <1>10 DEF LookAfterLoss, Settle, records, serverFiles, EmptyNameIsRecorded,
         ServerTypes, Versions, RecordTypes
  <2>8. WholeUntilLanded'
    BY <1>10 DEF LookAfterLoss, Goto, Settle, records, serverFiles, sessionVars,
         WholeUntilLanded, Moving, Recorded, ServerTypes, Versions, RecordTypes,
         AttemptTypes, Working, SessionTypes
  <2>9. DoomedIsReplaced'
    BY <1>10, NoEntryShape, AsideShape, NewAsideShape DEF LookAfterLoss, Goto, Settle,
         records, serverFiles, sessionVars, DoomedIsReplaced, ServerTypes, Versions,
         RecordTypes, AttemptTypes, Working, Moving, SessionTypes, TriesCount,
         RecordsInOrder, Recorded, EmptyNameIsRecorded, WholeUntilLanded,
         NothingRunsUnstarted
  <2>10. NothingRunsUnstarted'
    BY <1>10 DEF LookAfterLoss, Goto, Settle, records, sessionVars, NothingRunsUnstarted,
         Recorded, RecordTypes, AttemptTypes, Working, Moving, SessionTypes
  <2> QED
    BY <2>1, <2>2, <2>3, <2>4, <2>5, <2>6, <2>7, <2>8, <2>9, <2>10 DEF SetAsideInv
<1>11. ASSUME NEW s \in Stagings, CleanUp(s) PROVE SetAsideInv'
  <2>1. ServerTypes'
    BY <1>11, NoEntryShape DEF CleanUp, Goto, PutBackThenRemove, serverFiles, records,
         sessionVars, Recorded, Settle, PutBack, ServerTypes, Versions, RecordTypes,
         AttemptTypes, Working, Moving, SessionTypes
  <2>2. RecordTypes'
    BY <1>11, NoEntryShape DEF CleanUp, PutBackThenRemove, Settle, records, RecordTypes
  <2>3. AttemptTypes'
    BY <1>11 DEF CleanUp, Goto, AttemptTypes, Working, Moving
  <2>4. SessionTypes'
    BY <1>11 DEF CleanUp, sessionVars, SessionTypes
  <2>5. TriesCount'
    BY <1>11 DEF CleanUp, Goto, TriesCount, AttemptTypes, Working, Moving
  <2>6. RecordsInOrder'
    BY <1>11, NoEntryShape, RecordShape
       DEF CleanUp, PutBackThenRemove, PutBack, Settle, records, serverFiles, RecordsInOrder,
           Recorded, RecordTypes
  <2>7. EmptyNameIsRecorded'
    BY <1>11, NoEntryShape, AsideShape, NewAsideShape DEF CleanUp, Goto,
         PutBackThenRemove, serverFiles, records, sessionVars, Recorded, Settle, PutBack,
         EmptyNameIsRecorded, ServerTypes, Versions, RecordTypes, AttemptTypes, Working,
         Moving, SessionTypes, TriesCount, RecordsInOrder, WholeUntilLanded,
         DoomedIsReplaced, NothingRunsUnstarted
  <2>8. WholeUntilLanded'
    BY <1>11 DEF CleanUp, Goto, PutBackThenRemove, serverFiles, records, sessionVars,
         Recorded, Settle, PutBack, WholeUntilLanded, Moving, ServerTypes, Versions,
         RecordTypes, AttemptTypes, Working, SessionTypes
  <2>9. DoomedIsReplaced'
    BY <1>11 DEF CleanUp, Goto, PutBackThenRemove, serverFiles, PutBack, DoomedIsReplaced,
         ServerTypes, Versions, AttemptTypes, Working, Moving
  <2>10. NothingRunsUnstarted'
    BY <1>11 DEF CleanUp, Goto, PutBackThenRemove, records, sessionVars, Recorded, Settle,
         NothingRunsUnstarted, RecordTypes, AttemptTypes, Working, Moving, SessionTypes
  <2> QED
    BY <2>1, <2>2, <2>3, <2>4, <2>5, <2>6, <2>7, <2>8, <2>9, <2>10 DEF SetAsideInv
<1>12. ASSUME NEW s \in Stagings, Strand(s) PROVE SetAsideInv'
  <2>1. ServerTypes'
    BY <1>12 DEF Strand, serverFiles, ServerTypes, Versions
  <2>2. RecordTypes'
    <3>1. setAside[s] \in [aside : Asides \cup {NoAside}, stranded : BOOLEAN]
      BY DEF RecordTypes
    <3>2. [setAside[s] EXCEPT !.stranded = TRUE]
            \in [aside : Asides \cup {NoAside}, stranded : BOOLEAN]
      BY <3>1
    <3> QED
      BY <1>12, <3>1, <3>2 DEF Strand, RecordTypes
  <2>3. AttemptTypes'
    BY <1>12 DEF Strand, Goto, AttemptTypes, Working, Moving
  <2>4. SessionTypes'
    BY <1>12 DEF Strand, sessionVars, SessionTypes
  <2>5. TriesCount'
    BY <1>12 DEF Strand, Goto, TriesCount, AttemptTypes, Working, Moving
  <2>6. RecordsInOrder'
    BY <1>12, AsideShape, NewAsideShape DEF Strand, Goto, Recorded, serverFiles,
         sessionVars, RecordsInOrder, ServerTypes, Versions, RecordTypes, AttemptTypes,
         Working, Moving, SessionTypes, TriesCount, EmptyNameIsRecorded, WholeUntilLanded,
         DoomedIsReplaced, NothingRunsUnstarted
  <2>7. EmptyNameIsRecorded'
    <3>1. ASSUME Recorded(s), lastHidden = keptStranded[s], nameHolds = Nothing
          PROVE  lastHidden = setAside[s].aside
      <4>1. keptStranded[s] \in Asides /\ setAside[s].aside \in Asides
        BY <3>1, RecordShape DEF EmptyNameIsRecorded, Recorded
      <4>2. /\ keptStranded[s][1] = s /\ setAside[s].aside[1] = s
            /\ keptStranded[s][2] <= setAside[s].aside[2]
            /\ setAside[s].aside[2] <= keptStranded[s][2]
        BY <3>1, <4>1, AsideShape DEF RecordsInOrder
      <4>3. /\ keptStranded[s] = <<s, keptStranded[s][2]>> /\ keptStranded[s][2] \in Nat
            /\ setAside[s].aside = <<s, setAside[s].aside[2]>> /\ setAside[s].aside[2] \in Nat
        BY <4>1, <4>2, AsideShape
      <4>4. keptStranded[s][2] = setAside[s].aside[2]
        BY <4>2, <4>3
      <4> QED
        BY <3>1, <4>3, <4>4
    <3>2. \A r \in Stagings : setAside'[r].aside = setAside[r].aside
      BY <1>12 DEF Strand, RecordTypes
    <3>3. CASE Recorded(s) /\ keptStranded' = [keptStranded EXCEPT ![s] = setAside[s].aside]
      BY <1>12, <3>1, <3>2, <3>3 DEF Strand, EmptyNameIsRecorded, serverFiles, RecordTypes
    <3>4. CASE UNCHANGED keptStranded
      BY <1>12, <3>2, <3>4 DEF Strand, EmptyNameIsRecorded, serverFiles
    <3> QED
      BY <1>12, <3>3, <3>4 DEF Strand
  <2>8. WholeUntilLanded'
    BY <1>12 DEF Strand, Goto, Recorded, serverFiles, sessionVars, WholeUntilLanded,
         Moving, ServerTypes, Versions, RecordTypes, AttemptTypes, Working, SessionTypes
  <2>9. DoomedIsReplaced'
    BY <1>12 DEF Strand, Goto, serverFiles, DoomedIsReplaced, ServerTypes, Versions,
         AttemptTypes, Working, Moving
  <2>10. NothingRunsUnstarted'
    BY <1>12 DEF Strand, Goto, Recorded, sessionVars, NothingRunsUnstarted, RecordTypes,
         AttemptTypes, Working, Moving, SessionTypes
  <2> QED
    BY <2>1, <2>2, <2>3, <2>4, <2>5, <2>6, <2>7, <2>8, <2>9, <2>10 DEF SetAsideInv
<1>13. ASSUME NEW s \in Stagings, PutBackStranded(s) PROVE SetAsideInv'
  <2>1. ServerTypes'
    BY <1>13, NoEntryShape DEF PutBackStranded, PutBackThenRemove, Recorded, records,
         Settle, serverFiles, PutBack, ServerTypes, Versions, RecordTypes, AttemptTypes,
         Working, Moving, SessionTypes
  <2>2. RecordTypes'
    BY <1>13, NoEntryShape DEF PutBackStranded, PutBackThenRemove, Settle, records, RecordTypes
  <2>3. AttemptTypes'
    BY <1>13 DEF PutBackStranded, AttemptTypes, Working, Moving
  <2>4. SessionTypes'
    BY <1>13 DEF PutBackStranded, SessionTypes
  <2>5. TriesCount'
    BY <1>13 DEF PutBackStranded, TriesCount, AttemptTypes, Working, Moving
  <2>6. RecordsInOrder'
    BY <1>13, NoEntryShape, RecordShape
       DEF PutBackStranded, PutBackThenRemove, PutBack, Settle, records, serverFiles,
           RecordsInOrder, Recorded, RecordTypes
  <2>7. EmptyNameIsRecorded'
    BY <1>13, NoEntryShape, AsideShape, NewAsideShape DEF PutBackStranded,
         PutBackThenRemove, Recorded, records, Settle, serverFiles, PutBack,
         EmptyNameIsRecorded, ServerTypes, Versions, RecordTypes, AttemptTypes, Working,
         Moving, SessionTypes, TriesCount, RecordsInOrder, WholeUntilLanded,
         DoomedIsReplaced, NothingRunsUnstarted
  <2>8. WholeUntilLanded'
    BY <1>13, NoEntryShape
       DEF PutBackStranded, PutBackThenRemove, PutBack, Settle, records, serverFiles,
           WholeUntilLanded,
           Recorded, Moving, RecordTypes
  <2>9. DoomedIsReplaced'
    BY <1>13 DEF PutBackStranded, PutBackThenRemove, serverFiles, PutBack,
         DoomedIsReplaced, ServerTypes, Versions, AttemptTypes, Working, Moving
  <2>10. NothingRunsUnstarted'
    BY <1>13 DEF PutBackStranded, PutBackThenRemove, Recorded, records, Settle,
         NothingRunsUnstarted, RecordTypes, AttemptTypes, Working, Moving, SessionTypes
  <2> QED
    BY <2>1, <2>2, <2>3, <2>4, <2>5, <2>6, <2>7, <2>8, <2>9, <2>10 DEF SetAsideInv
<1>14. ASSUME NEW s \in Stagings, DiscardPaused(s) PROVE SetAsideInv'
  <2>1. ServerTypes'
    BY <1>14, NoEntryShape DEF DiscardPaused, Goto, PutBackThenRemove, serverFiles,
         records, sessionVars, Recorded, Settle, PutBack, ServerTypes, Versions,
         RecordTypes, AttemptTypes, Working, Moving, SessionTypes
  <2>2. RecordTypes'
    BY <1>14, NoEntryShape DEF DiscardPaused, PutBackThenRemove, Settle, records, RecordTypes
  <2>3. AttemptTypes'
    BY <1>14 DEF DiscardPaused, Goto, AttemptTypes, Working, Moving
  <2>4. SessionTypes'
    BY <1>14 DEF DiscardPaused, sessionVars, SessionTypes
  <2>5. TriesCount'
    BY <1>14 DEF DiscardPaused, Goto, TriesCount, AttemptTypes, Working, Moving
  <2>6. RecordsInOrder'
    BY <1>14, NoEntryShape, RecordShape
       DEF DiscardPaused, PutBackThenRemove, PutBack, Settle, records, serverFiles,
           RecordsInOrder, Recorded, RecordTypes
  <2>7. EmptyNameIsRecorded'
    BY <1>14, NoEntryShape, AsideShape, NewAsideShape DEF DiscardPaused, Goto,
         PutBackThenRemove, serverFiles, records, sessionVars, Recorded, Settle, PutBack,
         EmptyNameIsRecorded, ServerTypes, Versions, RecordTypes, AttemptTypes, Working,
         Moving, SessionTypes, TriesCount, RecordsInOrder, WholeUntilLanded,
         DoomedIsReplaced, NothingRunsUnstarted
  <2>8. WholeUntilLanded'
    BY <1>14 DEF DiscardPaused, Goto, PutBackThenRemove, serverFiles, records,
         sessionVars, Recorded, Settle, PutBack, WholeUntilLanded, Moving, ServerTypes,
         Versions, RecordTypes, AttemptTypes, Working, SessionTypes
  <2>9. DoomedIsReplaced'
    BY <1>14 DEF DiscardPaused, Goto, PutBackThenRemove, serverFiles, PutBack,
         DoomedIsReplaced, ServerTypes, Versions, AttemptTypes, Working, Moving
  <2>10. NothingRunsUnstarted'
    BY <1>14 DEF DiscardPaused, Goto, PutBackThenRemove, records, sessionVars, Recorded,
         Settle, NothingRunsUnstarted, RecordTypes, AttemptTypes, Working, Moving,
         SessionTypes
  <2> QED
    BY <2>1, <2>2, <2>3, <2>4, <2>5, <2>6, <2>7, <2>8, <2>9, <2>10 DEF SetAsideInv
<1>15. CASE Connect
  <2>1. ServerTypes'
    BY <1>15 DEF Connect, serverFiles, ServerTypes, Versions
  <2>2. RecordTypes'
    BY <1>15 DEF Connect, records, RecordTypes
  <2>3. AttemptTypes'
    BY <1>15 DEF Connect, AttemptTypes, Working, Moving
  <2>4. SessionTypes'
    BY <1>15 DEF Connect, SessionTypes
  <2>5. TriesCount'
    BY <1>15 DEF Connect, TriesCount, AttemptTypes, Working, Moving
  <2>6. RecordsInOrder'
    BY <1>15 DEF Connect, serverFiles, records, RecordsInOrder, Recorded, ServerTypes,
         Versions, RecordTypes, AttemptTypes, Working, Moving
  <2>7. EmptyNameIsRecorded'
    BY <1>15 DEF Connect, serverFiles, records, EmptyNameIsRecorded, ServerTypes,
         Versions, RecordTypes
  <2>8. WholeUntilLanded'
    BY <1>15 DEF Connect, serverFiles, records, WholeUntilLanded, Moving, Recorded,
         ServerTypes, Versions, RecordTypes, AttemptTypes, Working, SessionTypes
  <2>9. DoomedIsReplaced'
    BY <1>15 DEF Connect, serverFiles, DoomedIsReplaced, ServerTypes, Versions,
         AttemptTypes, Working, Moving
  <2>10. NothingRunsUnstarted'
    BY <1>15 DEF Connect, records, NothingRunsUnstarted, Recorded, RecordTypes,
         AttemptTypes, Working, Moving, SessionTypes
  <2> QED
    BY <2>1, <2>2, <2>3, <2>4, <2>5, <2>6, <2>7, <2>8, <2>9, <2>10 DEF SetAsideInv
<1>16. CASE OpenSession
  <2>1. ServerTypes'
    BY <1>16 DEF OpenSession, serverFiles, ServerTypes, Versions
  <2>2. RecordTypes'
    BY <1>16 DEF OpenSession, records, RecordTypes
  <2>3. AttemptTypes'
    BY <1>16 DEF OpenSession, AttemptTypes, Working, Moving
  <2>4. SessionTypes'
    BY <1>16 DEF OpenSession, SessionTypes
  <2>5. TriesCount'
    BY <1>16 DEF OpenSession, TriesCount, AttemptTypes, Working, Moving
  <2>6. RecordsInOrder'
    BY <1>16 DEF OpenSession, serverFiles, records, RecordsInOrder, Recorded, ServerTypes,
         Versions, RecordTypes, AttemptTypes, Working, Moving
  <2>7. EmptyNameIsRecorded'
    BY <1>16 DEF OpenSession, serverFiles, records, EmptyNameIsRecorded, ServerTypes,
         Versions, RecordTypes
  <2>8. WholeUntilLanded'
    BY <1>16 DEF OpenSession, serverFiles, records, WholeUntilLanded, Moving, Recorded,
         ServerTypes, Versions, RecordTypes, AttemptTypes, Working, SessionTypes
  <2>9. DoomedIsReplaced'
    BY <1>16 DEF OpenSession, serverFiles, DoomedIsReplaced, ServerTypes, Versions,
         AttemptTypes, Working, Moving
  <2>10. NothingRunsUnstarted'
    BY <1>16 DEF OpenSession, records, NothingRunsUnstarted, Recorded, RecordTypes,
         AttemptTypes, Working, Moving, SessionTypes
  <2> QED
    BY <2>1, <2>2, <2>3, <2>4, <2>5, <2>6, <2>7, <2>8, <2>9, <2>10 DEF SetAsideInv
<1>17. CASE Disconnect
  <2>1. ServerTypes'
    BY <1>17 DEF Disconnect, Moving, serverFiles, ServerTypes, Versions
  <2>2. RecordTypes'
    BY <1>17 DEF Disconnect, Moving, records, RecordTypes
  <2>3. AttemptTypes'
    BY <1>17 DEF Disconnect, Moving, AttemptTypes, Working
  <2>4. SessionTypes'
    BY <1>17 DEF Disconnect, Moving, SessionTypes
  <2>5. TriesCount'
    BY <1>17 DEF Disconnect, Moving, TriesCount, AttemptTypes, Working
  <2>6. RecordsInOrder'
    BY <1>17 DEF Disconnect, Moving, serverFiles, records, RecordsInOrder, Recorded,
         ServerTypes, Versions, RecordTypes, AttemptTypes, Working
  <2>7. EmptyNameIsRecorded'
    BY <1>17 DEF Disconnect, Moving, serverFiles, records, EmptyNameIsRecorded,
         ServerTypes, Versions, RecordTypes
  <2>8. WholeUntilLanded'
    BY <1>17 DEF Disconnect, Moving, serverFiles, records, WholeUntilLanded, Recorded,
         ServerTypes, Versions, RecordTypes, AttemptTypes, Working, SessionTypes
  <2>9. DoomedIsReplaced'
    BY <1>17 DEF Disconnect, Moving, serverFiles, DoomedIsReplaced, ServerTypes, Versions,
         AttemptTypes, Working
  <2>10. NothingRunsUnstarted'
    BY <1>17 DEF Disconnect, Moving, records, NothingRunsUnstarted, Recorded, RecordTypes,
         AttemptTypes, Working, SessionTypes
  <2> QED
    BY <2>1, <2>2, <2>3, <2>4, <2>5, <2>6, <2>7, <2>8, <2>9, <2>10 DEF SetAsideInv
<1>18. CASE SessionClosed
  <2>1. ServerTypes'
    BY <1>18 DEF SessionClosed, serverFiles, ServerTypes, Versions
  <2>2. RecordTypes'
    BY <1>18 DEF SessionClosed, records, RecordTypes
  <2>3. AttemptTypes'
    BY <1>18 DEF SessionClosed, AttemptTypes, Working, Moving
  <2>4. SessionTypes'
    BY <1>18 DEF SessionClosed, SessionTypes
  <2>5. TriesCount'
    BY <1>18 DEF SessionClosed, TriesCount, AttemptTypes, Working, Moving
  <2>6. RecordsInOrder'
    BY <1>18 DEF SessionClosed, serverFiles, records, RecordsInOrder, Recorded,
         ServerTypes, Versions, RecordTypes, AttemptTypes, Working, Moving
  <2>7. EmptyNameIsRecorded'
    BY <1>18 DEF SessionClosed, serverFiles, records, EmptyNameIsRecorded, ServerTypes,
         Versions, RecordTypes
  <2>8. WholeUntilLanded'
    BY <1>18 DEF SessionClosed, serverFiles, records, WholeUntilLanded, Moving, Recorded,
         ServerTypes, Versions, RecordTypes, AttemptTypes, Working, SessionTypes
  <2>9. DoomedIsReplaced'
    BY <1>18 DEF SessionClosed, serverFiles, DoomedIsReplaced, ServerTypes, Versions,
         AttemptTypes, Working, Moving
  <2>10. NothingRunsUnstarted'
    BY <1>18 DEF SessionClosed, records, NothingRunsUnstarted, Recorded, RecordTypes,
         AttemptTypes, Working, Moving, SessionTypes
  <2> QED
    BY <2>1, <2>2, <2>3, <2>4, <2>5, <2>6, <2>7, <2>8, <2>9, <2>10 DEF SetAsideInv
<1>19. CASE Crash
  <2>1. /\ ServerTypes'
        /\ nameHolds' = Nothing => lastHidden' # NoAside /\ hidden'[lastHidden'] # Nothing
        /\ \/ lastHidden' = lastHidden
           \/ \E s \in Stagings : upPc[s] = "aside" /\ lastHidden' = NewAside(s)
    <3>1. CASE UNCHANGED serverFiles
      BY <3>1 DEF serverFiles, ServerTypes, EmptyNameIsRecorded
    <3>2. ASSUME NEW s \in Stagings, upPc[s] \in Moving, Request(s)
          PROVE  /\ ServerTypes'
                 /\ nameHolds' = Nothing => lastHidden' # NoAside /\ hidden'[lastHidden'] # Nothing
                 /\ lastHidden' = lastHidden \/ (upPc[s] = "aside" /\ lastHidden' = NewAside(s))
      BY <3>2, RequestEffect
    <3> QED
      BY <1>19, <3>1, <3>2 DEF Crash
  <2>2. /\ \A s \in Stagings : setAside'[s] = NoEntry /\ doomed'[s] = NoAside
        /\ UNCHANGED <<keptStranded, upTry>>
        /\ \A s \in Stagings : upPc'[s] = IF upPc[s] = "idle" THEN "idle" ELSE "done"
    BY <1>19 DEF Crash
  <2>3. RecordTypes'
    BY <1>19, NoEntryShape DEF Crash, RecordTypes
  <2>4. AttemptTypes'
    BY <1>19 DEF Crash, AttemptTypes, Working
  <2>5. SessionTypes'
    <3>1. /\ crashes < MaxCrashes /\ crashes' = crashes + 1
          /\ appUp' = FALSE /\ pane' = "down" /\ stranding' = {}
      BY <1>19 DEF Crash
    <3>2. crashes \in 0 .. MaxCrashes /\ MaxCrashes \in Nat
      BY DEF SessionTypes
    <3>3. crashes' \in 0 .. MaxCrashes
      BY <3>1, <3>2
    <3> QED
      BY <3>1, <3>3 DEF SessionTypes
  <2>6. TriesCount'
    BY <2>2 DEF TriesCount
  <2>7. RecordsInOrder'
    BY <2>1, <2>2, NoEntryShape, NewAsideShape DEF RecordsInOrder, Recorded
  <2>8. EmptyNameIsRecorded'
    <3> SUFFICES ASSUME nameHolds' = Nothing
                 PROVE  \/ lastHidden' \in unrecorded'
                        \/ \E s \in Stagings : lastHidden' = keptStranded[s]
      BY <2>1, <2>2 DEF EmptyNameIsRecorded
    <3>1. lastHidden' \in Asides /\ hidden'[lastHidden'] # Nothing
      BY <2>1 DEF ServerTypes
    <3> QED
      BY <1>19, <3>1 DEF Crash
  <2>9. WholeUntilLanded'
    BY <2>2 DEF WholeUntilLanded, Moving
  <2>10. DoomedIsReplaced' /\ NothingRunsUnstarted'
    BY <1>19, <2>2, NoEntryShape DEF DoomedIsReplaced, NothingRunsUnstarted, Recorded, Crash
  <2> QED
    BY <2>1, <2>3, <2>4, <2>5, <2>6, <2>7, <2>8, <2>9, <2>10
<1>20. CASE StartUp
  <2>1. ServerTypes'
    BY <1>20 DEF StartUp, serverFiles, ServerTypes, Versions
  <2>2. RecordTypes'
    <3>1. ASSUME NEW r \in Stagings, keptStranded[r] # NoAside
          PROVE  [aside |-> keptStranded[r], stranded |-> TRUE]
                    \in [aside : Asides \cup {NoAside}, stranded : BOOLEAN]
      BY <3>1, RecordShape
    <3> QED
      BY <1>20, <3>1, NoEntryShape DEF StartUp, RecordTypes
  <2>3. AttemptTypes'
    BY <1>20 DEF StartUp, AttemptTypes, Working, Moving
  <2>4. SessionTypes'
    BY <1>20 DEF StartUp, SessionTypes
  <2>5. TriesCount'
    BY <1>20 DEF StartUp, TriesCount, AttemptTypes, Working, Moving
  <2>6. RecordsInOrder'
    BY <1>20, NoEntryShape, AsideShape, NewAsideShape DEF StartUp, serverFiles,
         RecordsInOrder, Recorded, ServerTypes, Versions, RecordTypes, AttemptTypes,
         Working, Moving, SessionTypes, TriesCount, EmptyNameIsRecorded, WholeUntilLanded,
         DoomedIsReplaced, NothingRunsUnstarted
  <2>7. EmptyNameIsRecorded'
    BY <1>20 DEF StartUp, serverFiles, EmptyNameIsRecorded, NothingRunsUnstarted, Recorded
  <2>8. WholeUntilLanded'
    BY <1>20 DEF StartUp, WholeUntilLanded, NothingRunsUnstarted, Moving
  <2>9. DoomedIsReplaced'
    BY <1>20 DEF StartUp, serverFiles, DoomedIsReplaced, ServerTypes, Versions,
         AttemptTypes, Working, Moving
  <2>10. NothingRunsUnstarted'
    BY <1>20 DEF StartUp, NothingRunsUnstarted, Recorded, RecordTypes, AttemptTypes,
         Working, Moving, SessionTypes
  <2> QED
    BY <2>1, <2>2, <2>3, <2>4, <2>5, <2>6, <2>7, <2>8, <2>9, <2>10 DEF SetAsideInv
<1>21. CASE ForeignWrite
  <2>1. ServerTypes'
    BY <1>21 DEF ForeignWrite, ServerTypes, Versions
  <2>2. RecordTypes'
    BY <1>21 DEF ForeignWrite, records, RecordTypes
  <2>3. AttemptTypes'
    BY <1>21 DEF ForeignWrite, AttemptTypes, Working, Moving
  <2>4. SessionTypes'
    BY <1>21 DEF ForeignWrite, sessionVars, SessionTypes
  <2>5. TriesCount'
    BY <1>21 DEF ForeignWrite, TriesCount, AttemptTypes, Working, Moving
  <2>6. RecordsInOrder'
    BY <1>21 DEF ForeignWrite, records, RecordsInOrder, Recorded, ServerTypes, Versions,
         RecordTypes, AttemptTypes, Working, Moving
  <2>7. EmptyNameIsRecorded'
    BY <1>21 DEF ForeignWrite, records, EmptyNameIsRecorded, ServerTypes, Versions,
         RecordTypes
  <2>8. WholeUntilLanded'
    BY <1>21 DEF ForeignWrite, records, sessionVars, WholeUntilLanded, Moving, Recorded,
         ServerTypes, Versions, RecordTypes, AttemptTypes, Working, SessionTypes
  <2>9. DoomedIsReplaced'
    BY <1>21 DEF ForeignWrite, DoomedIsReplaced, ServerTypes, Versions, AttemptTypes,
         Working, Moving
  <2>10. NothingRunsUnstarted'
    BY <1>21 DEF ForeignWrite, records, sessionVars, NothingRunsUnstarted, Recorded,
         RecordTypes, AttemptTypes, Working, Moving, SessionTypes
  <2> QED
    BY <2>1, <2>2, <2>3, <2>4, <2>5, <2>6, <2>7, <2>8, <2>9, <2>10 DEF SetAsideInv
<1> QED
  BY <1>1, <1>2, <1>3, <1>4, <1>5, <1>6, <1>7, <1>8, <1>9, <1>10, <1>11, <1>12, <1>13,
       <1>14, <1>15, <1>16, <1>17, <1>18, <1>19, <1>20, <1>21 DEF SetAsideNext

(* The server starts with the old version at its name and nothing recorded. *)
LEMMA SetAsideInvInit == SetAsideInit => SetAsideInv
<1> SUFFICES ASSUME SetAsideInit PROVE SetAsideInv
  OBVIOUS
<1>1. ServerTypes
  BY DEF SetAsideInit, ServerTypes, Versions
<1>2. RecordTypes
  BY NoEntryShape DEF SetAsideInit, RecordTypes
<1>3. AttemptTypes
  BY DEF SetAsideInit, AttemptTypes, Working
<1>4. SessionTypes
  <2>1. crashes \in 0 .. MaxCrashes
    BY SetAsideAssumption DEF SetAsideInit
  <2>2. pane \in {"down", "restoring", "up", "closing"}
    BY DEF SetAsideInit
  <2>3. stranding \subseteq Stagings
    BY DEF SetAsideInit
  <2>4. appUp \in BOOLEAN
    BY DEF SetAsideInit
  <2> QED
    BY <2>1, <2>2, <2>3, <2>4 DEF SessionTypes
<1>5. TriesCount
  <2> SUFFICES ASSUME NEW s \in Stagings
               PROVE  upTry[s] \in 0 .. MaxReplacements[s] /\ upPc[s] = "idle"
    BY DEF TriesCount
  <2>1. MaxReplacements[s] \in Nat
    BY SetAsideAssumption
  <2>2. upTry[s] = 0 /\ upPc[s] = "idle"
    BY DEF SetAsideInit
  <2> QED
    BY <2>1, <2>2
<1>6. RecordsInOrder /\ NothingRunsUnstarted
  BY NoEntryShape DEF SetAsideInit, RecordsInOrder, NothingRunsUnstarted, Recorded
<1>7. EmptyNameIsRecorded
  BY DEF SetAsideInit, EmptyNameIsRecorded, Nothing
<1>8. WholeUntilLanded /\ DoomedIsReplaced
  BY DEF SetAsideInit, WholeUntilLanded, DoomedIsReplaced, Moving
<1> QED
  BY <1>1, <1>2, <1>3, <1>4, <1>5, <1>6, <1>7, <1>8 DEF SetAsideInv

(* Of every step: a hidden version goes only back to the name or, once its  *)
(* upload has taken the name, away.                                         *)
LEMMA HiddenVersionIsSpared ==
  ASSUME SetAsideInv, [SetAsideNext]_setAsideVars,
         NEW a \in Asides, hidden[a] # Nothing, hidden'[a] = Nothing, hidden[a] # nameHolds'
  PROVE  a[1] \in landed
<1> USE DEF SetAsideInv
<1>1. ASSUME NEW s \in Stagings, upPc[s] \in Moving \cup {"clear"}, Request(s)
      PROVE  a[1] \in landed
  <2>1. CASE upPc[s] \in {"move", "over"}
    BY <1>1, <2>1 DEF Request, Publish
  <2>2. CASE upPc[s] = "aside"
    BY <1>1, <2>2, NewAsideShape DEF Request, HideOld, ServerTypes
  <2>3. CASE upPc[s] = "restore"
    BY <1>1, <2>3, NewAsideShape DEF Request, PutBack, ServerTypes
  <2>4. CASE upPc[s] = "clear"
    <3>1. RemoveHidden(doomed[s])
      BY <1>1, <2>4 DEF Request
    <3>2. doomed[s] # NoAside /\ doomed[s] \in Asides /\ a = doomed[s]
      BY <3>1 DEF RemoveHidden, AttemptTypes, ServerTypes
    <3> QED
      BY <2>4, <3>2 DEF DoomedIsReplaced
  <2> QED
    BY <1>1, <2>1, <2>2, <2>3, <2>4 DEF Moving
<1>2. CASE UNCHANGED hidden
  BY <1>2
<1>3. ASSUME NEW s \in Stagings, PutBack(setAside[s].aside)
      PROVE  FALSE
  BY <1>3 DEF PutBack, ServerTypes
<1>4. ASSUME NEW s \in Stagings, PutBackThenRemove(s)
      PROVE  FALSE
  BY <1>3, <1>4 DEF PutBackThenRemove, serverFiles, ServerTypes
<1>5. ASSUME NEW s \in Stagings, Rename(s) \/ RenameOver(s)
      PROVE  UNCHANGED hidden
  BY <1>5 DEF Rename, RenameOver, Publish, serverFiles
<1>6. ASSUME NEW s \in Stagings, RenameAside(s)
      PROVE  a[1] \in landed
  BY <1>2, <1>6, NewAsideShape DEF RenameAside, HideOld, serverFiles, ServerTypes
<1>7. ASSUME NEW s \in Stagings, Restore(s)
      PROVE  a[1] \in landed
  BY <1>2, <1>7, NewAsideShape DEF Restore, PutBack, serverFiles, ServerTypes
<1>8. ASSUME NEW s \in Stagings, RemoveOld(s)
      PROVE  a[1] \in landed
  <2>1. CASE RemoveHidden(doomed[s])
    <3>1. doomed[s] # NoAside /\ doomed[s] \in Asides /\ a = doomed[s]
      BY <2>1 DEF RemoveHidden, AttemptTypes, ServerTypes
    <3> QED
      BY <1>8, <3>1 DEF DoomedIsReplaced, RemoveOld
  <2> QED
    BY <1>2, <1>8, <2>1 DEF RemoveOld, serverFiles
<1>9. ASSUME NEW s \in Stagings, LoseConnection(s) \/ DropAttempt(s)
      PROVE  a[1] \in landed
  BY <1>1, <1>2, <1>9 DEF LoseConnection, DropAttempt, Unanswered, serverFiles
<1>10. ASSUME NEW s \in Stagings,
              CleanUp(s) \/ PutBackStranded(s) \/ DiscardPaused(s)
       PROVE  UNCHANGED hidden
  BY <1>4, <1>10 DEF CleanUp, PutBackStranded, DiscardPaused, serverFiles
<1>11. ASSUME NEW s \in Stagings, StageWhole(s) \/ LookAfterLoss(s) \/ Strand(s)
       PROVE  UNCHANGED hidden
  BY <1>11 DEF StageWhole, LookAfterLoss, Strand, serverFiles
<1>12. CASE Crash
  BY <1>1, <1>2, <1>12 DEF Crash, serverFiles
<1>13. ASSUME Connect \/ OpenSession \/ Disconnect \/ SessionClosed \/ StartUp \/ ForeignWrite
       PROVE  UNCHANGED hidden
  BY <1>13 DEF Connect, OpenSession, Disconnect, SessionClosed, StartUp, ForeignWrite, serverFiles
<1>14. CASE UNCHANGED setAsideVars
  BY <1>2, <1>14 DEF setAsideVars
<1> QED
  BY <1>2, <1>5, <1>6, <1>7, <1>8, <1>9, <1>10, <1>11, <1>12, <1>13, <1>14 DEF SetAsideNext

(* While the name is empty a record leads to the version last taken off it, *)
(* unless that very rename was cut off: for any uploads and any number of   *)
(* their attempts, through crashes, lost answers, pauses and disconnects, as *)
(* long as the server answers a question for a size.                        *)
THEOREM HiddenVersionsAreRecorded ==
  ASSUME SizesAnswered
  PROVE  SetAsideSpec => []HiddenVersionIsRecorded
<1>1. SetAsideInit => SetAsideInv
  BY SetAsideInvInit
<1>2. SetAsideInv /\ [SetAsideNext]_setAsideVars => SetAsideInv'
  BY SetAsideInvStep, SizesAnswered
<1>3. SetAsideInv => HiddenVersionIsRecorded
  BY DEF SetAsideInv, EmptyNameIsRecorded, HiddenVersionIsRecorded
<1> QED
  BY <1>1, <1>2, <1>3, PTL DEF SetAsideSpec

(* A version hidden under another name is deleted only after the upload that *)
(* hid it has taken the name: at least one version stands at every moment.  *)
THEOREM PreviousVersionsSurvive ==
  ASSUME SizesAnswered
  PROVE  SetAsideSpec => PreviousVersionSurvives
<1>1. SetAsideInit => SetAsideInv
  BY SetAsideInvInit
<1>2. SetAsideInv /\ [SetAsideNext]_setAsideVars => SetAsideInv'
  BY SetAsideInvStep, SizesAnswered
<1>3. SetAsideInv /\ [SetAsideNext]_setAsideVars
        => [\A a \in Asides :
              hidden[a] # Nothing /\ hidden'[a] = Nothing /\ hidden[a] # nameHolds'
                => a[1] \in landed]_setAsideVars
  BY HiddenVersionIsSpared
<1> QED
  BY <1>1, <1>2, <1>3, PTL DEF SetAsideSpec, PreviousVersionSurvives
-----------------------------------------------------------------------------
(* DownloadFile: a download with a partial that outlives its attempt *)
\* The types of the variables, in four parts.
RemoteVersions == 0 .. MaxRemoteEdits + 1
ContentTypes == dest \in Contents /\ parts \in [Artifacts -> Contents]
SeenTypes ==
    /\ rVersion \in 1 .. MaxRemoteEdits + 1 /\ dSeen \in RemoteVersions
    /\ resumeRec \in [of : RemoteVersions, artifact : 0 .. MaxDownloads]
AttemptBounds ==
    /\ dArt \in 0 .. MaxDownloads /\ dStart \in 0 .. Pieces /\ dTries \in 0 .. MaxDownloads
AttemptFlags ==
    /\ dOver \in BOOLEAN /\ dUnasked \in BOOLEAN
    /\ dPc \in {"idle", "asking", "creating", "recording", "reading", "asked", "commit",
                "spent", "failed", "changed", "discard"}

\* A record of a known version names a partial, and an attempt has one.
ArtifactsExist ==
    /\ resumeRec # NoRecord => resumeRec.artifact \in Artifacts
    /\ dPc # "idle" => dTries \in Artifacts
    /\ dPc \in {"creating", "recording", "reading", "asked", "commit", "spent", "failed", "changed"}
          => dArt \in Artifacts
    /\ dPc \in {"recording", "reading", "asked", "commit"} => parts[dArt] # NoContent

\* A server's answer is of its past.
AnswersAreOld == dSeen <= rVersion /\ resumeRec.of <= rVersion

\* Every piece is of a version the server had, and not of one before the answer that
\* the partial's record, or its attempt, holds.
Between(content, low, high) ==
    content # NoContent => \A i \in 1 .. Len(content) : low <= content[i] /\ content[i] <= high

\* Of every partial, of the recorded one, and of the one an attempt writes.
PiecesAreInOrder ==
    /\ \A a \in Artifacts : Between(parts[a], 0, rVersion)
    /\ resumeRec # NoRecord => Between(parts[resumeRec.artifact], resumeRec.of, rVersion)
    /\ dPc \in {"recording", "reading", "asked", "commit"} => Between(parts[dArt], dSeen, rVersion)

\* What is about to be put in place is one version, whole.
OneVersion(content) ==
    Len(content) = Pieces /\ \A i, j \in 1 .. Pieces : content[i] = content[j]
CommitsOneVersion == dPc = "commit" => dUnasked \/ OneVersion(parts[dArt])

(* The inductive invariant: pieces are no older than what vouches for them.  *)
DownloadInv ==
    /\ ContentTypes /\ SeenTypes /\ AttemptBounds /\ AttemptFlags
    /\ ArtifactsExist /\ AnswersAreOld /\ PiecesAreInOrder /\ CommitsOneVersion
    /\ DestinationIsOneVersion

(* The bounds are numbers. *)
LEMMA DownloadBounds ==
  /\ Pieces \in Nat /\ Pieces >= 1 /\ MaxDownloads \in Nat /\ MaxRemoteEdits \in Nat
  /\ Artifacts \subseteq Nat /\ \A n \in Nat : n \in Artifacts <=> 1 <= n /\ n <= MaxDownloads
  /\ RemoteVersions \subseteq Nat /\ 0 \in RemoteVersions
  /\ \A n \in Nat : n \in RemoteVersions <=> n <= MaxRemoteEdits + 1
BY DownloadAssumption DEF Artifacts, RemoteVersions

(* A file is a sequence of versions, and grows by one piece. *)
LEMMA ContentShape ==
  /\ NoContent \in Contents /\ <<>> \in Contents /\ NoContent # <<>>
  /\ Len(<<>>) = 0
  /\ \A c \in Contents :
        /\ Len(c) \in Nat /\ Len(c) <= Pieces
        /\ \A i \in 1 .. Len(c) : c[i] \in Nat
        /\ \A v \in RemoteVersions :
              Len(c) < Pieces =>
                 /\ Append(c, v) \in Contents
                 /\ Len(Append(c, v)) = Len(c) + 1
                 /\ v >= 1 => Append(c, v) # NoContent
                 /\ \A i \in 1 .. Len(c) + 1 : Append(c, v)[i] = IF i <= Len(c) THEN c[i] ELSE v
<1>1. NoContent \in Contents
  <2>1. NoContent = [i \in 1 .. 1 |-> 0]
    BY DEF NoContent
  <2> QED
    BY <2>1, DownloadBounds DEF Contents, RemoteVersions
<1>2. <<>> \in Contents /\ Len(<<>>) = 0 /\ NoContent # <<>>
  <2>1. <<>> = [i \in 1 .. 0 |-> 0]
    OBVIOUS
  <2>2. <<>> \in Contents
    BY <2>1, DownloadBounds DEF Contents, RemoteVersions
  <2> QED
    BY <2>2 DEF NoContent
<1>3. ASSUME NEW c \in Contents
      PROVE  /\ c \in Seq(RemoteVersions) /\ Len(c) \in Nat /\ Len(c) <= Pieces
             /\ \A i \in 1 .. Len(c) : c[i] \in Nat
  <2>1. PICK n \in 0 .. Pieces : c \in [1 .. n -> RemoteVersions]
    BY DEF Contents, RemoteVersions
  <2>2. c \in Seq(RemoteVersions)
    BY <2>1, SeqDef
  <2>3. Len(c) = n
    <3>1. DOMAIN c = 1 .. Len(c) /\ Len(c) \in Nat
      BY <2>2, LenProperties
    <3>2. 1 .. Len(c) = 1 .. n
      BY <2>1, <3>1
    <3>3. (n # 0 => n \in 1 .. n) /\ (Len(c) # 0 => Len(c) \in 1 .. Len(c))
      BY <3>1, DownloadBounds
    <3>4. (n # 0 => n \in 1 .. Len(c)) /\ (Len(c) # 0 => Len(c) \in 1 .. n)
      BY <3>2, <3>3, Zenon
    <3>5. n \in Nat /\ Len(c) \in Nat
      BY <3>1, DownloadBounds
    <3> QED
      BY <3>4, <3>5
  <2>4. \A i \in 1 .. Len(c) : c[i] \in RemoteVersions
    BY <2>2, ElementOfSeq
  <2>5. \A i \in 1 .. Len(c) : c[i] \in Nat
    BY <2>4, DownloadBounds
  <2>6. Len(c) \in Nat /\ Len(c) <= Pieces
    BY <2>3, DownloadBounds
  <2> QED
    BY <2>2, <2>5, <2>6
<1>4. ASSUME NEW c \in Contents, NEW v \in RemoteVersions, Len(c) < Pieces
      PROVE  /\ Append(c, v) \in Contents
             /\ Len(Append(c, v)) = Len(c) + 1
             /\ \A i \in 1 .. Len(c) + 1 : Append(c, v)[i] = IF i <= Len(c) THEN c[i] ELSE v
  <2>1. c \in Seq(RemoteVersions) /\ Len(c) \in Nat
    BY <1>3
  <2>2. /\ Append(c, v) \in Seq(RemoteVersions) /\ Len(Append(c, v)) = Len(c) + 1
        /\ \A i \in 1 .. Len(c) + 1 : Append(c, v)[i] = IF i <= Len(c) THEN c[i] ELSE v
    BY <2>1
  <2>3. Append(c, v) \in [1 .. Len(c) + 1 -> RemoteVersions]
    BY <2>2, LenProperties
  <2>4. Len(c) + 1 \in 0 .. Pieces
    BY <1>4, <2>1, DownloadBounds
  <2> QED
    BY <2>2, <2>3, <2>4 DEF Contents, RemoteVersions
<1>5. ASSUME NEW c \in Contents, NEW v \in RemoteVersions, Len(c) < Pieces, v >= 1
      PROVE  Append(c, v) # NoContent
  <2>1. Len(NoContent) = 1 /\ NoContent[1] = 0
    BY DEF NoContent
  <2> QED
    BY <1>3, <1>4, <1>5, <2>1
<1> QED
  BY <1>1, <1>2, <1>3, <1>4, <1>5

(* Pieces that stay, or go with their file, keep their place in the order. *)
LEMMA PiecesGo ==
  ASSUME ArtifactsExist, PiecesAreInOrder, UNCHANGED <<rVersion, dSeen, dArt>>,
         resumeRec' \in {resumeRec, NoRecord},
         \A a \in Artifacts : parts'[a] \in {parts[a], NoContent},
         dPc' \notin {"recording", "reading", "asked", "commit"}
  PROVE  PiecesAreInOrder'
BY DEF PiecesAreInOrder, Between, ArtifactsExist

(* Every step of the attempt and of the server keeps it. *)
LEMMA DownloadInvStep ==
  ASSUME DownloadInv, [DownloadNext]_downloadVars
  PROVE  DownloadInv'
<1> USE DEF DownloadInv
<1> USE ContentShape, DownloadBounds
<1>0. /\ resumeRec.of \in Nat /\ dSeen \in Nat /\ rVersion \in Nat /\ rVersion >= 1
      /\ rVersion \in RemoteVersions
  <2> HIDE ContentShape, DownloadBounds
  <2>1. rVersion \in 1 .. MaxRemoteEdits + 1 /\ dSeen \in RemoteVersions
        /\ resumeRec.of \in RemoteVersions
    BY DEF SeenTypes
  <2>2. rVersion \in Nat /\ rVersion >= 1 /\ rVersion <= MaxRemoteEdits + 1
    BY <2>1, DownloadBounds
  <2> QED
    BY <2>1, <2>2, DownloadBounds
<1>1. CASE UNCHANGED downloadVars
  <2>1. ContentTypes'
    BY <1>1 DEF downloadVars, ContentTypes
  <2>2. SeenTypes'
    BY <1>1 DEF downloadVars, SeenTypes
  <2>3. AttemptBounds'
    BY <1>1 DEF downloadVars, AttemptBounds
  <2>4. AttemptFlags'
    BY <1>1 DEF downloadVars, AttemptFlags
  <2>5. ArtifactsExist'
    BY <1>1 DEF downloadVars, ArtifactsExist, NoRecord, ContentTypes, SeenTypes,
         AttemptBounds, AttemptFlags
  <2>6. AnswersAreOld'
    BY <1>1 DEF downloadVars, AnswersAreOld, SeenTypes
  <2>7. PiecesAreInOrder'
    BY <1>1 DEF downloadVars, PiecesAreInOrder, Between, NoRecord, ContentTypes,
         SeenTypes, AttemptBounds, AttemptFlags
  <2>8. CommitsOneVersion'
    BY <1>1 DEF downloadVars, CommitsOneVersion, OneVersion, ContentTypes, AttemptBounds,
         AttemptFlags
  <2>9. DestinationIsOneVersion'
    BY <1>1 DEF downloadVars, DestinationIsOneVersion, ContentTypes, AttemptFlags
  <2> QED
    BY <2>1, <2>2, <2>3, <2>4, <2>5, <2>6, <2>7, <2>8, <2>9 DEF DownloadInv
<1>2. CASE ReserveDownload
  <2>1. ContentTypes'
    BY <1>2 DEF ReserveDownload, beside, ContentTypes
  <2>2. SeenTypes'
    BY <1>2 DEF ReserveDownload, beside, SeenTypes
  <2>3. AttemptBounds'
    BY <1>2 DEF ReserveDownload, AttemptBounds
  <2>4. AttemptFlags'
    BY <1>2 DEF ReserveDownload, AttemptFlags
  <2>5. ArtifactsExist'
    BY <1>2 DEF ReserveDownload, beside, ArtifactsExist, NoRecord, ContentTypes,
         SeenTypes, AttemptBounds, AttemptFlags
  <2>6. AnswersAreOld'
    BY <1>2 DEF ReserveDownload, beside, AnswersAreOld, SeenTypes
  <2>7. PiecesAreInOrder'
    BY <1>2 DEF ReserveDownload, beside, PiecesAreInOrder, Between, NoRecord,
         ContentTypes, SeenTypes, AttemptBounds, AttemptFlags
  <2>8. CommitsOneVersion'
    BY <1>2 DEF ReserveDownload, beside, CommitsOneVersion, OneVersion, ContentTypes,
         AttemptBounds, AttemptFlags
  <2>9. DestinationIsOneVersion'
    BY <1>2 DEF ReserveDownload, DestinationIsOneVersion, ContentTypes, AttemptFlags
  <2> QED
    BY <2>1, <2>2, <2>3, <2>4, <2>5, <2>6, <2>7, <2>8, <2>9 DEF DownloadInv
<1>3. CASE Prepare
  <2>1. ContentTypes'
    BY <1>3 DEF Prepare, beside, ContentTypes
  <2>2. SeenTypes'
    BY <1>3 DEF Prepare, SourceIdentity, beside, SeenTypes
  <2>3. AttemptBounds'
    BY <1>3 DEF Prepare, SourceIdentity, beside, AttemptBounds, ContentTypes, SeenTypes,
         AttemptFlags, ArtifactsExist, NoRecord, AnswersAreOld, PiecesAreInOrder, Between,
         CommitsOneVersion, OneVersion, DestinationIsOneVersion
  <2>4. AttemptFlags'
    BY <1>3 DEF Prepare, AttemptFlags
  <2>5. ArtifactsExist'
    BY <1>3 DEF Prepare, beside, ArtifactsExist, NoRecord, ContentTypes, SeenTypes,
         AttemptBounds, AttemptFlags
  <2>6. AnswersAreOld'
    BY <1>3 DEF Prepare, SourceIdentity, beside, AnswersAreOld, SeenTypes
  <2>7. PiecesAreInOrder'
    BY <1>3 DEF Prepare, SourceIdentity, beside, PiecesAreInOrder, Between, NoRecord,
         ContentTypes, SeenTypes, AttemptBounds, AttemptFlags
  <2>8. CommitsOneVersion'
    <3> SUFFICES ASSUME dPc' = "commit", ~dUnasked
                 PROVE  OneVersion(parts'[dArt'])
      BY <1>3 DEF Prepare, CommitsOneVersion
    <3>1. /\ resumeRec.of = dSeen' /\ dSeen' = rVersion /\ parts[resumeRec.artifact] # NoContent
          /\ dArt' = resumeRec.artifact /\ parts' = parts /\ Len(parts[dArt']) = Pieces
      BY <1>3 DEF Prepare, SourceIdentity, beside
    <3>2. resumeRec # NoRecord /\ rVersion \in Nat
      BY <3>1 DEF NoRecord, SeenTypes
    <3>3. dArt' \in Artifacts /\ parts[dArt'] \in Contents
      BY <3>1, <3>2 DEF ArtifactsExist, ContentTypes
    <3>4. \A i \in 1 .. Pieces : parts[dArt'][i] \in Nat
      BY <3>1, <3>3, ContentShape
    <3> HIDE ContentShape
    <3>5. Between(parts[dArt'], rVersion, rVersion)
      BY <3>1, <3>2 DEF PiecesAreInOrder
    <3>6. \A i \in 1 .. Pieces : parts[dArt'][i] = rVersion
      BY <3>1, <3>4, <3>5, <1>0 DEF Between
    <3> QED
      BY <3>1, <3>6 DEF OneVersion
  <2>9. DestinationIsOneVersion'
    BY <1>3 DEF Prepare, DestinationIsOneVersion, ContentTypes, AttemptFlags
  <2> QED
    BY <2>1, <2>2, <2>3, <2>4, <2>5, <2>6, <2>7, <2>8, <2>9 DEF DownloadInv
<1>4. CASE CreatePartial
  <2>1. ContentTypes'
    BY <1>4 DEF CreatePartial, ContentTypes
  <2>2. SeenTypes'
    BY <1>4 DEF CreatePartial, attempt, SeenTypes
  <2>3. AttemptBounds'
    BY <1>4 DEF CreatePartial, attempt, AttemptBounds
  <2>4. AttemptFlags'
    BY <1>4 DEF CreatePartial, attempt, AttemptFlags
  <2>5. ArtifactsExist'
    BY <1>4 DEF CreatePartial, attempt, ArtifactsExist, NoRecord, ContentTypes, SeenTypes,
         AttemptBounds, AttemptFlags
  <2>6. AnswersAreOld'
    BY <1>4 DEF CreatePartial, attempt, AnswersAreOld, SeenTypes
  <2>7. PiecesAreInOrder'
    BY <1>4 DEF CreatePartial, attempt, PiecesAreInOrder, Between, NoRecord, ContentTypes,
         SeenTypes, AttemptBounds, AttemptFlags, ArtifactsExist, AnswersAreOld,
         CommitsOneVersion, OneVersion, DestinationIsOneVersion
  <2>8. CommitsOneVersion'
    BY <1>4 DEF CreatePartial, attempt, CommitsOneVersion, OneVersion, ContentTypes,
         AttemptBounds, AttemptFlags
  <2>9. DestinationIsOneVersion'
    BY <1>4 DEF CreatePartial, DestinationIsOneVersion, ContentTypes, AttemptFlags
  <2> QED
    BY <2>1, <2>2, <2>3, <2>4, <2>5, <2>6, <2>7, <2>8, <2>9 DEF DownloadInv
<1>5. CASE WriteRecord
  <2>1. ContentTypes'
    BY <1>5 DEF WriteRecord, ContentTypes
  <2>2. SeenTypes'
    BY <1>5 DEF WriteRecord, attempt, SeenTypes, ContentTypes, AttemptBounds, AttemptFlags
  <2>3. AttemptBounds'
    BY <1>5 DEF WriteRecord, attempt, AttemptBounds
  <2>4. AttemptFlags'
    BY <1>5 DEF WriteRecord, attempt, AttemptFlags
  <2>5. ArtifactsExist'
    BY <1>5 DEF WriteRecord, attempt, ArtifactsExist, NoRecord, ContentTypes, SeenTypes,
         AttemptBounds, AttemptFlags
  <2>6. AnswersAreOld'
    BY <1>5 DEF WriteRecord, attempt, AnswersAreOld, SeenTypes
  <2>7. PiecesAreInOrder'
    BY <1>5 DEF WriteRecord, attempt, PiecesAreInOrder, Between, NoRecord, ContentTypes,
         SeenTypes, AttemptBounds, AttemptFlags
  <2>8. CommitsOneVersion'
    BY <1>5 DEF WriteRecord, attempt, CommitsOneVersion, OneVersion, ContentTypes,
         AttemptBounds, AttemptFlags
  <2>9. DestinationIsOneVersion'
    BY <1>5 DEF WriteRecord, DestinationIsOneVersion, ContentTypes, AttemptFlags
  <2> QED
    BY <2>1, <2>2, <2>3, <2>4, <2>5, <2>6, <2>7, <2>8, <2>9 DEF DownloadInv
<1>6. CASE StartOver
  <2>1. ContentTypes'
    BY <1>6 DEF StartOver, ContentTypes
  <2>2. SeenTypes'
    BY <1>6 DEF StartOver, attempt, SeenTypes
  <2>3. AttemptBounds'
    BY <1>6 DEF StartOver, attempt, AttemptBounds
  <2>4. AttemptFlags'
    BY <1>6 DEF StartOver, attempt, AttemptFlags
  <2>5. ArtifactsExist'
    BY <1>6 DEF StartOver, attempt, ArtifactsExist, NoRecord, ContentTypes, SeenTypes,
         AttemptBounds, AttemptFlags
  <2>6. AnswersAreOld'
    BY <1>6 DEF StartOver, attempt, AnswersAreOld, SeenTypes
  <2>7. PiecesAreInOrder'
    BY <1>6 DEF StartOver, attempt, PiecesAreInOrder, Between, NoRecord, ContentTypes,
         SeenTypes, AttemptBounds, AttemptFlags
  <2>8. CommitsOneVersion'
    BY <1>6 DEF StartOver, attempt, CommitsOneVersion, OneVersion, ContentTypes,
         AttemptBounds, AttemptFlags
  <2>9. DestinationIsOneVersion'
    BY <1>6 DEF StartOver, DestinationIsOneVersion, ContentTypes, AttemptFlags
  <2> QED
    BY <2>1, <2>2, <2>3, <2>4, <2>5, <2>6, <2>7, <2>8, <2>9 DEF DownloadInv
<1>7. CASE ReadPiece
  <2>1. ContentTypes'
    BY <1>7 DEF ReadPiece, attempt, ContentTypes, SeenTypes, AttemptBounds, AttemptFlags,
         ArtifactsExist, NoRecord, AnswersAreOld, PiecesAreInOrder, Between,
         CommitsOneVersion, OneVersion, DestinationIsOneVersion
  <2>2. SeenTypes'
    BY <1>7 DEF ReadPiece, attempt, SeenTypes
  <2>3. AttemptBounds'
    BY <1>7 DEF ReadPiece, attempt, AttemptBounds
  <2>4. AttemptFlags'
    BY <1>7 DEF ReadPiece, attempt, AttemptFlags
  <2>5. ArtifactsExist'
    <3>1. dArt \in Artifacts /\ parts[dArt] \in Contents /\ Len(parts[dArt]) < Pieces
      BY <1>7 DEF ReadPiece, ArtifactsExist, ContentTypes
    <3>2. Append(parts[dArt], rVersion) # NoContent
      BY <1>0, <3>1
    <3> HIDE ContentShape
    <3> QED
      BY <1>7, <3>1, <3>2 DEF ReadPiece, attempt, ArtifactsExist, ContentTypes
  <2>6. AnswersAreOld'
    BY <1>7 DEF ReadPiece, attempt, AnswersAreOld, SeenTypes
  <2>7. PiecesAreInOrder'
    <3>1. dArt \in Artifacts /\ parts[dArt] \in Contents /\ Len(parts[dArt]) < Pieces
          /\ parts[dArt] # NoContent
      BY <1>7 DEF ReadPiece, ArtifactsExist, ContentTypes
    <3>2. ASSUME NEW low \in Nat, low <= rVersion, Between(parts[dArt], low, rVersion)
          PROVE  Between(Append(parts[dArt], rVersion), low, rVersion)
      BY <3>1, <3>2, <1>0 DEF Between
    <3>3. Between(Append(parts[dArt], rVersion), 0, rVersion)
      BY <1>0, <3>1, <3>2 DEF PiecesAreInOrder
    <3>4. Between(Append(parts[dArt], rVersion), dSeen, rVersion)
      BY <1>7, <1>0, <3>2 DEF ReadPiece, PiecesAreInOrder, AnswersAreOld
    <3>5. resumeRec # NoRecord /\ resumeRec.artifact = dArt =>
             Between(Append(parts[dArt], rVersion), resumeRec.of, rVersion)
      BY <1>0, <3>2 DEF PiecesAreInOrder, AnswersAreOld
    <3>6. parts' = [parts EXCEPT ![dArt] = Append(parts[dArt], rVersion)]
      BY <1>7 DEF ReadPiece
    <3>7. \A a \in Artifacts :
             parts'[a] = IF a = dArt THEN Append(parts[dArt], rVersion) ELSE parts[a]
      BY <3>6 DEF ContentTypes
    <3> QED
      BY <1>7, <3>1, <3>3, <3>4, <3>5, <3>7
         DEF ReadPiece, attempt, PiecesAreInOrder, ArtifactsExist
  <2>8. CommitsOneVersion'
    BY <1>7 DEF ReadPiece, attempt, CommitsOneVersion, OneVersion, ContentTypes,
         AttemptBounds, AttemptFlags
  <2>9. DestinationIsOneVersion'
    BY <1>7 DEF ReadPiece, DestinationIsOneVersion, ContentTypes, AttemptFlags
  <2> QED
    BY <2>1, <2>2, <2>3, <2>4, <2>5, <2>6, <2>7, <2>8, <2>9 DEF DownloadInv
<1>8. CASE EndOfRead
  <2>1. ContentTypes'
    BY <1>8 DEF EndOfRead, beside, ContentTypes
  <2>2. SeenTypes'
    BY <1>8 DEF EndOfRead, beside, attempt, SeenTypes
  <2>3. AttemptBounds'
    BY <1>8 DEF EndOfRead, attempt, AttemptBounds
  <2>4. AttemptFlags'
    BY <1>8 DEF EndOfRead, attempt, AttemptFlags
  <2>5. ArtifactsExist'
    BY <1>8 DEF EndOfRead, beside, attempt, ArtifactsExist, NoRecord, ContentTypes,
         SeenTypes, AttemptBounds, AttemptFlags
  <2>6. AnswersAreOld'
    BY <1>8 DEF EndOfRead, beside, attempt, AnswersAreOld, SeenTypes
  <2>7. PiecesAreInOrder'
    BY <1>8 DEF EndOfRead, beside, attempt, PiecesAreInOrder, Between, NoRecord,
         ContentTypes, SeenTypes, AttemptBounds, AttemptFlags
  <2>8. CommitsOneVersion'
    BY <1>8 DEF EndOfRead, beside, attempt, CommitsOneVersion, OneVersion, ContentTypes,
         AttemptBounds, AttemptFlags
  <2>9. DestinationIsOneVersion'
    BY <1>8 DEF EndOfRead, DestinationIsOneVersion, ContentTypes, AttemptFlags
  <2> QED
    BY <2>1, <2>2, <2>3, <2>4, <2>5, <2>6, <2>7, <2>8, <2>9 DEF DownloadInv
<1>9. CASE AskAgain
  <2>1. ContentTypes'
    BY <1>9 DEF AskAgain, beside, ContentTypes
  <2>2. SeenTypes'
    BY <1>9 DEF AskAgain, beside, attempt, SeenTypes
  <2>3. AttemptBounds'
    BY <1>9 DEF AskAgain, attempt, AttemptBounds
  <2>4. AttemptFlags'
    BY <1>9 DEF AskAgain, attempt, AttemptFlags
  <2>5. ArtifactsExist'
    BY <1>9 DEF AskAgain, beside, attempt, ArtifactsExist, NoRecord, ContentTypes,
         SeenTypes, AttemptBounds, AttemptFlags
  <2>6. AnswersAreOld'
    BY <1>9 DEF AskAgain, beside, attempt, AnswersAreOld, SeenTypes
  <2>7. PiecesAreInOrder'
    BY <1>9 DEF AskAgain, beside, attempt, PiecesAreInOrder, Between, NoRecord,
         ContentTypes, SeenTypes, AttemptBounds, AttemptFlags
  <2>8. CommitsOneVersion'
    <3> SUFFICES ASSUME dPc' = "commit", ~dUnasked'
                 PROVE  OneVersion(parts'[dArt'])
      BY <1>9 DEF AskAgain, CommitsOneVersion
    <3>1. /\ dPc = "asked" /\ dSeen = rVersion /\ Len(parts[dArt]) = Pieces
          /\ dArt' = dArt /\ parts' = parts
      BY <1>9 DEF AskAgain, beside, attempt
    <3>2. dArt \in Artifacts /\ parts[dArt] \in Contents /\ parts[dArt] # NoContent
      BY <3>1 DEF ArtifactsExist, ContentTypes
    <3>3. \A i \in 1 .. Pieces : parts[dArt][i] \in Nat
      BY <3>1, <3>2, ContentShape
    <3> HIDE ContentShape
    <3>4. Between(parts[dArt], rVersion, rVersion)
      BY <3>1 DEF PiecesAreInOrder
    <3>5. \A i \in 1 .. Pieces : parts[dArt][i] = rVersion
      BY <3>1, <3>2, <3>3, <3>4, <1>0 DEF Between
    <3> QED
      BY <3>1, <3>5 DEF OneVersion
  <2>9. DestinationIsOneVersion'
    BY <1>9 DEF AskAgain, DestinationIsOneVersion, ContentTypes, AttemptFlags
  <2> QED
    BY <2>1, <2>2, <2>3, <2>4, <2>5, <2>6, <2>7, <2>8, <2>9 DEF DownloadInv
<1>10. CASE Commit
  <2>1. ContentTypes'
    BY <1>10 DEF Commit, RenameNoReplace, attempt, ContentTypes, SeenTypes, AttemptBounds,
         AttemptFlags, ArtifactsExist, NoRecord, AnswersAreOld, PiecesAreInOrder, Between,
         CommitsOneVersion, OneVersion, DestinationIsOneVersion
  <2>2. SeenTypes'
    BY <1>10 DEF Commit, attempt, SeenTypes
  <2>3. AttemptBounds'
    BY <1>10 DEF Commit, RenameNoReplace, attempt, AttemptBounds
  <2>4. AttemptFlags'
    BY <1>10 DEF Commit, attempt, AttemptFlags
  <2>5. ArtifactsExist'
    BY <1>10 DEF Commit, RenameNoReplace, attempt, ArtifactsExist, NoRecord, ContentTypes,
         SeenTypes, AttemptBounds, AttemptFlags
  <2>6. AnswersAreOld'
    BY <1>10 DEF Commit, attempt, AnswersAreOld, SeenTypes
  <2>7. PiecesAreInOrder'
    <3>1. /\ UNCHANGED <<rVersion, dSeen, dArt>> /\ resumeRec' \in {resumeRec, NoRecord}
          /\ dPc' \notin {"recording", "reading", "asked", "commit"}
      BY <1>10 DEF Commit, attempt
    <3>2. \A a \in Artifacts : parts'[a] \in {parts[a], NoContent}
      BY <1>10 DEF Commit, attempt, ContentTypes
    <3> QED
      BY <3>1, <3>2, PiecesGo
  <2>8. CommitsOneVersion'
    BY <1>10 DEF Commit, RenameNoReplace, attempt, CommitsOneVersion, OneVersion,
         ContentTypes, AttemptBounds, AttemptFlags
  <2>9. DestinationIsOneVersion'
    BY <1>10 DEF Commit, RenameNoReplace, attempt, DestinationIsOneVersion, ContentTypes,
         SeenTypes, AttemptBounds, AttemptFlags, ArtifactsExist, NoRecord, AnswersAreOld,
         PiecesAreInOrder, Between, CommitsOneVersion, OneVersion
  <2> QED
    BY <2>1, <2>2, <2>3, <2>4, <2>5, <2>6, <2>7, <2>8, <2>9 DEF DownloadInv
<1>11. CASE ForgetRecord
  <2>1. ContentTypes'
    BY <1>11 DEF ForgetRecord, NoRecord, ContentTypes
  <2>2. SeenTypes'
    BY <1>11 DEF ForgetRecord, NoRecord, attempt, SeenTypes
  <2>3. AttemptBounds'
    BY <1>11 DEF ForgetRecord, NoRecord, attempt, AttemptBounds
  <2>4. AttemptFlags'
    BY <1>11 DEF ForgetRecord, NoRecord, attempt, AttemptFlags
  <2>5. ArtifactsExist'
    BY <1>11 DEF ForgetRecord, NoRecord, attempt, ArtifactsExist, ContentTypes, SeenTypes,
         AttemptBounds, AttemptFlags
  <2>6. AnswersAreOld'
    BY <1>11 DEF ForgetRecord, NoRecord, attempt, AnswersAreOld, SeenTypes
  <2>7. PiecesAreInOrder'
    BY <1>11 DEF ForgetRecord, NoRecord, attempt, PiecesAreInOrder, Between, ContentTypes,
         SeenTypes, AttemptBounds, AttemptFlags
  <2>8. CommitsOneVersion'
    BY <1>11 DEF ForgetRecord, NoRecord, attempt, CommitsOneVersion, OneVersion,
         ContentTypes, AttemptBounds, AttemptFlags
  <2>9. DestinationIsOneVersion'
    BY <1>11 DEF ForgetRecord, NoRecord, DestinationIsOneVersion, ContentTypes,
         AttemptFlags
  <2> QED
    BY <2>1, <2>2, <2>3, <2>4, <2>5, <2>6, <2>7, <2>8, <2>9 DEF DownloadInv
<1>12. CASE FinishFailed
  <2>1. ContentTypes'
    BY <1>12 DEF FinishFailed, attempt, ContentTypes, SeenTypes, AttemptBounds,
         AttemptFlags
  <2>2. SeenTypes'
    BY <1>12 DEF FinishFailed, attempt, SeenTypes
  <2>3. AttemptBounds'
    BY <1>12 DEF FinishFailed, attempt, AttemptBounds
  <2>4. AttemptFlags'
    BY <1>12 DEF FinishFailed, attempt, AttemptFlags
  <2>5. ArtifactsExist'
    BY <1>12 DEF FinishFailed, attempt, ArtifactsExist, NoRecord, ContentTypes, SeenTypes,
         AttemptBounds, AttemptFlags
  <2>6. AnswersAreOld'
    BY <1>12 DEF FinishFailed, attempt, AnswersAreOld, SeenTypes
  <2>7. PiecesAreInOrder'
    <3>1. /\ UNCHANGED <<rVersion, dSeen, dArt>> /\ resumeRec' \in {resumeRec, NoRecord}
          /\ dPc' \notin {"recording", "reading", "asked", "commit"}
      BY <1>12 DEF FinishFailed, attempt
    <3>2. \A a \in Artifacts : parts'[a] \in {parts[a], NoContent}
      BY <1>12 DEF FinishFailed, attempt, ContentTypes
    <3> QED
      BY <3>1, <3>2, PiecesGo
  <2>8. CommitsOneVersion'
    BY <1>12 DEF FinishFailed, attempt, CommitsOneVersion, OneVersion, ContentTypes,
         AttemptBounds, AttemptFlags
  <2>9. DestinationIsOneVersion'
    BY <1>12 DEF FinishFailed, DestinationIsOneVersion, ContentTypes, AttemptFlags
  <2> QED
    BY <2>1, <2>2, <2>3, <2>4, <2>5, <2>6, <2>7, <2>8, <2>9 DEF DownloadInv
<1>13. CASE DropDownload
  <2>1. ContentTypes'
    BY <1>13 DEF DropDownload, beside, ContentTypes
  <2>2. SeenTypes'
    BY <1>13 DEF DropDownload, beside, attempt, SeenTypes
  <2>3. AttemptBounds'
    BY <1>13 DEF DropDownload, attempt, AttemptBounds
  <2>4. AttemptFlags'
    BY <1>13 DEF DropDownload, attempt, AttemptFlags
  <2>5. ArtifactsExist'
    BY <1>13 DEF DropDownload, beside, attempt, ArtifactsExist, NoRecord, ContentTypes,
         SeenTypes, AttemptBounds, AttemptFlags
  <2>6. AnswersAreOld'
    BY <1>13 DEF DropDownload, beside, attempt, AnswersAreOld, SeenTypes
  <2>7. PiecesAreInOrder'
    BY <1>13 DEF DropDownload, beside, attempt, PiecesAreInOrder, Between, NoRecord,
         ContentTypes, SeenTypes, AttemptBounds, AttemptFlags
  <2>8. CommitsOneVersion'
    BY <1>13 DEF DropDownload, beside, attempt, CommitsOneVersion, OneVersion,
         ContentTypes, AttemptBounds, AttemptFlags
  <2>9. DestinationIsOneVersion'
    BY <1>13 DEF DropDownload, DestinationIsOneVersion, ContentTypes, AttemptFlags
  <2> QED
    BY <2>1, <2>2, <2>3, <2>4, <2>5, <2>6, <2>7, <2>8, <2>9 DEF DownloadInv
<1>14. CASE DiscardPartial
  <2>1. ContentTypes'
    BY <1>14 DEF DiscardPartial, NoRecord, beside, ContentTypes
  <2>2. SeenTypes'
    BY <1>14 DEF DiscardPartial, NoRecord, beside, attempt, SeenTypes
  <2>3. AttemptBounds'
    BY <1>14 DEF DiscardPartial, NoRecord, attempt, AttemptBounds
  <2>4. AttemptFlags'
    BY <1>14 DEF DiscardPartial, NoRecord, attempt, AttemptFlags
  <2>5. ArtifactsExist'
    BY <1>14 DEF DiscardPartial, NoRecord, beside, attempt, ArtifactsExist, ContentTypes,
         SeenTypes, AttemptBounds, AttemptFlags
  <2>6. AnswersAreOld'
    BY <1>14 DEF DiscardPartial, NoRecord, beside, attempt, AnswersAreOld, SeenTypes
  <2>7. PiecesAreInOrder'
    <3>1. /\ UNCHANGED <<rVersion, dSeen, dArt>> /\ resumeRec' \in {resumeRec, NoRecord}
          /\ dPc' \notin {"recording", "reading", "asked", "commit"}
      BY <1>14 DEF DiscardPartial, attempt, beside
    <3>2. \A a \in Artifacts : parts'[a] \in {parts[a], NoContent}
      BY <1>14 DEF DiscardPartial, attempt, beside, ContentTypes
    <3> QED
      BY <3>1, <3>2, PiecesGo
  <2>8. CommitsOneVersion'
    BY <1>14 DEF DiscardPartial, NoRecord, beside, attempt, CommitsOneVersion, OneVersion,
         ContentTypes, AttemptBounds, AttemptFlags
  <2>9. DestinationIsOneVersion'
    BY <1>14 DEF DiscardPartial, NoRecord, DestinationIsOneVersion, ContentTypes,
         AttemptFlags
  <2> QED
    BY <2>1, <2>2, <2>3, <2>4, <2>5, <2>6, <2>7, <2>8, <2>9 DEF DownloadInv
<1>15. CASE RemoteEdit
  <2>1. ContentTypes'
    BY <1>15 DEF RemoteEdit, beside, ContentTypes
  <2>2. SeenTypes'
    BY <1>15 DEF RemoteEdit, beside, attempt, SeenTypes
  <2>3. AttemptBounds'
    BY <1>15 DEF RemoteEdit, attempt, AttemptBounds
  <2>4. AttemptFlags'
    BY <1>15 DEF RemoteEdit, attempt, AttemptFlags
  <2>5. ArtifactsExist'
    BY <1>15 DEF RemoteEdit, beside, attempt, ArtifactsExist, NoRecord, ContentTypes,
         SeenTypes, AttemptBounds, AttemptFlags
  <2>6. AnswersAreOld'
    <3> HIDE ContentShape
    <3> QED
      BY <1>15, <1>0 DEF RemoteEdit, beside, attempt, AnswersAreOld
  <2>7. PiecesAreInOrder'
    <3>1. rVersion' = rVersion + 1 /\ UNCHANGED <<parts, resumeRec, dPc, dSeen, dArt>>
      BY <1>15 DEF RemoteEdit, beside, attempt
    <3>2. ASSUME NEW a \in Artifacts, NEW low \in Nat, Between(parts[a], low, rVersion)
          PROVE  Between(parts[a], low, rVersion + 1)
      <4> SUFFICES ASSUME parts[a] # NoContent, NEW i \in 1 .. Len(parts[a])
                   PROVE  low <= parts[a][i] /\ parts[a][i] <= rVersion + 1
        BY DEF Between
      <4>1. parts[a][i] \in Nat
        <5>1. parts[a] \in Contents
          BY DEF ContentTypes
        <5> QED
          BY <5>1, ContentShape
      <4>2. low <= parts[a][i] /\ parts[a][i] <= rVersion
        BY <3>2 DEF Between
      <4> QED
        BY <1>0, <4>1, <4>2
    <3>3. /\ resumeRec # NoRecord => resumeRec.artifact \in Artifacts
          /\ dPc \in {"recording", "reading", "asked", "commit"} => dArt \in Artifacts
      BY DEF ArtifactsExist
    <3> HIDE ContentShape
    <3>4. \A a \in Artifacts : Between(parts[a], 0, rVersion + 1)
      BY <3>2 DEF PiecesAreInOrder
    <3>5. resumeRec # NoRecord => Between(parts[resumeRec.artifact], resumeRec.of, rVersion + 1)
      BY <1>0, <3>2, <3>3 DEF PiecesAreInOrder
    <3>6. dPc \in {"recording", "reading", "asked", "commit"}
            => Between(parts[dArt], dSeen, rVersion + 1)
      BY <1>0, <3>2, <3>3 DEF PiecesAreInOrder
    <3> QED
      BY <3>1, <3>4, <3>5, <3>6 DEF PiecesAreInOrder, Between
  <2>8. CommitsOneVersion'
    BY <1>15 DEF RemoteEdit, beside, attempt, CommitsOneVersion, OneVersion, ContentTypes,
         AttemptBounds, AttemptFlags
  <2>9. DestinationIsOneVersion'
    BY <1>15 DEF RemoteEdit, DestinationIsOneVersion, ContentTypes, AttemptFlags
  <2> QED
    BY <2>1, <2>2, <2>3, <2>4, <2>5, <2>6, <2>7, <2>8, <2>9 DEF DownloadInv
<1> QED
  BY <1>1, <1>2, <1>3, <1>4, <1>5, <1>6, <1>7, <1>8, <1>9, <1>10, <1>11, <1>12, <1>13,
       <1>14, <1>15 DEF DownloadNext

(* Before the first download there is at most an empty file. *)
LEMMA DownloadInvInit ==
  ASSUME DownloadInit
  PROVE  DownloadInv
<1> USE ContentShape, DownloadBounds
<1>1. ContentTypes
  BY DEF DownloadInit, ContentTypes
<1>2. SeenTypes
  BY DEF DownloadInit, SeenTypes, NoRecord
<1>3. AttemptBounds
  BY DEF DownloadInit, AttemptBounds
<1>4. AttemptFlags
  BY Zenon DEF DownloadInit, AttemptFlags
<1>5. ArtifactsExist /\ AnswersAreOld /\ CommitsOneVersion
  BY DEF DownloadInit, ArtifactsExist, AnswersAreOld, NoRecord, CommitsOneVersion
<1>6. PiecesAreInOrder /\ DestinationIsOneVersion
  BY DEF DownloadInit, PiecesAreInOrder, Between, DestinationIsOneVersion
<1> QED
  BY <1>1, <1>2, <1>3, <1>4, <1>5, <1>6 DEF DownloadInv

(* DestinationIsOneVersion: what a download puts at the destination is whole and *)
(* of one version, for files of any number of pieces and any number of attempts  *)
(* and changes on the server, unless the server would not answer again.          *)
THEOREM DownloadsAreOneVersion == DownloadSpec => []DestinationIsOneVersion
<1>1. DownloadInit => DownloadInv
  BY DownloadInvInit
<1>2. DownloadInv /\ [DownloadNext]_downloadVars => DownloadInv'
  BY DownloadInvStep
<1>3. DownloadInv => DestinationIsOneVersion
  BY DEF DownloadInv
<1> QED
  BY <1>1, <1>2, <1>3, PTL DEF DownloadSpec
-----------------------------------------------------------------------------
(* RelayCopy: a copy from one server to another *)
\* The types of the variables, in five parts.
CopyTypes ==
    /\ copy \in [at : {"new", "waiting", "running", "settling", "cleaning", "over"}, ok : BOOLEAN]
    /\ session \in {"open", "closing", "closed"}
SourceTypes ==
    /\ sourceLeg \in [at : {"queued", "asking", "reading", "read", "partner", "lost"} \cup LegEnded,
                      read : Nat, blamed : BOOLEAN]
    /\ announced \in [is : {"asked", "known", "unknown", "dropped"}, blocks : Nat]
    /\ complete \in {"open", "yes", "no", "dropped"}
TargetTypes ==
    /\ targetLeg \in [at : {"queued", "writing", "checking", "waiting", "renaming"} \cup LegEnded,
                      started : BOOLEAN]
    /\ record \in BOOLEAN
FileStates == [is : {"none", "old", "copy"}, blocks : Nat]
Remotes == [length : Nat, sizes : [source : BOOLEAN, target : BOOLEAN], overwrite : BOOLEAN,
            dest : FileStates, staged : FileStates, renames : BOOLEAN, told : BOOLEAN]
RelayServerTypes == server \in Remotes
PipeTypes == pipe \in [held : Nat, writer : BOOLEAN, reader : BOOLEAN]

\* The source answers each question once, at its own time.
SourceAnswersOnce ==
    /\ announced.is = "asked" => sourceLeg.at \in {"queued", "asking"}
    /\ sourceLeg.at \in {"queued", "asking"} => announced.is = "asked" /\ complete = "open"
    /\ complete = "yes" => sourceLeg.at = "ok"
    /\ sourceLeg.at = "ok" => complete = "yes"

\* A leg works while the command waits for it, and stops with its connection.
LegsRunInside ==
    /\ targetLeg.at \notin {"queued"} \cup LegEnded => copy.at = "running"
    /\ targetLeg.at = "queued" => ~targetLeg.started
    /\ targetLeg.started => copy.at \notin {"new", "waiting"}
    /\ copy.at \in {"new", "waiting"} => targetLeg.at = "queued"
    /\ copy.at = "running" /\ session # "open" => "target" \in stops

\* A file has one name at a time: the staging file is there only for a started
\* leg, and not beside the copy it became.
StagedOnce ==
    /\ server.staged.is \in {"none", "copy"}
    /\ ~targetLeg.started => server.staged.is = "none" /\ server.dest.is # "copy"
    /\ server.staged.is = "copy" => server.dest.is # "copy"

\* Where both servers tell sizes, the file has the one that was announced.
Measured(file) ==
    announced.is = "known" /\ server.sizes.target => file.blocks = announced.blocks

\* A leg that has checked has a staging file of the announced length, and the rename
\* is sent when the source was read to its end.
RenamesWhatIsWhole ==
    /\ targetLeg.at \in {"waiting", "renaming"} =>
          /\ announced.is \notin {"asked", "dropped"}
          /\ server.staged.is = "copy" => Measured(server.staged)
    /\ targetLeg.at = "renaming" => complete = "yes"
    /\ server.renames =>
          /\ complete = "yes" /\ targetLeg.at \in {"renaming"} \cup LegEnded
          /\ announced.is \notin {"asked", "dropped"}
          /\ server.staged.is = "copy" => Measured(server.staged)
    /\ targetLeg.at = "ok" => server.dest.is = "copy"

\* The record is kept while the copy is under way, and what a closed connection has
\* left is in the log.
RecordIsKept ==
    /\ copy.at \notin {"new", "over"} /\ session # "closed" => record
    /\ session = "closed" /\ server.staged.is = "copy" => server.told

(* The inductive invariant: from the check on, the staging file is whole.    *)
RelayInv ==
    /\ CopyTypes /\ SourceTypes /\ TargetTypes /\ RelayServerTypes /\ PipeTypes
    /\ SourceAnswersOnce /\ LegsRunInside /\ StagedOnce /\ RenamesWhatIsWhole /\ RecordIsKept
    /\ CopyIsWhole

(* A server that removes its staging file, or tells that it could not, keeps the rest. *)
LEMMA ServerChanges ==
  ASSUME RelayServerTypes
  PROVE  LET freed == [server EXCEPT !.staged = [is |-> "none", blocks |-> 0]]
             told == [server EXCEPT !.told = TRUE]
         IN  /\ freed \in Remotes /\ freed.staged.is = "none" /\ freed.dest = server.dest
             /\ freed.sizes = server.sizes /\ freed.renames = server.renames
             /\ freed.told = server.told
             /\ told \in Remotes /\ told.staged = server.staged /\ told.dest = server.dest
             /\ told.sizes = server.sizes /\ told.renames = server.renames /\ told.told
<1>1. [is |-> "none", blocks |-> 0] \in FileStates
  BY DEF FileStates
<1> QED
  BY <1>1 DEF RelayServerTypes, Remotes

(* The removal takes the staging file, or the log tells that it is there. *)
LEMMA RemovalStep ==
  ASSUME RelayInv,
         \/ server' = [server EXCEPT !.staged = [is |-> "none", blocks |-> 0]]
         \/ server' = [server EXCEPT !.told = TRUE],
         UNCHANGED <<targetLeg, announced, complete>>
  PROVE  /\ RelayServerTypes' /\ StagedOnce' /\ RenamesWhatIsWhole'
         /\ server'.staged.is = "none" \/ server'.told
         /\ server'.dest = server.dest /\ server'.sizes = server.sizes
<1>1. /\ server' \in Remotes
      /\ server'.staged.is = "none" \/ server'.told
      /\ server'.dest = server.dest /\ server'.sizes = server.sizes
      /\ server'.renames = server.renames
      /\ server'.staged.is = "none" \/ server'.staged = server.staged
  BY ServerChanges DEF RelayInv
<1>2. StagedOnce'
  BY <1>1 DEF RelayInv, StagedOnce
<1>3. RenamesWhatIsWhole'
  BY <1>1 DEF RelayInv, RenamesWhatIsWhole, Measured
<1> QED
  BY <1>1, <1>2, <1>3 DEF RelayServerTypes

(* Every step of both legs, the pipe, the command and the session keeps it. *)
LEMMA RelayInvStep ==
  ASSUME RelayInv, [RelayNext]_relayVars
  PROVE  RelayInv'
<1> USE DEF RelayInv
<1>1. CASE UNCHANGED relayVars
  <2>1. CopyTypes'
    BY <1>1 DEF relayVars, relayWorld, CopyTypes
  <2>2. SourceTypes'
    BY <1>1 DEF relayVars, streams, SourceTypes, LegEnded
  <2>3. TargetTypes'
    BY <1>1 DEF relayVars, relayWorld, TargetTypes, LegEnded
  <2>4. RelayServerTypes'
    BY <1>1 DEF relayVars, relayWorld, RelayServerTypes, Remotes, FileStates
  <2>5. PipeTypes'
    BY <1>1 DEF relayVars, streams, PipeTypes
  <2>6. SourceAnswersOnce'
    BY <1>1 DEF relayVars, streams, SourceAnswersOnce, SourceTypes, LegEnded
  <2>7. LegsRunInside'
    BY <1>1 DEF relayVars, relayWorld, LegsRunInside, LegEnded, CopyTypes, TargetTypes
  <2>8. StagedOnce'
    BY <1>1 DEF relayVars, relayWorld, StagedOnce, TargetTypes, LegEnded, RelayServerTypes,
         Remotes, FileStates
  <2>9. RenamesWhatIsWhole'
    BY <1>1 DEF relayVars, streams, relayWorld, RenamesWhatIsWhole, Measured, LegEnded,
         SourceTypes, TargetTypes, RelayServerTypes, Remotes, FileStates
  <2>10. RecordIsKept'
    BY <1>1 DEF relayVars, relayWorld, RecordIsKept, CopyTypes, TargetTypes, LegEnded,
         RelayServerTypes, Remotes, FileStates
  <2>11. CopyIsWhole'
    BY <1>1 DEF relayVars, streams, relayWorld, CopyIsWhole, CopyTypes, SourceTypes,
         LegEnded, TargetTypes, RelayServerTypes, Remotes, FileStates
  <2> QED
    BY <2>1, <2>2, <2>3, <2>4, <2>5, <2>6, <2>7, <2>8, <2>9, <2>10, <2>11 DEF RelayInv
<1>2. CASE SourceStarts
  <2>1. CopyTypes'
    BY <1>2 DEF SourceStarts, relayWorld, CopyTypes
  <2>2. SourceTypes'
    BY <1>2 DEF SourceStarts, streams, SourceTypes, LegEnded
  <2>3. TargetTypes'
    BY <1>2 DEF SourceStarts, relayWorld, TargetTypes, LegEnded
  <2>4. RelayServerTypes'
    BY <1>2 DEF SourceStarts, relayWorld, RelayServerTypes, Remotes, FileStates
  <2>5. PipeTypes'
    BY <1>2 DEF SourceStarts, streams, PipeTypes
  <2>6. SourceAnswersOnce'
    BY <1>2 DEF SourceStarts, streams, SourceAnswersOnce, SourceTypes, LegEnded
  <2>7. LegsRunInside'
    BY <1>2 DEF SourceStarts, relayWorld, LegsRunInside, LegEnded, CopyTypes, TargetTypes
  <2>8. StagedOnce'
    BY <1>2 DEF SourceStarts, relayWorld, StagedOnce, TargetTypes, LegEnded, RelayServerTypes,
         Remotes, FileStates
  <2>9. RenamesWhatIsWhole'
    BY <1>2 DEF SourceStarts, streams, relayWorld, RenamesWhatIsWhole, Measured, LegEnded,
         SourceTypes, TargetTypes, RelayServerTypes, Remotes, FileStates
  <2>10. RecordIsKept'
    BY <1>2 DEF SourceStarts, relayWorld, RecordIsKept, CopyTypes, TargetTypes, LegEnded,
         RelayServerTypes, Remotes, FileStates
  <2>11. CopyIsWhole'
    BY <1>2 DEF SourceStarts, streams, relayWorld, CopyIsWhole, CopyTypes, SourceTypes,
         LegEnded, TargetTypes, RelayServerTypes, Remotes, FileStates
  <2> QED
    BY <2>1, <2>2, <2>3, <2>4, <2>5, <2>6, <2>7, <2>8, <2>9, <2>10, <2>11 DEF RelayInv
<1>3. CASE SourceAsks
  <2>1. CopyTypes'
    BY <1>3 DEF SourceAsks, Unknown, relayWorld, CopyTypes
  <2>2. SourceTypes'
    BY <1>3 DEF SourceAsks, Unknown, relayWorld, SourceTypes, LegEnded, CopyTypes,
         TargetTypes, RelayServerTypes, Remotes, FileStates, PipeTypes
  <2>3. TargetTypes'
    BY <1>3 DEF SourceAsks, Unknown, relayWorld, TargetTypes, LegEnded
  <2>4. RelayServerTypes'
    BY <1>3 DEF SourceAsks, Unknown, relayWorld, RelayServerTypes, Remotes, FileStates
  <2>5. PipeTypes'
    BY <1>3 DEF SourceAsks, Unknown, PipeTypes
  <2>6. SourceAnswersOnce'
    BY <1>3 DEF SourceAsks, Unknown, SourceAnswersOnce, SourceTypes, LegEnded
  <2>7. LegsRunInside'
    BY <1>3 DEF SourceAsks, Unknown, relayWorld, LegsRunInside, LegEnded, CopyTypes,
         TargetTypes
  <2>8. StagedOnce'
    BY <1>3 DEF SourceAsks, Unknown, relayWorld, StagedOnce, TargetTypes, LegEnded,
         RelayServerTypes, Remotes, FileStates
  <2>9. RenamesWhatIsWhole'
    BY <1>3 DEF SourceAsks, Unknown, relayWorld, RenamesWhatIsWhole, Measured, LegEnded,
         CopyTypes, SourceTypes, TargetTypes, RelayServerTypes, Remotes, FileStates, PipeTypes,
         SourceAnswersOnce, LegsRunInside, StagedOnce, RecordIsKept, CopyIsWhole
  <2>10. RecordIsKept'
    BY <1>3 DEF SourceAsks, Unknown, relayWorld, RecordIsKept, CopyTypes, TargetTypes,
         LegEnded, RelayServerTypes, Remotes, FileStates
  <2>11. CopyIsWhole'
    BY <1>3 DEF SourceAsks, Unknown, relayWorld, CopyIsWhole, CopyTypes, SourceTypes,
         LegEnded, TargetTypes, RelayServerTypes, Remotes, FileStates, PipeTypes, SourceAnswersOnce,
         LegsRunInside, StagedOnce, RenamesWhatIsWhole, Measured, RecordIsKept
  <2> QED
    BY <2>1, <2>2, <2>3, <2>4, <2>5, <2>6, <2>7, <2>8, <2>9, <2>10, <2>11 DEF RelayInv
<1>4. CASE SourceReads
  <2>1. CopyTypes'
    BY <1>4 DEF SourceReads, relayWorld, CopyTypes
  <2>2. SourceTypes'
    BY <1>4 DEF SourceReads, SourceGone, SourceTypes, LegEnded
  <2>3. TargetTypes'
    BY <1>4 DEF SourceReads, relayWorld, TargetTypes, LegEnded
  <2>4. RelayServerTypes'
    BY <1>4 DEF SourceReads, relayWorld, RelayServerTypes, Remotes, FileStates
  <2>5. PipeTypes'
    <3>1. CASE pipe' = [pipe EXCEPT !.held = @ + 1]
      <4>1. pipe.held + 1 \in Nat
        BY DEF PipeTypes
      <4> QED
        BY <3>1, <4>1, Zenon DEF PipeTypes
    <3>2. CASE pipe' = [pipe EXCEPT !.writer = FALSE]
      BY <3>2 DEF PipeTypes
    <3> QED
      BY <1>4, <3>1, <3>2 DEF SourceReads, SourceGone
  <2>6. SourceAnswersOnce'
    BY <1>4 DEF SourceReads, SourceGone, SourceAnswersOnce, SourceTypes, LegEnded
  <2>7. LegsRunInside'
    BY <1>4 DEF SourceReads, relayWorld, LegsRunInside, LegEnded, CopyTypes, TargetTypes
  <2>8. StagedOnce'
    BY <1>4 DEF SourceReads, relayWorld, StagedOnce, TargetTypes, LegEnded, RelayServerTypes,
         Remotes, FileStates
  <2>9. RenamesWhatIsWhole'
    BY <1>4 DEF SourceReads, SourceGone, relayWorld, RenamesWhatIsWhole, Measured,
         LegEnded, SourceTypes, TargetTypes, RelayServerTypes, Remotes, FileStates
  <2>10. RecordIsKept'
    BY <1>4 DEF SourceReads, relayWorld, RecordIsKept, CopyTypes, TargetTypes, LegEnded,
         RelayServerTypes, Remotes, FileStates
  <2>11. CopyIsWhole'
    BY <1>4 DEF SourceReads, SourceGone, relayWorld, CopyIsWhole, CopyTypes, SourceTypes,
         LegEnded, TargetTypes, RelayServerTypes, Remotes, FileStates
  <2> QED
    BY <2>1, <2>2, <2>3, <2>4, <2>5, <2>6, <2>7, <2>8, <2>9, <2>10, <2>11 DEF RelayInv
<1>5. CASE SourceIsRead
  <2>1. CopyTypes'
    BY <1>5 DEF SourceIsRead, relayWorld, CopyTypes
  <2>2. SourceTypes'
    BY <1>5 DEF SourceIsRead, SourceGone, SourceTypes, LegEnded
  <2>3. TargetTypes'
    BY <1>5 DEF SourceIsRead, relayWorld, TargetTypes, LegEnded
  <2>4. RelayServerTypes'
    BY <1>5 DEF SourceIsRead, relayWorld, RelayServerTypes, Remotes, FileStates
  <2>5. PipeTypes'
    BY <1>5 DEF SourceIsRead, SourceGone, PipeTypes
  <2>6. SourceAnswersOnce'
    BY <1>5 DEF SourceIsRead, SourceGone, SourceAnswersOnce, SourceTypes, LegEnded
  <2>7. LegsRunInside'
    BY <1>5 DEF SourceIsRead, relayWorld, LegsRunInside, LegEnded, CopyTypes, TargetTypes
  <2>8. StagedOnce'
    BY <1>5 DEF SourceIsRead, relayWorld, StagedOnce, TargetTypes, LegEnded, RelayServerTypes,
         Remotes, FileStates
  <2>9. RenamesWhatIsWhole'
    BY <1>5 DEF SourceIsRead, SourceGone, relayWorld, RenamesWhatIsWhole, Measured,
         LegEnded, SourceTypes, TargetTypes, RelayServerTypes, Remotes, FileStates
  <2>10. RecordIsKept'
    BY <1>5 DEF SourceIsRead, relayWorld, RecordIsKept, CopyTypes, TargetTypes, LegEnded,
         RelayServerTypes, Remotes, FileStates
  <2>11. CopyIsWhole'
    BY <1>5 DEF SourceIsRead, SourceGone, relayWorld, CopyIsWhole, CopyTypes, SourceTypes,
         LegEnded, TargetTypes, RelayServerTypes, Remotes, FileStates
  <2> QED
    BY <2>1, <2>2, <2>3, <2>4, <2>5, <2>6, <2>7, <2>8, <2>9, <2>10, <2>11 DEF RelayInv
<1>6. CASE SourceLost
  <2>1. CopyTypes'
    BY <1>6 DEF SourceLost, Unknown, CopyTypes
  <2>2. SourceTypes'
    BY <1>6 DEF SourceLost, Unknown, SourceGone, SourceTypes, LegEnded
  <2>3. TargetTypes'
    BY <1>6 DEF SourceLost, Unknown, TargetTypes, LegEnded
  <2>4. RelayServerTypes'
    BY <1>6 DEF SourceLost, Unknown, RelayServerTypes, Remotes, FileStates
  <2>5. PipeTypes'
    BY <1>6 DEF SourceLost, Unknown, SourceGone, PipeTypes
  <2>6. SourceAnswersOnce'
    BY <1>6 DEF SourceLost, Unknown, SourceGone, SourceAnswersOnce, SourceTypes, LegEnded
  <2>7. LegsRunInside'
    BY <1>6 DEF SourceLost, Unknown, LegsRunInside, LegEnded, CopyTypes, TargetTypes
  <2>8. StagedOnce'
    BY <1>6 DEF SourceLost, Unknown, StagedOnce, TargetTypes, LegEnded, RelayServerTypes,
         Remotes, FileStates
  <2>9. RenamesWhatIsWhole'
    BY <1>6 DEF SourceLost, Unknown, SourceGone, RenamesWhatIsWhole, Measured, LegEnded,
         SourceTypes, TargetTypes, RelayServerTypes, Remotes, FileStates
  <2>10. RecordIsKept'
    BY <1>6 DEF SourceLost, Unknown, RecordIsKept, CopyTypes, TargetTypes, LegEnded,
         RelayServerTypes, Remotes, FileStates
  <2>11. CopyIsWhole'
    BY <1>6 DEF SourceLost, Unknown, SourceGone, CopyIsWhole, CopyTypes, SourceTypes,
         LegEnded, TargetTypes, RelayServerTypes, Remotes, FileStates
  <2> QED
    BY <2>1, <2>2, <2>3, <2>4, <2>5, <2>6, <2>7, <2>8, <2>9, <2>10, <2>11 DEF RelayInv
<1>7. CASE SourceTells
  <2>1. CopyTypes'
    BY <1>7 DEF SourceTells, relayWorld, CopyTypes
  <2>2. SourceTypes'
    BY <1>7 DEF SourceTells, SourceTypes, LegEnded
  <2>3. TargetTypes'
    BY <1>7 DEF SourceTells, relayWorld, TargetTypes, LegEnded
  <2>4. RelayServerTypes'
    BY <1>7 DEF SourceTells, relayWorld, RelayServerTypes, Remotes, FileStates
  <2>5. PipeTypes'
    BY <1>7 DEF SourceTells, PipeTypes
  <2>6. SourceAnswersOnce'
    BY <1>7 DEF SourceTells, SourceAnswersOnce, SourceTypes, LegEnded
  <2>7. LegsRunInside'
    BY <1>7 DEF SourceTells, relayWorld, LegsRunInside, LegEnded, CopyTypes, TargetTypes
  <2>8. StagedOnce'
    BY <1>7 DEF SourceTells, relayWorld, StagedOnce, TargetTypes, LegEnded, RelayServerTypes,
         Remotes, FileStates
  <2>9. RenamesWhatIsWhole'
    BY <1>7 DEF SourceTells, relayWorld, RenamesWhatIsWhole, Measured, LegEnded,
         CopyTypes, SourceTypes, TargetTypes, RelayServerTypes, Remotes, FileStates, PipeTypes,
         SourceAnswersOnce, LegsRunInside, StagedOnce, RecordIsKept, CopyIsWhole
  <2>10. RecordIsKept'
    BY <1>7 DEF SourceTells, relayWorld, RecordIsKept, CopyTypes, TargetTypes, LegEnded,
         RelayServerTypes, Remotes, FileStates
  <2>11. CopyIsWhole'
    BY <1>7 DEF SourceTells, relayWorld, CopyIsWhole, CopyTypes, SourceTypes, LegEnded,
         TargetTypes, RelayServerTypes, Remotes, FileStates, PipeTypes, SourceAnswersOnce,
         LegsRunInside, StagedOnce, RenamesWhatIsWhole, Measured, RecordIsKept
  <2> QED
    BY <2>1, <2>2, <2>3, <2>4, <2>5, <2>6, <2>7, <2>8, <2>9, <2>10, <2>11 DEF RelayInv
<1>8. CASE SourceStopped
  <2>1. CopyTypes'
    BY <1>8 DEF SourceStopped, relayWorld, CopyTypes
  <2>2. SourceTypes'
    BY <1>8 DEF SourceStopped, SourceGone, SourceTypes, LegEnded
  <2>3. TargetTypes'
    BY <1>8 DEF SourceStopped, relayWorld, TargetTypes, LegEnded
  <2>4. RelayServerTypes'
    BY <1>8 DEF SourceStopped, relayWorld, RelayServerTypes, Remotes, FileStates
  <2>5. PipeTypes'
    BY <1>8 DEF SourceStopped, SourceGone, PipeTypes
  <2>6. SourceAnswersOnce'
    BY <1>8 DEF SourceStopped, SourceGone, SourceAnswersOnce, SourceTypes, LegEnded
  <2>7. LegsRunInside'
    BY <1>8 DEF SourceStopped, relayWorld, LegsRunInside, LegEnded, CopyTypes, TargetTypes
  <2>8. StagedOnce'
    BY <1>8 DEF SourceStopped, relayWorld, StagedOnce, TargetTypes, LegEnded, RelayServerTypes,
         Remotes, FileStates
  <2>9. RenamesWhatIsWhole'
    BY <1>8 DEF SourceStopped, SourceGone, relayWorld, RenamesWhatIsWhole, Measured,
         LegEnded, CopyTypes, SourceTypes, TargetTypes, RelayServerTypes, Remotes, FileStates,
         PipeTypes, SourceAnswersOnce, LegsRunInside, StagedOnce, RecordIsKept,
         CopyIsWhole
  <2>10. RecordIsKept'
    BY <1>8 DEF SourceStopped, relayWorld, RecordIsKept, CopyTypes, TargetTypes, LegEnded,
         RelayServerTypes, Remotes, FileStates
  <2>11. CopyIsWhole'
    BY <1>8 DEF SourceStopped, SourceGone, relayWorld, CopyIsWhole, CopyTypes,
         SourceTypes, LegEnded, TargetTypes, RelayServerTypes, Remotes, FileStates, PipeTypes,
         SourceAnswersOnce, LegsRunInside, StagedOnce, RenamesWhatIsWhole, Measured,
         RecordIsKept
  <2> QED
    BY <2>1, <2>2, <2>3, <2>4, <2>5, <2>6, <2>7, <2>8, <2>9, <2>10, <2>11 DEF RelayInv
<1>9. CASE TargetStarts
  <2>1. CopyTypes'
    BY <1>9 DEF TargetStarts, CopyTypes
  <2>2. SourceTypes'
    BY <1>9 DEF TargetStarts, streams, SourceTypes, LegEnded
  <2>3. TargetTypes'
    BY <1>9 DEF TargetStarts, TargetTypes, LegEnded
  <2>4. RelayServerTypes'
    BY <1>9 DEF TargetStarts, RelayServerTypes, Remotes, FileStates
  <2>5. PipeTypes'
    BY <1>9 DEF TargetStarts, streams, PipeTypes
  <2>6. SourceAnswersOnce'
    BY <1>9 DEF TargetStarts, streams, SourceAnswersOnce, SourceTypes, LegEnded
  <2>7. LegsRunInside'
    BY <1>9 DEF TargetStarts, LegsRunInside, LegEnded, CopyTypes, TargetTypes
  <2>8. StagedOnce'
    BY <1>9 DEF TargetStarts, streams, StagedOnce, CopyTypes, SourceTypes, LegEnded,
         TargetTypes, RelayServerTypes, Remotes, FileStates, PipeTypes, SourceAnswersOnce,
         LegsRunInside, RenamesWhatIsWhole, Measured, RecordIsKept, CopyIsWhole
  <2>9. RenamesWhatIsWhole'
    BY <1>9 DEF TargetStarts, streams, RenamesWhatIsWhole, Measured, LegEnded,
         SourceTypes, TargetTypes, RelayServerTypes, Remotes, FileStates
  <2>10. RecordIsKept'
    BY <1>9 DEF TargetStarts, streams, RecordIsKept, CopyTypes, SourceTypes, LegEnded,
         TargetTypes, RelayServerTypes, Remotes, FileStates, PipeTypes, SourceAnswersOnce,
         LegsRunInside, StagedOnce, RenamesWhatIsWhole, Measured, CopyIsWhole
  <2>11. CopyIsWhole'
    BY <1>9 DEF TargetStarts, streams, CopyIsWhole, CopyTypes, SourceTypes, LegEnded,
         TargetTypes, RelayServerTypes, Remotes, FileStates
  <2> QED
    BY <2>1, <2>2, <2>3, <2>4, <2>5, <2>6, <2>7, <2>8, <2>9, <2>10, <2>11 DEF RelayInv
<1>10. CASE TargetReadsEnd
  <2>1. CopyTypes'
    BY <1>10 DEF TargetReadsEnd, relayWorld, CopyTypes
  <2>2. SourceTypes'
    BY <1>10 DEF TargetReadsEnd, SourceTypes, LegEnded
  <2>3. TargetTypes'
    BY <1>10 DEF TargetReadsEnd, TargetAt, TargetGoes, relayWorld, TargetTypes, LegEnded
  <2>4. RelayServerTypes'
    BY <1>10 DEF TargetReadsEnd, relayWorld, RelayServerTypes, Remotes, FileStates
  <2>5. PipeTypes'
    BY <1>10 DEF TargetReadsEnd, PipeTypes
  <2>6. SourceAnswersOnce'
    BY <1>10 DEF TargetReadsEnd, SourceAnswersOnce, SourceTypes, LegEnded
  <2>7. LegsRunInside'
    BY <1>10 DEF TargetReadsEnd, TargetAt, TargetGoes, relayWorld, LegsRunInside,
         LegEnded, CopyTypes, TargetTypes
  <2>8. StagedOnce'
    BY <1>10 DEF TargetReadsEnd, TargetAt, TargetGoes, relayWorld, StagedOnce,
         TargetTypes, LegEnded, RelayServerTypes, Remotes, FileStates
  <2>9. RenamesWhatIsWhole'
    BY <1>10 DEF TargetReadsEnd, TargetAt, TargetGoes, relayWorld, RenamesWhatIsWhole,
         Measured, LegEnded, SourceTypes, TargetTypes, RelayServerTypes, Remotes, FileStates
  <2>10. RecordIsKept'
    BY <1>10 DEF TargetReadsEnd, relayWorld, RecordIsKept, CopyTypes, TargetTypes,
         LegEnded, RelayServerTypes, Remotes, FileStates
  <2>11. CopyIsWhole'
    BY <1>10 DEF TargetReadsEnd, relayWorld, CopyIsWhole, CopyTypes, SourceTypes,
         LegEnded, TargetTypes, RelayServerTypes, Remotes, FileStates
  <2> QED
    BY <2>1, <2>2, <2>3, <2>4, <2>5, <2>6, <2>7, <2>8, <2>9, <2>10, <2>11 DEF RelayInv
<1>11. CASE TargetChecks
  <2>1. CopyTypes'
    BY <1>11 DEF TargetChecks, relayWorld, CopyTypes
  <2>2. SourceTypes'
    BY <1>11 DEF TargetChecks, streams, SourceTypes, LegEnded
  <2>3. TargetTypes'
    BY <1>11 DEF TargetChecks, TargetAt, TargetGoes, relayWorld, TargetTypes, LegEnded
  <2>4. RelayServerTypes'
    BY <1>11 DEF TargetChecks, relayWorld, RelayServerTypes, Remotes, FileStates
  <2>5. PipeTypes'
    BY <1>11 DEF TargetChecks, streams, PipeTypes
  <2>6. SourceAnswersOnce'
    BY <1>11 DEF TargetChecks, streams, SourceAnswersOnce, SourceTypes, LegEnded
  <2>7. LegsRunInside'
    BY <1>11 DEF TargetChecks, TargetAt, TargetGoes, relayWorld, LegsRunInside, LegEnded,
         CopyTypes, TargetTypes
  <2>8. StagedOnce'
    BY <1>11 DEF TargetChecks, TargetAt, TargetGoes, relayWorld, StagedOnce, TargetTypes,
         LegEnded, RelayServerTypes, Remotes, FileStates
  <2>9. RenamesWhatIsWhole'
    BY <1>11 DEF TargetChecks, TargetAt, TargetGoes, streams, relayWorld,
         RenamesWhatIsWhole, Measured, LegEnded, SourceTypes, TargetTypes, RelayServerTypes,
         Remotes, FileStates
  <2>10. RecordIsKept'
    BY <1>11 DEF TargetChecks, relayWorld, RecordIsKept, CopyTypes, TargetTypes, LegEnded,
         RelayServerTypes, Remotes, FileStates
  <2>11. CopyIsWhole'
    BY <1>11 DEF TargetChecks, streams, relayWorld, CopyIsWhole, CopyTypes, SourceTypes,
         LegEnded, TargetTypes, RelayServerTypes, Remotes, FileStates
  <2> QED
    BY <2>1, <2>2, <2>3, <2>4, <2>5, <2>6, <2>7, <2>8, <2>9, <2>10, <2>11 DEF RelayInv
<1>12. CASE AwaitsSource
  <2>1. CopyTypes'
    BY <1>12 DEF AwaitsSource, CopyTypes
  <2>2. SourceTypes'
    BY <1>12 DEF AwaitsSource, streams, SourceTypes, LegEnded
  <2>3. TargetTypes'
    BY <1>12 DEF AwaitsSource, TargetAt, TargetGoes, TargetTypes, LegEnded
  <2>4. RelayServerTypes'
    BY <1>12 DEF AwaitsSource, RelayServerTypes, Remotes, FileStates
  <2>5. PipeTypes'
    BY <1>12 DEF AwaitsSource, streams, PipeTypes
  <2>6. SourceAnswersOnce'
    BY <1>12 DEF AwaitsSource, streams, SourceAnswersOnce, SourceTypes, LegEnded
  <2>7. LegsRunInside'
    BY <1>12 DEF AwaitsSource, TargetAt, TargetGoes, LegsRunInside, LegEnded, CopyTypes,
         TargetTypes
  <2>8. StagedOnce'
    BY <1>12 DEF AwaitsSource, TargetAt, TargetGoes, StagedOnce, TargetTypes, LegEnded,
         RelayServerTypes, Remotes, FileStates
  <2>9. RenamesWhatIsWhole'
    BY <1>12 DEF AwaitsSource, TargetAt, TargetGoes, streams, RenamesWhatIsWhole,
         Measured, LegEnded, SourceTypes, TargetTypes, RelayServerTypes, Remotes, FileStates
  <2>10. RecordIsKept'
    BY <1>12 DEF AwaitsSource, RecordIsKept, CopyTypes, TargetTypes, LegEnded,
         RelayServerTypes, Remotes, FileStates
  <2>11. CopyIsWhole'
    BY <1>12 DEF AwaitsSource, streams, CopyIsWhole, CopyTypes, SourceTypes, LegEnded,
         TargetTypes, RelayServerTypes, Remotes, FileStates
  <2> QED
    BY <2>1, <2>2, <2>3, <2>4, <2>5, <2>6, <2>7, <2>8, <2>9, <2>10, <2>11 DEF RelayInv
<1>13. CASE Renames
  <2>1. CopyTypes'
    BY <1>13 DEF Renames, CopyTypes
  <2>2. SourceTypes'
    BY <1>13 DEF Renames, streams, SourceTypes, LegEnded
  <2>3. TargetTypes'
    BY <1>13 DEF Renames, TargetTypes, LegEnded
  <2>4. RelayServerTypes'
    BY <1>13 DEF Renames, RelayServerTypes, Remotes, FileStates
  <2>5. PipeTypes'
    BY <1>13 DEF Renames, streams, PipeTypes
  <2>6. SourceAnswersOnce'
    BY <1>13 DEF Renames, streams, SourceAnswersOnce, SourceTypes, LegEnded
  <2>7. LegsRunInside'
    BY <1>13 DEF Renames, LegsRunInside, LegEnded, CopyTypes, TargetTypes
  <2>8. StagedOnce'
    BY <1>13 DEF Renames, StagedOnce, TargetTypes, LegEnded, RelayServerTypes, Remotes, FileStates
  <2>9. RenamesWhatIsWhole'
    BY <1>13 DEF Renames, streams, RenamesWhatIsWhole, Measured, LegEnded, CopyTypes,
         SourceTypes, TargetTypes, RelayServerTypes, Remotes, FileStates, PipeTypes,
         SourceAnswersOnce, LegsRunInside, StagedOnce, RecordIsKept, CopyIsWhole
  <2>10. RecordIsKept'
    BY <1>13 DEF Renames, RecordIsKept, CopyTypes, TargetTypes, LegEnded, RelayServerTypes,
         Remotes, FileStates
  <2>11. CopyIsWhole'
    BY <1>13 DEF Renames, streams, CopyIsWhole, CopyTypes, SourceTypes, LegEnded,
         TargetTypes, RelayServerTypes, Remotes, FileStates, PipeTypes, SourceAnswersOnce,
         LegsRunInside, StagedOnce, RenamesWhatIsWhole, Measured, RecordIsKept
  <2> QED
    BY <2>1, <2>2, <2>3, <2>4, <2>5, <2>6, <2>7, <2>8, <2>9, <2>10, <2>11 DEF RelayInv
<1>14. CASE TargetDone
  <2>1. CopyTypes'
    BY <1>14 DEF TargetDone, relayWorld, CopyTypes
  <2>2. SourceTypes'
    BY <1>14 DEF TargetDone, streams, SourceTypes, LegEnded
  <2>3. TargetTypes'
    BY <1>14 DEF TargetDone, TargetAt, TargetGoes, relayWorld, TargetTypes, LegEnded
  <2>4. RelayServerTypes'
    BY <1>14 DEF TargetDone, relayWorld, RelayServerTypes, Remotes, FileStates
  <2>5. PipeTypes'
    BY <1>14 DEF TargetDone, streams, PipeTypes
  <2>6. SourceAnswersOnce'
    BY <1>14 DEF TargetDone, streams, SourceAnswersOnce, SourceTypes, LegEnded
  <2>7. LegsRunInside'
    BY <1>14 DEF TargetDone, TargetAt, TargetGoes, relayWorld, LegsRunInside, LegEnded,
         CopyTypes, TargetTypes
  <2>8. StagedOnce'
    BY <1>14 DEF TargetDone, TargetAt, TargetGoes, relayWorld, StagedOnce, TargetTypes,
         LegEnded, RelayServerTypes, Remotes, FileStates
  <2>9. RenamesWhatIsWhole'
    BY <1>14 DEF TargetDone, TargetAt, TargetGoes, streams, relayWorld,
         RenamesWhatIsWhole, Measured, LegEnded, SourceTypes, TargetTypes, RelayServerTypes,
         Remotes, FileStates
  <2>10. RecordIsKept'
    BY <1>14 DEF TargetDone, relayWorld, RecordIsKept, CopyTypes, TargetTypes, LegEnded,
         RelayServerTypes, Remotes, FileStates
  <2>11. CopyIsWhole'
    BY <1>14 DEF TargetDone, streams, relayWorld, CopyIsWhole, CopyTypes, SourceTypes,
         LegEnded, TargetTypes, RelayServerTypes, Remotes, FileStates
  <2> QED
    BY <2>1, <2>2, <2>3, <2>4, <2>5, <2>6, <2>7, <2>8, <2>9, <2>10, <2>11 DEF RelayInv
<1>15. CASE TargetLost
  <2>1. CopyTypes'
    BY <1>15 DEF TargetLost, CopyTypes
  <2>2. SourceTypes'
    BY <1>15 DEF TargetLost, SourceTypes, LegEnded
  <2>3. TargetTypes'
    BY <1>15 DEF TargetLost, TargetFails, TargetGoes, TargetTypes, LegEnded
  <2>4. RelayServerTypes'
    BY <1>15 DEF TargetLost, RelayServerTypes, Remotes, FileStates
  <2>5. PipeTypes'
    BY <1>15 DEF TargetLost, TargetFails, PipeTypes
  <2>6. SourceAnswersOnce'
    BY <1>15 DEF TargetLost, SourceAnswersOnce, SourceTypes, LegEnded
  <2>7. LegsRunInside'
    BY <1>15 DEF TargetLost, TargetFails, TargetGoes, LegsRunInside, LegEnded, CopyTypes,
         TargetTypes
  <2>8. StagedOnce'
    BY <1>15 DEF TargetLost, TargetFails, TargetGoes, StagedOnce, TargetTypes, LegEnded,
         RelayServerTypes, Remotes, FileStates
  <2>9. RenamesWhatIsWhole'
    BY <1>15 DEF TargetLost, TargetFails, TargetGoes, RenamesWhatIsWhole, Measured,
         LegEnded, SourceTypes, TargetTypes, RelayServerTypes, Remotes, FileStates
  <2>10. RecordIsKept'
    BY <1>15 DEF TargetLost, RecordIsKept, CopyTypes, TargetTypes, LegEnded, RelayServerTypes,
         Remotes, FileStates
  <2>11. CopyIsWhole'
    BY <1>15 DEF TargetLost, CopyIsWhole, CopyTypes, SourceTypes, LegEnded, TargetTypes,
         RelayServerTypes, Remotes, FileStates
  <2> QED
    BY <2>1, <2>2, <2>3, <2>4, <2>5, <2>6, <2>7, <2>8, <2>9, <2>10, <2>11 DEF RelayInv
<1>16. CASE TargetStopped
  <2>1. CopyTypes'
    BY <1>16 DEF TargetStopped, relayWorld, CopyTypes
  <2>2. SourceTypes'
    BY <1>16 DEF TargetStopped, SourceTypes, LegEnded
  <2>3. TargetTypes'
    BY <1>16 DEF TargetStopped, TargetGoes, relayWorld, TargetTypes, LegEnded
  <2>4. RelayServerTypes'
    BY <1>16 DEF TargetStopped, relayWorld, RelayServerTypes, Remotes, FileStates
  <2>5. PipeTypes'
    BY <1>16 DEF TargetStopped, PipeTypes
  <2>6. SourceAnswersOnce'
    BY <1>16 DEF TargetStopped, SourceAnswersOnce, SourceTypes, LegEnded
  <2>7. LegsRunInside'
    BY <1>16 DEF TargetStopped, TargetGoes, relayWorld, LegsRunInside, LegEnded,
         CopyTypes, TargetTypes
  <2>8. StagedOnce'
    BY <1>16 DEF TargetStopped, TargetGoes, relayWorld, StagedOnce, TargetTypes, LegEnded,
         RelayServerTypes, Remotes, FileStates
  <2>9. RenamesWhatIsWhole'
    BY <1>16 DEF TargetStopped, TargetGoes, relayWorld, RenamesWhatIsWhole, Measured,
         LegEnded, SourceTypes, TargetTypes, RelayServerTypes, Remotes, FileStates
  <2>10. RecordIsKept'
    BY <1>16 DEF TargetStopped, relayWorld, RecordIsKept, CopyTypes, TargetTypes,
         LegEnded, RelayServerTypes, Remotes, FileStates
  <2>11. CopyIsWhole'
    BY <1>16 DEF TargetStopped, relayWorld, CopyIsWhole, CopyTypes, SourceTypes, LegEnded,
         TargetTypes, RelayServerTypes, Remotes, FileStates
  <2> QED
    BY <2>1, <2>2, <2>3, <2>4, <2>5, <2>6, <2>7, <2>8, <2>9, <2>10, <2>11 DEF RelayInv
<1>17. ASSUME NEW kept \in BOOLEAN, TargetWrites(kept) PROVE RelayInv'
  <2>1. CopyTypes'
    BY <1>17 DEF TargetWrites, CopyTypes
  <2>2. SourceTypes'
    BY <1>17 DEF TargetWrites, SourceTypes, LegEnded
  <2>3. TargetTypes'
    BY <1>17 DEF TargetWrites, TargetAt, TargetTypes, LegEnded
  <2>4. RelayServerTypes'
    BY <1>17 DEF TargetWrites, RelayServerTypes, Remotes, FileStates
  <2>5. PipeTypes'
    BY <1>17 DEF TargetWrites, PipeTypes
  <2>6. SourceAnswersOnce'
    BY <1>17 DEF TargetWrites, SourceAnswersOnce, SourceTypes, LegEnded
  <2>7. LegsRunInside'
    BY <1>17 DEF TargetWrites, TargetAt, LegsRunInside, LegEnded, CopyTypes, TargetTypes
  <2>8. StagedOnce'
    BY <1>17 DEF TargetWrites, TargetAt, StagedOnce, TargetTypes, LegEnded, RelayServerTypes,
         Remotes, FileStates
  <2>9. RenamesWhatIsWhole'
    BY <1>17 DEF TargetWrites, TargetAt, RenamesWhatIsWhole, Measured, LegEnded,
         SourceTypes, TargetTypes, RelayServerTypes, Remotes, FileStates
  <2>10. RecordIsKept'
    BY <1>17 DEF TargetWrites, RecordIsKept, CopyTypes, TargetTypes, LegEnded,
         RelayServerTypes, Remotes, FileStates
  <2>11. CopyIsWhole'
    BY <1>17 DEF TargetWrites, CopyIsWhole, CopyTypes, SourceTypes, LegEnded, TargetTypes,
         RelayServerTypes, Remotes, FileStates
  <2> QED
    BY <2>1, <2>2, <2>3, <2>4, <2>5, <2>6, <2>7, <2>8, <2>9, <2>10, <2>11 DEF RelayInv
<1>18. CASE BeginsCopy
  <2>1. CopyTypes'
    BY <1>18 DEF BeginsCopy, CopyTypes
  <2>2. SourceTypes'
    BY <1>18 DEF BeginsCopy, streams, SourceTypes, LegEnded
  <2>3. TargetTypes'
    BY <1>18 DEF BeginsCopy, TargetTypes, LegEnded
  <2>4. RelayServerTypes'
    BY <1>18 DEF BeginsCopy, RelayServerTypes, Remotes, FileStates
  <2>5. PipeTypes'
    BY <1>18 DEF BeginsCopy, streams, PipeTypes
  <2>6. SourceAnswersOnce'
    BY <1>18 DEF BeginsCopy, streams, SourceAnswersOnce, SourceTypes, LegEnded
  <2>7. LegsRunInside'
    BY <1>18 DEF BeginsCopy, LegsRunInside, LegEnded, CopyTypes, TargetTypes
  <2>8. StagedOnce'
    BY <1>18 DEF BeginsCopy, StagedOnce, TargetTypes, LegEnded, RelayServerTypes, Remotes,
         FileStates
  <2>9. RenamesWhatIsWhole'
    BY <1>18 DEF BeginsCopy, streams, RenamesWhatIsWhole, Measured, LegEnded, SourceTypes,
         TargetTypes, RelayServerTypes, Remotes, FileStates
  <2>10. RecordIsKept'
    BY <1>18 DEF BeginsCopy, RecordIsKept, CopyTypes, TargetTypes, LegEnded, RelayServerTypes,
         Remotes, FileStates
  <2>11. CopyIsWhole'
    BY <1>18 DEF BeginsCopy, streams, CopyIsWhole, CopyTypes, SourceTypes, LegEnded,
         TargetTypes, RelayServerTypes, Remotes, FileStates
  <2> QED
    BY <2>1, <2>2, <2>3, <2>4, <2>5, <2>6, <2>7, <2>8, <2>9, <2>10, <2>11 DEF RelayInv
<1>19. CASE Admitted
  <2>1. CopyTypes'
    BY <1>19 DEF Admitted, relayWorld, CopyTypes
  <2>2. SourceTypes'
    BY <1>19 DEF Admitted, streams, SourceTypes, LegEnded
  <2>3. TargetTypes'
    BY <1>19 DEF Admitted, relayWorld, TargetTypes, LegEnded
  <2>4. RelayServerTypes'
    BY <1>19 DEF Admitted, relayWorld, RelayServerTypes, Remotes, FileStates
  <2>5. PipeTypes'
    BY <1>19 DEF Admitted, streams, PipeTypes
  <2>6. SourceAnswersOnce'
    BY <1>19 DEF Admitted, streams, SourceAnswersOnce, SourceTypes, LegEnded
  <2>7. LegsRunInside'
    BY <1>19 DEF Admitted, relayWorld, LegsRunInside, LegEnded, CopyTypes, TargetTypes
  <2>8. StagedOnce'
    BY <1>19 DEF Admitted, relayWorld, StagedOnce, TargetTypes, LegEnded, RelayServerTypes,
         Remotes, FileStates
  <2>9. RenamesWhatIsWhole'
    BY <1>19 DEF Admitted, streams, relayWorld, RenamesWhatIsWhole, Measured, LegEnded,
         SourceTypes, TargetTypes, RelayServerTypes, Remotes, FileStates
  <2>10. RecordIsKept'
    BY <1>19 DEF Admitted, relayWorld, RecordIsKept, CopyTypes, TargetTypes, LegEnded,
         RelayServerTypes, Remotes, FileStates
  <2>11. CopyIsWhole'
    BY <1>19 DEF Admitted, streams, relayWorld, CopyIsWhole, CopyTypes, SourceTypes,
         LegEnded, TargetTypes, RelayServerTypes, Remotes, FileStates
  <2> QED
    BY <2>1, <2>2, <2>3, <2>4, <2>5, <2>6, <2>7, <2>8, <2>9, <2>10, <2>11 DEF RelayInv
<1>20. CASE Joined
  <2>1. CopyTypes'
    BY <1>20 DEF Joined, LegEnded, relayWorld, CopyTypes
  <2>2. SourceTypes'
    BY <1>20 DEF Joined, LegEnded, streams, SourceTypes
  <2>3. TargetTypes'
    BY <1>20 DEF Joined, LegEnded, relayWorld, TargetTypes
  <2>4. RelayServerTypes'
    BY <1>20 DEF Joined, LegEnded, relayWorld, RelayServerTypes, Remotes, FileStates
  <2>5. PipeTypes'
    BY <1>20 DEF Joined, LegEnded, streams, PipeTypes
  <2>6. SourceAnswersOnce'
    BY <1>20 DEF Joined, LegEnded, streams, SourceAnswersOnce, SourceTypes
  <2>7. LegsRunInside'
    BY <1>20 DEF Joined, LegEnded, relayWorld, LegsRunInside, CopyTypes, TargetTypes
  <2>8. StagedOnce'
    BY <1>20 DEF Joined, LegEnded, relayWorld, StagedOnce, TargetTypes, RelayServerTypes,
         Remotes, FileStates
  <2>9. RenamesWhatIsWhole'
    BY <1>20 DEF Joined, LegEnded, streams, relayWorld, RenamesWhatIsWhole, Measured,
         SourceTypes, TargetTypes, RelayServerTypes, Remotes, FileStates
  <2>10. RecordIsKept'
    BY <1>20 DEF Joined, LegEnded, relayWorld, RecordIsKept, CopyTypes, TargetTypes,
         RelayServerTypes, Remotes, FileStates
  <2>11. CopyIsWhole'
    BY <1>20 DEF Joined, LegEnded, streams, relayWorld, CopyIsWhole, CopyTypes,
         SourceTypes, TargetTypes, RelayServerTypes, Remotes, FileStates, PipeTypes,
         SourceAnswersOnce, LegsRunInside, StagedOnce, RenamesWhatIsWhole, Measured,
         RecordIsKept
  <2> QED
    BY <2>1, <2>2, <2>3, <2>4, <2>5, <2>6, <2>7, <2>8, <2>9, <2>10, <2>11 DEF RelayInv
<1>21. CASE SettlesCopy
  <2>1. CopyTypes'
    BY <1>21 DEF SettlesCopy, Finish, CopyTypes
  <2>2. SourceTypes'
    BY <1>21 DEF SettlesCopy, streams, SourceTypes, LegEnded
  <2>3. TargetTypes'
    BY <1>21 DEF SettlesCopy, Finish, TargetTypes, LegEnded
  <2>4. RelayServerTypes'
    BY <1>21 DEF SettlesCopy, RelayServerTypes, Remotes, FileStates
  <2>5. PipeTypes'
    BY <1>21 DEF SettlesCopy, streams, PipeTypes
  <2>6. SourceAnswersOnce'
    BY <1>21 DEF SettlesCopy, streams, SourceAnswersOnce, SourceTypes, LegEnded
  <2>7. LegsRunInside'
    BY <1>21 DEF SettlesCopy, Finish, LegsRunInside, LegEnded, CopyTypes, TargetTypes
  <2>8. StagedOnce'
    BY <1>21 DEF SettlesCopy, StagedOnce, TargetTypes, LegEnded, RelayServerTypes, Remotes,
         FileStates
  <2>9. RenamesWhatIsWhole'
    BY <1>21 DEF SettlesCopy, streams, RenamesWhatIsWhole, Measured, LegEnded,
         SourceTypes, TargetTypes, RelayServerTypes, Remotes, FileStates
  <2>10. RecordIsKept'
    BY <1>21 DEF SettlesCopy, Finish, RecordIsKept, CopyTypes, TargetTypes, LegEnded,
         RelayServerTypes, Remotes, FileStates
  <2>11. CopyIsWhole'
    BY <1>21 DEF SettlesCopy, Finish, streams, CopyIsWhole, CopyTypes, SourceTypes,
         LegEnded, TargetTypes, RelayServerTypes, Remotes, FileStates, PipeTypes, SourceAnswersOnce,
         LegsRunInside, StagedOnce, RenamesWhatIsWhole, Measured, RecordIsKept
  <2> QED
    BY <2>1, <2>2, <2>3, <2>4, <2>5, <2>6, <2>7, <2>8, <2>9, <2>10, <2>11 DEF RelayInv
<1>22. CASE CleansUp
  <2>1. CopyTypes'
    BY <1>22 DEF CleansUp, Finish, CopyTypes
  <2>2. SourceTypes'
    BY <1>22 DEF CleansUp, streams, SourceTypes, LegEnded
  <2>3. TargetTypes'
    BY <1>22 DEF CleansUp, Finish, TargetTypes, LegEnded
  <2>4. RelayServerTypes'
    <3>1. CASE UNCHANGED server
      BY <1>22, <3>1 DEF CleansUp, streams, RelayServerTypes
    <3>2. CASE server' # server
      BY <1>22, <3>2, RemovalStep DEF CleansUp, Finish, streams
    <3> QED
      BY <3>1, <3>2
  <2>5. PipeTypes'
    BY <1>22 DEF CleansUp, streams, PipeTypes
  <2>6. SourceAnswersOnce'
    BY <1>22 DEF CleansUp, streams, SourceAnswersOnce, SourceTypes, LegEnded
  <2>7. LegsRunInside'
    BY <1>22 DEF CleansUp, Finish, LegsRunInside, LegEnded, CopyTypes, TargetTypes
  <2>8. StagedOnce'
    <3>1. CASE UNCHANGED server
      BY <1>22, <3>1 DEF CleansUp, streams, StagedOnce
    <3>2. CASE server' # server
      BY <1>22, <3>2, RemovalStep DEF CleansUp, Finish, streams
    <3> QED
      BY <3>1, <3>2
  <2>9. RenamesWhatIsWhole'
    <3>1. CASE UNCHANGED server
      BY <1>22, <3>1 DEF CleansUp, streams, RenamesWhatIsWhole, Measured
    <3>2. CASE server' # server
      BY <1>22, <3>2, RemovalStep DEF CleansUp, Finish, streams
    <3> QED
      BY <3>1, <3>2
  <2>10. RecordIsKept'
    BY <1>22 DEF CleansUp, Finish, RecordIsKept, CopyTypes, TargetTypes, LegEnded,
         RelayServerTypes, Remotes, FileStates
  <2>11. CopyIsWhole'
    <3>1. CASE session # "open"
      BY <1>22, <3>1
         DEF CleansUp, Finish, streams, CopyIsWhole, RecordIsKept, LegsRunInside, StagedOnce,
             CopyTypes
    <3>2. CASE session = "open"
      <4>1. /\ server'.staged.is = "none" \/ server'.told
            /\ server'.dest = server.dest /\ server'.sizes = server.sizes
        BY <1>22, <3>2, RemovalStep DEF CleansUp, Finish, streams
      <4> QED
        BY <1>22, <3>2, <4>1 DEF CleansUp, Finish, streams, CopyIsWhole, CopyTypes
    <3> QED
      BY <3>1, <3>2
  <2> QED
    BY <2>1, <2>2, <2>3, <2>4, <2>5, <2>6, <2>7, <2>8, <2>9, <2>10, <2>11 DEF RelayInv
<1>23. CASE Disconnects
  <2>1. CopyTypes'
    BY <1>23 DEF Disconnects, CopyTypes
  <2>2. SourceTypes'
    BY <1>23 DEF Disconnects, streams, SourceTypes, LegEnded
  <2>3. TargetTypes'
    BY <1>23 DEF Disconnects, TargetTypes, LegEnded
  <2>4. RelayServerTypes'
    BY <1>23 DEF Disconnects, RelayServerTypes, Remotes, FileStates
  <2>5. PipeTypes'
    BY <1>23 DEF Disconnects, streams, PipeTypes
  <2>6. SourceAnswersOnce'
    BY <1>23 DEF Disconnects, streams, SourceAnswersOnce, SourceTypes, LegEnded
  <2>7. LegsRunInside'
    BY <1>23 DEF Disconnects, LegsRunInside, LegEnded, CopyTypes, TargetTypes
  <2>8. StagedOnce'
    BY <1>23 DEF Disconnects, StagedOnce, TargetTypes, LegEnded, RelayServerTypes, Remotes,
         FileStates
  <2>9. RenamesWhatIsWhole'
    BY <1>23 DEF Disconnects, streams, RenamesWhatIsWhole, Measured, LegEnded,
         SourceTypes, TargetTypes, RelayServerTypes, Remotes, FileStates
  <2>10. RecordIsKept'
    BY <1>23 DEF Disconnects, RecordIsKept, CopyTypes, TargetTypes, LegEnded, RelayServerTypes,
         Remotes, FileStates
  <2>11. CopyIsWhole'
    BY <1>23 DEF Disconnects, streams, CopyIsWhole, CopyTypes, SourceTypes, LegEnded,
         TargetTypes, RelayServerTypes, Remotes, FileStates
  <2> QED
    BY <2>1, <2>2, <2>3, <2>4, <2>5, <2>6, <2>7, <2>8, <2>9, <2>10, <2>11 DEF RelayInv
<1>24. CASE Sweeps
  <2>1. CopyTypes'
    BY <1>24 DEF Sweeps, LegEnded, CopyTypes
  <2>2. SourceTypes'
    BY <1>24 DEF Sweeps, LegEnded, streams, SourceTypes
  <2>3. TargetTypes'
    BY <1>24 DEF Sweeps, LegEnded, TargetTypes
  <2>4. RelayServerTypes'
    <3>1. CASE UNCHANGED server
      BY <1>24, <3>1 DEF Sweeps, streams, RelayServerTypes
    <3>2. CASE server' # server
      BY <1>24, <3>2, RemovalStep DEF Sweeps, streams
    <3> QED
      BY <3>1, <3>2
  <2>5. PipeTypes'
    BY <1>24 DEF Sweeps, LegEnded, streams, PipeTypes
  <2>6. SourceAnswersOnce'
    BY <1>24 DEF Sweeps, LegEnded, streams, SourceAnswersOnce, SourceTypes
  <2>7. LegsRunInside'
    BY <1>24 DEF Sweeps, LegEnded, LegsRunInside, CopyTypes, TargetTypes
  <2>8. StagedOnce'
    <3>1. CASE UNCHANGED server
      BY <1>24, <3>1 DEF Sweeps, streams, StagedOnce
    <3>2. CASE server' # server
      BY <1>24, <3>2, RemovalStep DEF Sweeps, streams
    <3> QED
      BY <3>1, <3>2
  <2>9. RenamesWhatIsWhole'
    <3>1. CASE UNCHANGED server
      BY <1>24, <3>1 DEF Sweeps, streams, RenamesWhatIsWhole, Measured
    <3>2. CASE server' # server
      BY <1>24, <3>2, RemovalStep DEF Sweeps, streams
    <3> QED
      BY <3>1, <3>2
  <2>10. RecordIsKept'
    BY <1>24 DEF Sweeps, LegEnded, Faulty, streams, RecordIsKept, CopyTypes, SourceTypes,
         TargetTypes, RelayServerTypes, Remotes, FileStates, PipeTypes, SourceAnswersOnce,
         LegsRunInside, StagedOnce, RenamesWhatIsWhole, Measured, CopyIsWhole
  <2>11. CopyIsWhole'
    <3>1. CASE ~record
      BY <1>24, <3>1
         DEF Sweeps, streams, CopyIsWhole, RecordIsKept, LegsRunInside, StagedOnce, CopyTypes
    <3>2. CASE record
      <4>1. /\ server'.staged.is = "none" \/ server'.told
            /\ server'.dest = server.dest /\ server'.sizes = server.sizes
        BY <1>24, <3>2, RemovalStep DEF Sweeps, streams
      <4> QED
        BY <1>24, <3>2, <4>1 DEF Sweeps, streams, CopyIsWhole, CopyTypes
    <3> QED
      BY <3>1, <3>2
  <2> QED
    BY <2>1, <2>2, <2>3, <2>4, <2>5, <2>6, <2>7, <2>8, <2>9, <2>10, <2>11 DEF RelayInv
<1>25. ASSUME NEW leg \in {"source", "target"}, StopsLeg(leg) PROVE RelayInv'
  <2>1. CopyTypes'
    BY <1>25 DEF StopsLeg, CopyTypes
  <2>2. SourceTypes'
    BY <1>25 DEF StopsLeg, streams, SourceTypes, LegEnded
  <2>3. TargetTypes'
    BY <1>25 DEF StopsLeg, TargetTypes, LegEnded
  <2>4. RelayServerTypes'
    BY <1>25 DEF StopsLeg, RelayServerTypes, Remotes, FileStates
  <2>5. PipeTypes'
    BY <1>25 DEF StopsLeg, streams, PipeTypes
  <2>6. SourceAnswersOnce'
    BY <1>25 DEF StopsLeg, streams, SourceAnswersOnce, SourceTypes, LegEnded
  <2>7. LegsRunInside'
    BY <1>25 DEF StopsLeg, LegsRunInside, LegEnded, CopyTypes, TargetTypes
  <2>8. StagedOnce'
    BY <1>25 DEF StopsLeg, StagedOnce, TargetTypes, LegEnded, RelayServerTypes, Remotes, FileStates
  <2>9. RenamesWhatIsWhole'
    BY <1>25 DEF StopsLeg, streams, RenamesWhatIsWhole, Measured, LegEnded, SourceTypes,
         TargetTypes, RelayServerTypes, Remotes, FileStates
  <2>10. RecordIsKept'
    BY <1>25 DEF StopsLeg, RecordIsKept, CopyTypes, TargetTypes, LegEnded, RelayServerTypes,
         Remotes, FileStates
  <2>11. CopyIsWhole'
    BY <1>25 DEF StopsLeg, streams, CopyIsWhole, CopyTypes, SourceTypes, LegEnded,
         TargetTypes, RelayServerTypes, Remotes, FileStates
  <2> QED
    BY <2>1, <2>2, <2>3, <2>4, <2>5, <2>6, <2>7, <2>8, <2>9, <2>10, <2>11 DEF RelayInv
<1>26. ASSUME NEW n \in 0 .. RelayBlocks, SourceEdited(n) PROVE RelayInv'
  <2>1. CopyTypes'
    BY <1>26 DEF SourceEdited, CopyTypes
  <2>2. SourceTypes'
    BY <1>26 DEF SourceEdited, streams, SourceTypes, LegEnded
  <2>3. TargetTypes'
    BY <1>26 DEF SourceEdited, TargetTypes, LegEnded
  <2>4. RelayServerTypes'
    BY <1>26 DEF SourceEdited, RelayServerTypes, Remotes, FileStates
  <2>5. PipeTypes'
    BY <1>26 DEF SourceEdited, streams, PipeTypes
  <2>6. SourceAnswersOnce'
    BY <1>26 DEF SourceEdited, streams, SourceAnswersOnce, SourceTypes, LegEnded
  <2>7. LegsRunInside'
    BY <1>26 DEF SourceEdited, LegsRunInside, LegEnded, CopyTypes, TargetTypes
  <2>8. StagedOnce'
    BY <1>26 DEF SourceEdited, StagedOnce, TargetTypes, LegEnded, RelayServerTypes, Remotes,
         FileStates
  <2>9. RenamesWhatIsWhole'
    BY <1>26 DEF SourceEdited, streams, RenamesWhatIsWhole, Measured, LegEnded,
         SourceTypes, TargetTypes, RelayServerTypes, Remotes, FileStates
  <2>10. RecordIsKept'
    BY <1>26 DEF SourceEdited, RecordIsKept, CopyTypes, TargetTypes, LegEnded,
         RelayServerTypes, Remotes, FileStates
  <2>11. CopyIsWhole'
    BY <1>26 DEF SourceEdited, streams, CopyIsWhole, CopyTypes, SourceTypes, LegEnded,
         TargetTypes, RelayServerTypes, Remotes, FileStates
  <2> QED
    BY <2>1, <2>2, <2>3, <2>4, <2>5, <2>6, <2>7, <2>8, <2>9, <2>10, <2>11 DEF RelayInv
<1> QED
  BY <1>1, <1>2, <1>3, <1>4, <1>5, <1>6, <1>7, <1>8, <1>9, <1>10, <1>11, <1>12, <1>13,
       <1>14, <1>15, <1>16, <1>17, <1>18, <1>19, <1>20, <1>21, <1>22, <1>23, <1>24, <1>25,
       <1>26 DEF RelayNext

(* Before the command nothing is copied, whatever the servers hold. *)
LEMMA RelayInvInit ==
  ASSUME RelayInit
  PROVE  RelayInv
<1>1. CopyTypes /\ SourceTypes /\ PipeTypes
  BY DEF RelayInit, CopyTypes, SourceTypes, PipeTypes, LegEnded
<1>2. TargetTypes
  BY DEF RelayInit, TargetTypes, LegEnded
<1>3. PICK says \in [source : BOOLEAN, target : BOOLEAN], over \in BOOLEAN,
           there \in {"none", "old"}, n \in 0 .. RelayBlocks :
         server = [length |-> n, sizes |-> says, overwrite |-> over,
                   dest |-> [is |-> there, blocks |-> 0],
                   staged |-> [is |-> "none", blocks |-> 0],
                   renames |-> FALSE, told |-> FALSE]
  BY DEF RelayInit
<1>4. RelayServerTypes
  <2>1. n \in Nat
    BY RelayAssumption
  <2>2. [is |-> there, blocks |-> 0] \in FileStates /\ [is |-> "none", blocks |-> 0] \in FileStates
    BY DEF FileStates
  <2> QED
    BY <1>3, <2>1, <2>2, Zenon DEF RelayServerTypes, Remotes
<1>5. server.dest.is # "copy" /\ server.staged.is = "none" /\ server.renames = FALSE
  BY <1>3
<1>6. SourceAnswersOnce /\ LegsRunInside /\ StagedOnce
  BY <1>5 DEF RelayInit, SourceAnswersOnce, LegsRunInside, StagedOnce, LegEnded
<1>7. RenamesWhatIsWhole /\ RecordIsKept /\ CopyIsWhole
  BY <1>5 DEF RelayInit, RenamesWhatIsWhole, RecordIsKept, CopyIsWhole
<1> QED
  BY <1>1, <1>2, <1>4, <1>6, <1>7 DEF RelayInv

(* CopyIsWhole: what a relayed copy puts in place is the source, read to its end *)
(* and as long as it where both servers tell, for sources of any length, a pipe   *)
(* of any room and any number of losses, stops and edits; what it leaves beside   *)
(* is named by a record or by the log.                                            *)
THEOREM RelayedCopiesAreWhole == RelaySpec => []CopyIsWhole
<1>1. RelayInit => RelayInv
  BY RelayInvInit
<1>2. RelayInv /\ [RelayNext]_relayVars => RelayInv'
  BY RelayInvStep
<1>3. RelayInv => CopyIsWhole
  BY DEF RelayInv
<1> QED
  BY <1>1, <1>2, <1>3, PTL DEF RelaySpec
-----------------------------------------------------------------------------
(* FolderWalk: a folder copied or moved, in several attempts *)
\* What stands at a name, and a journal, with no bound on their numbers.
WalkObjects == [by : {"nothing", "before", "walk", "other"}, ver : Nat, n : Nat]
Journals == [done : [Files -> Nat], targets : [Files -> WalkObjects], sources : [Files -> Nat],
             created : SUBSET Files, madeDir : BOOLEAN, inFlight : Nat, deleting : BOOLEAN]

\* The highest number of a stamp in the first w attempts, and in those that
\* are over.
Top(w) == w * WalkFiles
Over == IF wPc = "idle" THEN Top(wWalks) ELSE Top(wWalks - 1)

\* The types of the variables, in two parts.
WalkTypes ==
    /\ wMoving \in BOOLEAN /\ wRemote \in BOOLEAN
    /\ wPolicy \in {"refuse", "overwrite", "skip"}
    /\ wSrc \in [Files -> Nat] /\ wDst \in [Files -> WalkObjects] /\ wDir \in BOOLEAN
    /\ wPc \in {"idle", "scan", "copy", "send", "landed", "verify", "remove", "settle"}
    /\ wFile \in Nat /\ wScan \in [Files -> Nat] /\ wExisting \subseteq Files /\ wReceipt \in Nat
    /\ wWalks \in Nat /\ wOutside \in Nat
    /\ wRemoved \in [Files -> Nat] /\ wStood \subseteq Files
JournalTypes ==
    /\ wJournal \in Journals
    /\ wKept = <<>> \/ \E j \in Journals : wKept = <<j>>

\* Where an attempt is.
Stages ==
    /\ wPc = "idle" => wJournal = NoJournal
    /\ wPc # "idle" => wWalks > 0
    /\ wMoving => ~wRemote
    /\ wPc \in {"verify", "remove"} => wMoving
    /\ wPc = "remove" => wJournal.deleting /\ wFile <= WalkFiles
    /\ wPc \in {"send", "landed"} => wFile \in Files /\ wReceipt # 0

\* Every version there was is older than the next edit.
VersionsAreOld == wReceipt <= wOutside + 1 /\ \A f \in Files : wSrc[f] <= wOutside + 1

\* What has landed is the walk's, and of the source that was read unless the
\* source has changed since.
LandedIsOurs ==
    wPc = "landed" =>
        /\ wDst[wFile].by = "walk" /\ wDst[wFile].n = Top(wWalks - 1) + wFile
        /\ wSrc[wFile] = wReceipt => wDst[wFile].ver = wReceipt

\* A receipt is of an object of the walk, a copy of the recorded source.
Tells(j) ==
    ~wRemote => \A f \in Files :
        \/ j.targets[f] = NoFile /\ j.sources[f] = 0 /\ f \notin j.created
        \/ j.targets[f].by = "walk" /\ j.targets[f].ver = j.sources[f]

\* Nothing that stood before is the walk's.
Spares(j) == j.created \cap wStood = {} /\ (j.madeDir => wStood = {})

\* What a journal would take back has its original.
Vouches(j) ==
    ~wRemote /\ ~j.deleting =>
        \A f \in j.created : j.targets[f] = wDst[f] => wSrc[f] # 0

\* The journal of the attempt and the kept one.
JournalsAreTrue ==
    /\ Tells(wJournal) /\ Spares(wJournal) /\ Vouches(wJournal)
    /\ \A j \in Journals : wKept = <<j>> => Tells(j) /\ Spares(j) /\ Vouches(j)

\* The stamps of this attempt are none of those of a journal that is kept.
StampsAreFresh ==
    ~wRemote => \A f \in Files :
        /\ wJournal.targets[f].n <= Top(wWalks)
        /\ \A j \in Journals : wKept = <<j>> =>
              /\ j.targets[f].n <= Over
              /\ wPc # "idle" => wJournal.targets[f] = NoFile \/ wJournal.targets[f].n > Over

\* What stood before stands, and the attempt knows it.
StoodStands ==
    /\ \A f \in wStood : wDst[f] # NoFile
    /\ wStood # {} => wDir
    /\ wPc \in {"copy", "send", "landed"} /\ wPolicy # "refuse" => wStood \subseteq wExisting
    /\ wPc = "landed" /\ wPolicy = "refuse" => wFile \notin wStood

(* The inductive invariant: a journal tells the truth of what it copied, and  *)
(* what it may take back still has its original.                              *)
WalkInv ==
    /\ WalkTypes /\ JournalTypes /\ Stages /\ VersionsAreOld /\ LandedIsOurs
    /\ JournalsAreTrue /\ StampsAreFresh /\ StoodStands

\* The numbers of one attempt follow those of the one before.
LEMMA TopGrows == \A w \in Nat : Top(w) \in Nat /\ Top(w + 1) = Top(w) + WalkFiles
BY WalkAssumption DEF Top

\* A stamp of this attempt is higher than every stamp of those before.
LEMMA StampIsFresh ==
  ASSUME WalkTypes, wWalks > 0
  PROVE  /\ Top(wWalks - 1) \in Nat /\ Top(wWalks) = Top(wWalks - 1) + WalkFiles
         /\ \A f \in Files, ver \in Nat :
               /\ Stamped(f, ver) \in WalkObjects /\ Stamped(f, ver).by = "walk"
               /\ Stamped(f, ver).ver = ver /\ Stamped(f, ver).n = Top(wWalks - 1) + f
               /\ Stamped(f, ver) # NoFile
<1>1. wWalks - 1 \in Nat /\ wWalks = (wWalks - 1) + 1
  BY DEF WalkTypes
<1>2. Top(wWalks - 1) \in Nat /\ Top(wWalks) = Top(wWalks - 1) + WalkFiles
  BY <1>1, TopGrows
<1>3. ASSUME NEW f \in Files, NEW ver \in Nat
      PROVE  /\ Stamped(f, ver) \in WalkObjects /\ Stamped(f, ver).by = "walk"
             /\ Stamped(f, ver).ver = ver /\ Stamped(f, ver).n = Top(wWalks - 1) + f
             /\ Stamped(f, ver) # NoFile
  <2>1. Top(wWalks - 1) + f \in Nat
    BY <1>2, WalkAssumption DEF Files
  <2>2. Stamped(f, ver) = [by |-> "walk", ver |-> ver, n |-> Top(wWalks - 1) + f]
    BY DEF Stamped, Top
  <2>3. Stamped(f, ver).by # NoFile.by
    BY <2>2 DEF NoFile
  <2> QED BY <2>1, <2>2, <2>3 DEF WalkObjects
<1> QED BY <1>2, <1>3

\* Of an empty journal all this is true.
LEMMA EmptyJournal ==
  /\ NoJournal \in Journals /\ NoFile \in WalkObjects /\ Tells(NoJournal) /\ Spares(NoJournal)
  /\ Vouches(NoJournal)
  /\ \A f \in Files : NoJournal.targets[f] = NoFile
<1>1. NoFile \in WalkObjects
  BY DEF NoFile, WalkObjects
<1>2. [f \in Files |-> NoFile] \in [Files -> WalkObjects] /\ [f \in Files |-> 0] \in [Files -> Nat]
  BY <1>1
<1>3. NoJournal \in Journals
  BY <1>2 DEF NoJournal, Journals
<1> QED BY <1>1, <1>3 DEF NoJournal, Tells, Spares, Vouches

\* A row begins with none.
LEMMA WalkStarts == WalkInit => WalkInv
<1> SUFFICES ASSUME WalkInit PROVE WalkInv
  OBVIOUS
<1>0. WalkFiles \in Nat /\ Top(0) \in Nat
  BY WalkAssumption, TopGrows
<1>1. JournalTypes
  BY EmptyJournal DEF WalkInit, JournalTypes
<1>2. [f \in Files |-> 0] \in [Files -> Nat] /\ [f \in Files |-> 1] \in [Files -> Nat]
  OBVIOUS
<1>3. [by |-> "before", ver |-> 0, n |-> 0] \in WalkObjects
  BY DEF WalkObjects
<1>4. wDst \in [Files -> WalkObjects] /\ \A f \in wStood : wDst[f] # NoFile
  <2>1. [by |-> "before", ver |-> 0, n |-> 0].by # NoFile.by
    BY DEF NoFile
  <2>2. /\ wStood \subseteq Files
        /\ wDst = [f \in Files |-> IF f \in wStood THEN [by |-> "before", ver |-> 0, n |-> 0]
                               ELSE NoFile]
    BY DEF WalkInit
  <2> QED BY <1>3, <2>1, <2>2, EmptyJournal
<1>5. WalkTypes
  BY <1>2, <1>4 DEF WalkInit, WalkTypes
<1>6. Stages /\ VersionsAreOld /\ LandedIsOurs
  BY DEF WalkInit, Stages, VersionsAreOld, LandedIsOurs
<1>7. JournalsAreTrue
  BY EmptyJournal DEF WalkInit, JournalsAreTrue
<1>8. StampsAreFresh
  <2>1. \A f \in Files : NoJournal.targets[f].n = 0
    BY EmptyJournal DEF NoFile
  <2> QED BY <2>1, <1>0 DEF WalkInit, StampsAreFresh
<1>9. StoodStands
  BY <1>4 DEF WalkInit, StoodStands
<1> QED BY <1>1, <1>5, <1>6, <1>7, <1>8, <1>9 DEF WalkInv

\* Steps of an attempt that touch neither files nor journals.
LEMMA WalkGoesOn ==
  ASSUME WalkInv, PassOver \/ EndOfFiles \/ (\E how \in {"pause", "stop"} : CancelWalk(how))
              \/ CloseWalkConnection
                  \/ UNCHANGED walkVars
  PROVE  WalkInv'
<1>0. WalkFiles \in Nat /\ WalkTypes /\ JournalTypes /\ Stages
  BY WalkAssumption DEF WalkInv
<1>1. /\ UNCHANGED <<wMoving, wPolicy, wRemote, wStood, wSrc, wDst, wDir, wRemoved, wJournal,
                     wWalks, wOutside, wScan, wExisting, wReceipt>>
      /\ wKept' = wKept \/ (wRemote /\ wKept' = <<>>)
  BY DEF PassOver, EndOfFiles, CancelWalk, CloseWalkConnection, ForgetKept, intent, disk, report,
         control, counts, plan, walkVars
<1>2. \/ wPc' = wPc /\ wFile' = wFile
      \/ wPc = "copy" /\ wPc' \in {"copy", "settle"} /\ wFile' \in {wFile, wFile + 1}
      \/ wPc = "copy" /\ wMoving /\ wPc' = "verify" /\ wFile' = wFile
  BY DEF PassOver, EndOfFiles, CancelWalk, CloseWalkConnection, NextFile, Fail, walkVars
<1>3. WalkTypes'
  BY <1>0, <1>1, <1>2 DEF WalkTypes
<1>4. JournalTypes'
  BY <1>0, <1>1 DEF JournalTypes
<1>5. Stages'
  BY <1>0, <1>1, <1>2 DEF Stages
<1>6. VersionsAreOld' /\ LandedIsOurs'
  BY <1>1, <1>2 DEF WalkInv, VersionsAreOld, LandedIsOurs, Top
<1>7. JournalsAreTrue'
  BY <1>1 DEF WalkInv, JournalsAreTrue, Tells, Spares, Vouches
<1>8. StampsAreFresh'
  BY <1>1, <1>2 DEF WalkInv, StampsAreFresh, Over, Top
<1>9. StoodStands'
  BY <1>1, <1>2 DEF WalkInv, StoodStands
<1> QED BY <1>3, <1>4, <1>5, <1>6, <1>7, <1>8, <1>9 DEF WalkInv

\* A kept journal stays true while no file changes.
LEMMA KeptStaysTrue ==
  ASSUME WalkInv, UNCHANGED <<wRemote, wStood, wSrc, wDst, wKept>>, NEW j \in Journals,
         wKept = <<j>>
  PROVE  Tells(j)' /\ Spares(j)' /\ Vouches(j)'
BY DEF WalkInv, JournalsAreTrue, Tells, Spares, Vouches

\* Steps that write into the journal of the attempt.
LEMMA JournalStep ==
  ASSUME WalkInv, ScanAndMakeFolders \/ BeginFile \/ VerifySource
  PROVE  WalkInv'
<1>0. WalkFiles \in Nat /\ WalkTypes /\ JournalTypes /\ Stages /\ wJournal \in Journals
  BY WalkAssumption DEF WalkInv, JournalTypes
<1>1. /\ UNCHANGED <<wMoving, wPolicy, wRemote, wStood, wSrc, wDst, wRemoved, wWalks, wOutside,
                     wKept>>
  BY DEF ScanAndMakeFolders, BeginFile, VerifySource, intent, disk, counts
<1>2. /\ wJournal' \in Journals /\ wJournal'.targets = wJournal.targets
      /\ wJournal'.sources = wJournal.sources /\ wJournal'.created = wJournal.created
      /\ wJournal.deleting => wJournal'.deleting
      /\ wJournal'.madeDir => wJournal.madeDir \/ ~wDir
      /\ wDir' \in BOOLEAN /\ (wDir => wDir')
  <2>1. \/ wJournal' = wJournal /\ wDir' = wDir
        \/ wJournal' = [wJournal EXCEPT !.madeDir = @ \/ ~wDir] /\ wDir' = TRUE
        \/ wJournal' = [wJournal EXCEPT !.done[wFile] = 0, !.inFlight = wFile] /\ wFile \in Files
             /\ wDir' = wDir
        \/ wJournal' = [wJournal EXCEPT !.deleting = TRUE] /\ wDir' = wDir
    BY DEF ScanAndMakeFolders, BeginFile, VerifySource, MakeFolder, disk
  <2>2. CASE wJournal' = wJournal /\ wDir' = wDir
    BY <2>2, <1>0 DEF WalkTypes
  <2>3. CASE wJournal' = [wJournal EXCEPT !.madeDir = @ \/ ~wDir] /\ wDir' = TRUE
    BY <2>3, <1>0 DEF Journals, WalkTypes
  <2>4. CASE /\ wJournal' = [wJournal EXCEPT !.done[wFile] = 0, !.inFlight = wFile]
             /\ wFile \in Files /\ wDir' = wDir
    BY <2>4, <1>0 DEF Journals, WalkTypes
  <2>5. CASE wJournal' = [wJournal EXCEPT !.deleting = TRUE] /\ wDir' = wDir
    BY <2>5, <1>0 DEF Journals, WalkTypes
  <2> QED BY <2>1, <2>2, <2>3, <2>4, <2>5
<1>3. /\ wPc # "idle" /\ wPc' \notin {"idle", "landed"}
      /\ wPc' \in {"copy", "send", "settle", "remove"}
      /\ wPc' = "copy" => wPc = "scan"
      /\ wPc' = "send" => wPc = "copy" /\ wFile' = wFile /\ wFile \in Files /\ wReceipt' # 0
      /\ wPc' = "remove" => wPc = "verify" /\ wJournal'.deleting /\ wFile' <= WalkFiles
      /\ wFile' \in {wFile, 1, WalkFiles} /\ wReceipt' \in {wReceipt} \cup {wSrc[f] : f \in Files}
  <2>1. CASE ScanAndMakeFolders
    BY <2>1 DEF ScanAndMakeFolders, Fail
  <2>2. CASE BeginFile
    BY <2>2 DEF BeginFile, Fail
  <2>3. CASE VerifySource
    <3>1. wJournal' = [wJournal EXCEPT !.deleting = TRUE] => wJournal'.deleting
      BY <1>0 DEF Journals
    <3> QED BY <2>3, <3>1, <1>0 DEF VerifySource, Fail
  <2> QED BY <2>1, <2>2, <2>3
<1>4. wScan' \in [Files -> Nat] /\ wExisting' \subseteq Files
  BY <1>0 DEF ScanAndMakeFolders, BeginFile, VerifySource, plan, ScanSource, Standing, WalkTypes
<1>5. WalkTypes'
  BY <1>0, <1>1, <1>2, <1>3, <1>4 DEF WalkTypes
<1>6. JournalTypes'
  BY <1>0, <1>1, <1>2 DEF JournalTypes
<1>7. Stages'
  BY <1>0, <1>1, <1>3 DEF Stages
<1>8. VersionsAreOld' /\ LandedIsOurs'
  BY <1>0, <1>1, <1>3 DEF WalkInv, VersionsAreOld, LandedIsOurs, WalkTypes
<1>9. Tells(wJournal)' /\ Spares(wJournal)' /\ Vouches(wJournal)'
  BY <1>1, <1>2 DEF WalkInv, JournalsAreTrue, StoodStands, Tells, Spares, Vouches
<1>10. JournalsAreTrue'
  BY <1>1, <1>9, KeptStaysTrue DEF JournalsAreTrue
<1>11. StampsAreFresh'
  BY <1>1, <1>2, <1>3 DEF WalkInv, StampsAreFresh, Over, Top
<1>12. wPc' \in {"copy", "send"} /\ wPolicy # "refuse" => wStood \subseteq wExisting'
  <2>1. CASE ScanAndMakeFolders
    <3>1. CASE wPc' = "copy"
      <4>1. wExisting' = IF wPolicy = "refuse" \/ wJournal'.madeDir THEN {} ELSE Standing
        BY <2>1, <3>1 DEF ScanAndMakeFolders, Fail
      <4>2. wJournal'.madeDir => wStood = {}
        BY <1>9, <1>1 DEF Spares
      <4>3. wStood \subseteq Standing
        BY <1>0 DEF WalkInv, StoodStands, Standing, WalkTypes
      <4> QED BY <4>1, <4>2, <4>3
    <3>2. CASE wPc' # "copy"
      BY <2>1, <3>2 DEF ScanAndMakeFolders, Fail
    <3> QED BY <3>1, <3>2
  <2>2. CASE BeginFile
    BY <2>2 DEF BeginFile, plan, WalkInv, StoodStands
  <2>3. CASE VerifySource
    BY <2>3 DEF VerifySource, Fail
  <2> QED BY <2>1, <2>2, <2>3
<1>13. StoodStands'
  BY <1>1, <1>2, <1>3, <1>12 DEF WalkInv, StoodStands
<1> QED BY <1>5, <1>6, <1>7, <1>8, <1>10, <1>11, <1>13 DEF WalkInv

\* A file is sent: nothing that was another's is replaced unless so asked.
LEMMA SendStep ==
  ASSUME WalkInv, SendFile
  PROVE  /\ WalkInv'
         /\ UNCHANGED <<wSrc, wRemoved>>
         /\ \A f \in Files : wDst'[f] # wDst[f] =>
               wDst'[f].by = "walk" /\ wSrc[f] # 0 /\ (wDst[f] = NoFile \/ wPolicy = "overwrite")
<1>0. /\ WalkFiles \in Nat /\ WalkTypes /\ JournalTypes /\ Stages /\ wPc = "send"
      /\ wFile \in Files /\ wWalks > 0
  BY WalkAssumption DEF WalkInv, SendFile, Stages
<1>1. /\ UNCHANGED <<wMoving, wPolicy, wRemote, wStood, wSrc, wDir, wRemoved, wJournal, wWalks,
                     wOutside, wScan, wExisting, wReceipt, wKept>>
  BY DEF SendFile, intent, plan, counts
<1>2. /\ wPc' \in {"copy", "landed"} /\ wFile' \in {wFile, wFile + 1}
      /\ wPc' = "landed" => CopyFile /\ wFile' = wFile
      /\ CopyFile \/ wDst' = wDst
  BY <1>0 DEF SendFile, NextFile
<1>3. CopyFile => /\ wSrc[wFile] # 0 /\ (wDst[wFile] = NoFile \/ wPolicy = "overwrite")
                  /\ wDst' = [wDst EXCEPT ![wFile] = Stamped(wFile, wSrc[wFile])]
  BY DEF CopyFile, NameFree
<1>4. /\ Stamped(wFile, wSrc[wFile]) \in WalkObjects /\ Stamped(wFile, wSrc[wFile]).by = "walk"
      /\ Stamped(wFile, wSrc[wFile]).ver = wSrc[wFile] /\ Stamped(wFile, wSrc[wFile]) # NoFile
      /\ Stamped(wFile, wSrc[wFile]).n = Top(wWalks - 1) + wFile
  BY <1>0, StampIsFresh DEF WalkTypes
<1>5. /\ wDst' \in [Files -> WalkObjects]
      /\ \A f \in Files : wDst'[f] # wDst[f] =>
               /\ wDst'[f].by = "walk" /\ wDst'[f] # NoFile /\ wSrc[f] # 0
               /\ (wDst[f] = NoFile \/ wPolicy = "overwrite")
  BY <1>0, <1>2, <1>3, <1>4 DEF WalkTypes
<1>6. WalkTypes'
  BY <1>0, <1>1, <1>2, <1>5 DEF WalkTypes, Files
<1>7. JournalTypes' /\ Stages'
  BY <1>0, <1>1, <1>2 DEF JournalTypes, Stages
<1>8. VersionsAreOld'
  BY <1>1 DEF WalkInv, VersionsAreOld
<1>9. LandedIsOurs'
  <2>1. wPc' = "landed" => wDst'[wFile'] = Stamped(wFile, wSrc[wFile])
    BY <1>0, <1>2, <1>3 DEF WalkTypes
  <2> QED BY <1>1, <1>2, <1>4, <2>1 DEF LandedIsOurs, Top
<1>10. ASSUME NEW j, Tells(j), Spares(j), Vouches(j), j.created \subseteq Files
       PROVE  Tells(j)' /\ Spares(j)' /\ Vouches(j)'
  BY <1>1, <1>5, <1>10 DEF Tells, Spares, Vouches
<1>11. JournalsAreTrue'
  <2>1. Tells(wJournal)' /\ Spares(wJournal)' /\ Vouches(wJournal)'
    <3>1. wJournal.created \subseteq Files
      BY <1>0 DEF JournalTypes, Journals
    <3> QED BY <1>1, <1>5, <3>1 DEF WalkInv, JournalsAreTrue, Tells, Spares, Vouches
  <2>2. ASSUME NEW j \in Journals, wKept' = <<j>> PROVE Tells(j)' /\ Spares(j)' /\ Vouches(j)'
    <3>1. j.created \subseteq Files
      BY DEF Journals
    <3> QED BY <1>1, <1>10, <2>2, <3>1 DEF WalkInv, JournalsAreTrue
  <2> QED BY <2>1, <2>2 DEF JournalsAreTrue
<1>12. StampsAreFresh'
  BY <1>0, <1>1, <1>2 DEF WalkInv, StampsAreFresh, Over, Top
<1>13. StoodStands'
  <2>1. \A f \in wStood : wDst'[f] # NoFile
    BY <1>0, <1>5 DEF WalkInv, StoodStands, WalkTypes
  <2>2. wPc' = "landed" /\ wPolicy = "refuse" => wFile \notin wStood
    BY <1>2, <1>3 DEF WalkInv, StoodStands
  <2> QED BY <1>0, <1>1, <1>2, <2>1, <2>2 DEF WalkInv, StoodStands
<1> QED BY <1>1, <1>5, <1>6, <1>7, <1>8, <1>9, <1>11, <1>12, <1>13 DEF WalkInv

\* The file that landed is recorded: its source is what was read.
LEMMA RecordFileStep ==
  ASSUME WalkInv, RecordFile
  PROVE  WalkInv'
<1>0. /\ WalkFiles \in Nat /\ WalkTypes /\ JournalTypes /\ Stages /\ wPc = "landed"
      /\ wFile \in Files /\ wWalks > 0
      /\ wReceipt # 0 /\ wJournal \in Journals
  BY WalkAssumption DEF WalkInv, RecordFile, Stages, JournalTypes
<1>1. /\ UNCHANGED <<wMoving, wPolicy, wRemote, wStood, wSrc, wDst, wDir, wRemoved, wWalks,
                     wOutside, wScan, wExisting, wKept>>
      /\ wReceipt' = 0
  BY DEF RecordFile, intent, plan, counts, disk
<1>2. \/ wPc' = "settle" /\ wFile' = wFile /\ wJournal' = wJournal
      \/ /\ wPc' = "copy" /\ wFile' = wFile + 1 /\ wSrc[wFile] = wReceipt
         /\ wJournal' = [wJournal EXCEPT
                    !.done[wFile] = wScan[wFile], !.sources[wFile] = wReceipt, !.inFlight = 0,
                    !.targets[wFile] = IF wRemote THEN NoFile ELSE wDst[wFile],
                    !.created = IF Existed THEN @ ELSE @ \cup {wFile}]
  BY DEF RecordFile, NextFile, Fail
<1>3. wDst[wFile].by = "walk" /\ wDst[wFile].n = Top(wWalks - 1) + wFile
      /\ (wSrc[wFile] = wReceipt => wDst[wFile].ver = wReceipt)
  BY <1>0 DEF WalkInv, LandedIsOurs
<1>4. Top(wWalks - 1) \in Nat /\ Top(wWalks) = Top(wWalks - 1) + WalkFiles
  BY <1>0, StampIsFresh
<1>5. VersionsAreOld' /\ LandedIsOurs'
  BY <1>0, <1>1, <1>2 DEF WalkInv, VersionsAreOld, LandedIsOurs, WalkTypes
<1>6. CASE wJournal' = wJournal /\ wPc' = "settle" /\ wFile' = wFile
  <2>1. WalkTypes' /\ JournalTypes' /\ Stages'
    BY <1>0, <1>1, <1>6 DEF WalkTypes, JournalTypes, Stages
  <2>2. JournalsAreTrue'
    BY <1>1, <1>6 DEF WalkInv, JournalsAreTrue, Tells, Spares, Vouches
  <2>3. StampsAreFresh' /\ StoodStands'
    BY <1>0, <1>1, <1>6 DEF WalkInv, StampsAreFresh, StoodStands, Over, Top
  <2> QED BY <1>5, <2>1, <2>2, <2>3 DEF WalkInv
<1>7. CASE /\ wPc' = "copy" /\ wFile' = wFile + 1 /\ wSrc[wFile] = wReceipt
           /\ wJournal' = [wJournal EXCEPT
                    !.done[wFile] = wScan[wFile], !.sources[wFile] = wReceipt, !.inFlight = 0,
                    !.targets[wFile] = IF wRemote THEN NoFile ELSE wDst[wFile],
                    !.created = IF Existed THEN @ ELSE @ \cup {wFile}]
  <2>1. /\ wJournal'.done = [wJournal.done EXCEPT ![wFile] = wScan[wFile]]
        /\ wJournal'.sources = [wJournal.sources EXCEPT ![wFile] = wReceipt]
        /\ wJournal'.inFlight = 0 /\ wJournal'.madeDir = wJournal.madeDir
        /\ wJournal'.deleting = wJournal.deleting
        /\ wJournal'.targets = [wJournal.targets EXCEPT
                                  ![wFile] = IF wRemote THEN NoFile ELSE wDst[wFile]]
        /\ wJournal'.created = IF Existed THEN wJournal.created ELSE wJournal.created \cup {wFile}
        /\ wJournal' = [done |-> wJournal'.done, targets |-> wJournal'.targets,
                        sources |-> wJournal'.sources,
                        created |-> wJournal'.created, madeDir |-> wJournal'.madeDir,
                        inFlight |-> wJournal'.inFlight, deleting |-> wJournal'.deleting]
    BY <1>0, <1>7 DEF Journals
  <2>2. /\ wJournal.done \in [Files -> Nat] /\ wJournal.targets \in [Files -> WalkObjects]
        /\ wJournal.sources \in [Files -> Nat]
        /\ wJournal.created \subseteq Files /\ wJournal.madeDir \in BOOLEAN
        /\ wJournal.deleting \in BOOLEAN
    BY <1>0 DEF Journals
  <2>3. /\ wDst[wFile] \in WalkObjects /\ wScan[wFile] \in Nat /\ wReceipt \in Nat
        /\ NoFile \in WalkObjects
    BY <1>0, EmptyJournal DEF WalkTypes
  <2>4. wJournal' \in Journals
    <3>1. /\ wJournal'.done \in [Files -> Nat] /\ wJournal'.targets \in [Files -> WalkObjects]
          /\ wJournal'.sources \in [Files -> Nat]
          /\ wJournal'.created \subseteq Files /\ wJournal'.madeDir \in BOOLEAN
          /\ wJournal'.deleting \in BOOLEAN
          /\ wJournal'.inFlight \in Nat
      BY <1>0, <2>1, <2>2, <2>3
    <3> HIDE DEF NoFile
    <3> QED BY <2>1, <3>1 DEF Journals
  <2>5. /\ wJournal'.sources[wFile] = wReceipt
        /\ (~wRemote => wJournal'.targets[wFile] = wDst[wFile])
        /\ wRemote => wJournal'.targets[wFile] = NoFile
        /\ \A f \in Files \ {wFile} : wJournal'.sources[f] = wJournal.sources[f]
             /\ wJournal'.targets[f] = wJournal.targets[f]
    BY <1>0, <2>1, <2>2
  <2>6. wFile \in wJournal'.created => wFile \in wJournal.created \/ wFile \notin wStood
    <3>1. SUFFICES ASSUME wFile \in wStood, wFile \notin wJournal.created PROVE Existed
      BY <2>1
    <3>2. wPolicy # "refuse"
      BY <1>0, <3>1 DEF WalkInv, StoodStands
    <3> QED BY <1>0, <3>1, <3>2 DEF WalkInv, StoodStands, Existed
  <2>7. \A f \in wJournal'.created : f = wFile \/ f \in wJournal.created
    BY <2>1
  <2>8. Tells(wJournal)'
    <3>1. SUFFICES ASSUME ~wRemote, NEW f \in Files
                   PROVE  \/ wJournal'.targets[f] = NoFile /\ wJournal'.sources[f] = 0
                               /\ f \notin wJournal'.created
                          \/ wJournal'.targets[f].by = "walk"
                               /\ wJournal'.targets[f].ver = wJournal'.sources[f]
      BY <1>1 DEF Tells
    <3>2. CASE f = wFile
      BY <3>1, <3>2, <2>5, <1>3, <1>7
    <3>3. CASE f # wFile
      BY <3>1, <3>3, <2>5, <2>7 DEF WalkInv, JournalsAreTrue, Tells
    <3> QED BY <3>2, <3>3
  <2>9. Spares(wJournal)'
    BY <1>1, <2>1, <2>6, <2>7 DEF WalkInv, JournalsAreTrue, Spares
  <2>10. Vouches(wJournal)'
    <3>1. SUFFICES ASSUME ~wRemote, ~wJournal.deleting, NEW f \in wJournal'.created,
                          wJournal'.targets[f] = wDst[f]
                   PROVE  wSrc[f] # 0
      BY <1>1, <2>1 DEF Vouches
    <3>2. CASE f = wFile
      BY <3>2, <1>0, <1>7
    <3>3. CASE f # wFile
      BY <3>1, <3>3, <2>2, <2>5, <2>7 DEF WalkInv, JournalsAreTrue, Vouches
    <3> QED BY <3>2, <3>3
  <2>11. JournalsAreTrue'
    BY <1>1, <2>8, <2>9, <2>10, KeptStaysTrue DEF JournalsAreTrue
  <2>12. StampsAreFresh'
    <3>1. SUFFICES ASSUME ~wRemote, NEW f \in Files
                   PROVE  /\ wJournal'.targets[f].n <= Top(wWalks)
                          /\ \A j \in Journals : wKept = <<j>> =>
                                /\ j.targets[f].n <= Top(wWalks - 1)
                                /\ wJournal'.targets[f] = NoFile
                                     \/ wJournal'.targets[f].n > Top(wWalks - 1)
      BY <1>1, <1>7 DEF StampsAreFresh, Over, Top
    <3>2. /\ wJournal.targets[f].n <= Top(wWalks)
          /\ \A j \in Journals : wKept = <<j>> =>
                /\ j.targets[f].n <= Top(wWalks - 1)
                /\ wJournal.targets[f] = NoFile \/ wJournal.targets[f].n > Top(wWalks - 1)
      BY <1>0, <3>1 DEF WalkInv, StampsAreFresh, Over
    <3>3. CASE f = wFile
      <4>1. wJournal'.targets[f].n = Top(wWalks - 1) + f
        BY <3>1, <3>3, <2>5, <1>3
      <4>2. f \in 1 .. WalkFiles
        BY DEF Files
      <4> QED BY <1>0, <1>4, <3>2, <4>1, <4>2
    <3>4. CASE f # wFile
      BY <3>2, <3>4, <2>5
    <3> QED BY <3>3, <3>4
  <2>13. WalkTypes' /\ JournalTypes' /\ Stages'
    BY <1>0, <1>1, <1>7, <2>4 DEF WalkTypes, JournalTypes, Stages
  <2>14. StoodStands'
    BY <1>0, <1>1, <1>7 DEF WalkInv, StoodStands
  <2> QED BY <1>5, <2>11, <2>12, <2>13, <2>14 DEF WalkInv
<1> QED BY <1>2, <1>6, <1>7

\* What may happen to a name at the target in one step.
Harmless ==
    \A f \in Files : wDst'[f] # wDst[f] => wDst'[f] = NoFile /\ wDst[f].by = "walk"
         /\ wSrc[f] # 0 /\ f \notin wStood

\* Taking back removes copies of the walk that have their originals.
LEMMA TakesBack ==
  ASSUME WalkInv, NEW j \in Journals, Tells(j), Spares(j), Vouches(j), TakeBack(j)
  PROVE  /\ UNCHANGED <<wSrc, wRemoved>> /\ wDst' \in [Files -> WalkObjects] /\ wDir' \in BOOLEAN
         /\ Harmless /\ (wStood # {} => wDir')
<1>0. WalkTypes /\ StoodStands
  BY DEF WalkInv
<1>1. ASSUME NEW f \in TakenBack(j)
      PROVE  f \in Files /\ wDst[f].by = "walk" /\ wSrc[f] # 0 /\ f \notin wStood
  <2>1. ~wRemote /\ ~j.deleting /\ f \in j.created /\ wDst[f] = j.targets[f] /\ f \in Files
    BY DEF TakenBack, Journals
  <2> QED BY <2>1 DEF Tells, Spares, Vouches
<1> DEFINE rest == [f \in Files |-> IF f \in TakenBack(j) THEN NoFile ELSE wDst[f]]
<1>2. /\ wDst' = rest
      /\ wDir' = IF j.madeDir /\ ~j.deleting /\ ~wRemote /\ \A f \in Files : rest[f] = NoFile
                 THEN FALSE ELSE wDir
      /\ UNCHANGED <<wSrc, wRemoved>>
  BY DEF TakeBack
<1>3. Harmless
  BY <1>1, <1>2 DEF Harmless
<1>4. wDst' \in [Files -> WalkObjects]
  BY <1>0, <1>2, EmptyJournal DEF WalkTypes
<1>5. ASSUME wStood # {} PROVE wDir'
  <2>1. PICK f \in wStood : TRUE
    BY <1>5
  <2>2. f \in Files /\ f \notin TakenBack(j) /\ wDst[f] # NoFile /\ wDir
    BY <1>0, <1>1 DEF WalkTypes, StoodStands
  <2>3. rest[f] # NoFile
    BY <2>2
  <2> HIDE DEF rest
  <2> QED BY <1>2, <2>2, <2>3
<1>6. wDir' \in BOOLEAN
  <2> HIDE DEF rest
  <2> QED BY <1>0, <1>2 DEF WalkTypes
<1> QED BY <1>2, <1>3, <1>4, <1>5, <1>6

\* The stamps of a pause add nothing to a journal but for a server.
LEMMA StampsTell ==
  ASSUME WalkTypes, NEW j \in Journals, Tells(j), Spares(j), Vouches(j)
  PROVE  /\ Stamps(j) \in Journals /\ Tells(Stamps(j)) /\ Spares(Stamps(j)) /\ Vouches(Stamps(j))
         /\ ~wRemote => Stamps(j) = j
<1>1. CASE ~wRemote
  BY <1>1 DEF Stamps
<1>2. CASE wRemote
  <2> DEFINE t == [f \in Files |-> IF j.done[f] # 0 /\ j.targets[f] = NoFile THEN wDst[f]
                                   ELSE j.targets[f]]
  <2>1. Stamps(j) = [j EXCEPT !.targets = t]
    BY <1>2 DEF Stamps
  <2>2. t \in [Files -> WalkObjects]
    BY DEF Journals, WalkTypes
  <2> HIDE DEF t
  <2>3. Stamps(j) \in Journals /\ Stamps(j).created = j.created /\ Stamps(j).madeDir = j.madeDir
    BY <2>1, <2>2 DEF Journals
  <2> QED BY <1>2, <2>3 DEF Tells, Spares, Vouches
<1> QED BY <1>1, <1>2

\* An attempt is over, and its journal kept, taken back or dropped.
LEMMA AttemptOver ==
  ASSUME WalkInv, wPc' = "idle", wJournal' = NoJournal, wFile' \in Nat,
         wReceipt' \in {0, wReceipt},
         UNCHANGED <<wMoving, wPolicy, wRemote, wStood, wSrc, wRemoved, wOutside>>,
         wScan' \in [Files -> Nat], wExisting' \subseteq Files,
         wWalks' \in {wWalks, wWalks + 1},
         wDst' \in [Files -> WalkObjects], wDir' \in BOOLEAN, wStood # {} => wDir',
         Harmless,
         \/ wKept' = <<>>
         \/ wDst' = wDst /\ \E j \in Journals :
               /\ wKept' = <<j>> /\ Tells(j) /\ Spares(j) /\ Vouches(j)
               /\ ~wRemote => \A f \in Files : j.targets[f].n <= Top(wWalks)'
  PROVE  WalkInv'
<1>0. WalkTypes /\ WalkFiles \in Nat
  BY WalkAssumption DEF WalkInv
<1>1. WalkTypes' /\ Stages' /\ VersionsAreOld' /\ LandedIsOurs'
  BY <1>0 DEF WalkInv, WalkTypes, Stages, VersionsAreOld, LandedIsOurs
<1>2. JournalTypes'
  BY EmptyJournal DEF JournalTypes
<1>3. JournalsAreTrue'
  <2>1. Tells(wJournal)' /\ Spares(wJournal)' /\ Vouches(wJournal)'
    BY EmptyJournal DEF Tells, Spares, Vouches, NoJournal
  <2>2. ASSUME NEW j \in Journals, wKept' = <<j>> PROVE Tells(j)' /\ Spares(j)' /\ Vouches(j)'
    <3>1. wDst' = wDst /\ Tells(j) /\ Spares(j) /\ Vouches(j)
      BY <2>2
    <3> QED BY <3>1 DEF Tells, Spares, Vouches
  <2> QED BY <2>1, <2>2 DEF JournalsAreTrue
<1>4. StampsAreFresh'
  <2>0. wWalks \in Nat /\ wWalks' \in Nat
    BY <1>0 DEF WalkTypes
  <2>1. /\ Top(wWalks)' \in Nat
        /\ \A f \in Files : NoJournal.targets[f].n = 0
    <3>1. Top(wWalks') \in Nat
      BY <2>0, TopGrows
    <3>2. Top(wWalks)' = Top(wWalks')
      BY DEF Top
    <3>3. \A f \in Files : NoJournal.targets[f].n = 0
      BY EmptyJournal DEF NoFile
    <3> QED BY <3>1, <3>2, <3>3
  <2>2. \A j \in Journals : wKept' = <<j>> /\ ~wRemote
             => \A f \in Files : j.targets[f].n <= Top(wWalks)'
    <3>1. ASSUME NEW j \in Journals, NEW i, wKept' = <<j>>, wKept' = <<i>> PROVE i = j
      BY <3>1
    <3> QED BY <3>1
  <2> QED BY <2>1, <2>2 DEF StampsAreFresh, Over, Top
<1>5. StoodStands'
  BY <1>0 DEF WalkInv, StoodStands, Harmless, WalkTypes
<1> QED BY <1>1, <1>2, <1>3, <1>4, <1>5 DEF WalkInv

\* What wind_down and discard do with a journal j that is true.
LEMMA Winding ==
  ASSUME WalkInv, NEW j \in Journals, Tells(j), Spares(j), Vouches(j),
         NEW top \in Nat, ~wRemote => \A f \in Files : j.targets[f].n <= top,
         (\E pause \in BOOLEAN : WindDown(j, pause)) \/ (TakeBack(j) /\ wKept' = <<>>)
  PROVE  /\ UNCHANGED <<wSrc, wRemoved>>
         /\ wDst' \in [Files -> WalkObjects] /\ wDir' \in BOOLEAN
         /\ (wStood # {} => wDir') /\ Harmless
         /\ \/ wKept' = <<>>
            \/ wDst' = wDst /\ \E i \in Journals :
                  /\ wKept' = <<i>> /\ Tells(i) /\ Spares(i) /\ Vouches(i)
                  /\ ~wRemote => \A f \in Files : i.targets[f].n <= top
<1>0. WalkTypes /\ StoodStands
  BY DEF WalkInv
<1>1. CASE TakeBack(j) /\ wKept' = <<>>
  BY <1>1, TakesBack
<1>2. CASE KeepJournal(Stamps(j)) /\ UNCHANGED disk
  <2>1. UNCHANGED <<wSrc, wDst, wDir, wRemoved>> /\ (wKept' = <<>> \/ wKept' = <<Stamps(j)>>)
    BY <1>2 DEF disk, KeepJournal
  <2>2. /\ Stamps(j) \in Journals /\ Tells(Stamps(j)) /\ Spares(Stamps(j)) /\ Vouches(Stamps(j))
        /\ ~wRemote => \A f \in Files : Stamps(j).targets[f].n <= top
    BY <1>0, StampsTell
  <2>3. /\ wDst' \in [Files -> WalkObjects] /\ wDir' \in BOOLEAN
        /\ (wStood # {} => wDir') /\ Harmless
    BY <1>0, <2>1 DEF WalkTypes, StoodStands, Harmless
  <2> QED BY <2>1, <2>2, <2>3
<1> QED BY <1>1, <1>2 DEF WindDown

\* A kept journal is one of those that are true.
LEMMA KeptIsTrue ==
  ASSUME WalkInv, wKept # <<>>
  PROVE  /\ Head(wKept) \in Journals /\ wKept = <<Head(wKept)>>
         /\ Tells(Head(wKept)) /\ Spares(Head(wKept)) /\ Vouches(Head(wKept))
         /\ wPc = "idle" /\ ~wRemote => \A f \in Files : Head(wKept).targets[f].n <= Top(wWalks)
<1>1. PICK j \in Journals : wKept = <<j>>
  BY DEF WalkInv, JournalTypes
<1>2. Head(wKept) = j
  BY <1>1
<1> QED BY <1>1, <1>2 DEF WalkInv, JournalsAreTrue, StampsAreFresh, Over

\* The end of an attempt, and the stop of a paused row.
LEMMA EndSteps ==
  ASSUME WalkInv, SettleWalk \/ DiscardWalk
  PROVE  WalkInv' /\ Harmless /\ UNCHANGED <<wSrc, wRemoved>>
<1>0. WalkTypes /\ JournalTypes /\ Stages
  BY DEF WalkInv
<1>1. Top(wWalks) \in Nat /\ Top(wWalks)' = Top(wWalks)
  BY <1>0, TopGrows DEF SettleWalk, DiscardWalk, counts, WalkTypes, Top
<1>2. /\ wPc' = "idle" /\ wJournal' = NoJournal /\ wFile' \in Nat /\ wReceipt' \in {0, wReceipt}
      /\ UNCHANGED <<wMoving, wPolicy, wRemote, wStood, wWalks, wOutside>>
      /\ wScan' \in [Files -> Nat] /\ wExisting' \subseteq Files
  <2>1. CASE SettleWalk
    BY <2>1 DEF SettleWalk, Forgotten, intent, counts
  <2>2. CASE DiscardWalk
    BY <2>2, <1>0 DEF DiscardWalk, intent, counts, plan, WalkTypes, Stages
  <2> QED BY <2>1, <2>2
<1>3. /\ UNCHANGED <<wSrc, wRemoved>>
      /\ wDst' \in [Files -> WalkObjects] /\ wDir' \in BOOLEAN
      /\ (wStood # {} => wDir') /\ Harmless
      /\ \/ wKept' = <<>>
         \/ wDst' = wDst /\ \E i \in Journals :
               /\ wKept' = <<i>> /\ Tells(i) /\ Spares(i) /\ Vouches(i)
               /\ ~wRemote => \A f \in Files : i.targets[f].n <= Top(wWalks)
  <2>1. CASE SettleWalk /\ wErrors /\ wToken
    <3>1. WindDown(wJournal, wPause)
      BY <2>1 DEF SettleWalk
    <3>2. ASSUME wPause PROVE \E pause \in BOOLEAN : WindDown(wJournal, pause)
      <4>1. WindDown(wJournal, TRUE)
        BY <3>1, <3>2 DEF WindDown
      <4> QED BY <4>1
    <3>3. ASSUME ~wPause PROVE \E pause \in BOOLEAN : WindDown(wJournal, pause)
      <4>1. WindDown(wJournal, FALSE)
        BY <3>1, <3>3 DEF WindDown
      <4> QED BY <4>1
    <3>4. \E pause \in BOOLEAN : WindDown(wJournal, pause)
      BY <3>2, <3>3
    <3>5. /\ wJournal \in Journals /\ Tells(wJournal) /\ Spares(wJournal) /\ Vouches(wJournal)
          /\ ~wRemote => \A f \in Files : wJournal.targets[f].n <= Top(wWalks)
      BY DEF WalkInv, JournalTypes, JournalsAreTrue, StampsAreFresh
    <3> QED BY <1>1, <3>4, <3>5, Winding
  <2>2. CASE SettleWalk /\ ~(wErrors /\ wToken)
    <3>1. UNCHANGED <<wSrc, wDst, wDir, wRemoved, wKept>>
      BY <2>2 DEF SettleWalk, disk
    <3>2. /\ Harmless /\ wDst' \in [Files -> WalkObjects] /\ wDir' \in BOOLEAN
          /\ (wStood # {} => wDir')
      BY <1>0, <3>1 DEF WalkInv, StoodStands, WalkTypes, Harmless
    <3>3. ASSUME NEW j \in Journals, wKept = <<j>>
          PROVE  /\ Tells(j) /\ Spares(j) /\ Vouches(j)
                 /\ ~wRemote => \A f \in Files : j.targets[f].n <= Top(wWalks)
      <4>1. wPc # "idle" /\ wWalks > 0
        BY <1>0, <2>2 DEF SettleWalk, Stages
      <4>2. Top(wWalks - 1) \in Nat /\ Top(wWalks) = Top(wWalks - 1) + WalkFiles
        BY <1>0, <4>1, StampIsFresh
      <4>3. ~wRemote => \A f \in Files : j.targets[f].n <= Top(wWalks - 1)
        BY <3>3, <4>1 DEF WalkInv, StampsAreFresh, Over
      <4>4. \A f \in Files : j.targets[f].n \in Nat
        BY DEF Journals, WalkObjects
      <4> QED BY <3>3, <4>2, <4>3, <4>4, WalkAssumption DEF WalkInv, JournalsAreTrue
    <3> QED BY <1>0, <3>1, <3>2, <3>3 DEF JournalTypes
  <2>3. CASE DiscardWalk
    <3>1. wPc = "idle" /\ wKept # <<>> /\ wKept' = <<>> /\ TakeBack(Head(wKept))
      BY <2>3 DEF DiscardWalk
    <3>2. /\ Head(wKept) \in Journals /\ Tells(Head(wKept)) /\ Spares(Head(wKept))
          /\ Vouches(Head(wKept))
          /\ ~wRemote => \A f \in Files : Head(wKept).targets[f].n <= Top(wWalks)
      BY <3>1, KeptIsTrue
    <3> QED BY <1>1, <3>1, <3>2, Winding
  <2> QED BY <2>1, <2>2, <2>3
<1> QED BY <1>1, <1>2, <1>3, AttemptOver

\* An attempt begins, with the journal it resumes, or is over before it began.
LEMMA StartStep ==
  ASSUME WalkInv, NEW resume \in BOOLEAN, StartWalk(resume)
  PROVE  WalkInv' /\ Harmless /\ UNCHANGED <<wSrc, wRemoved>>
<1>0. WalkTypes /\ JournalTypes /\ Stages /\ wPc = "idle" /\ WalkFiles \in Nat
  BY WalkAssumption DEF WalkInv, StartWalk
<1>1. /\ Top(wWalks) \in Nat /\ Top(wWalks)' = Top(wWalks) + WalkFiles
      /\ wWalks' = wWalks + 1 /\ wWalks \in Nat
  BY <1>0, TopGrows DEF StartWalk, WalkTypes, Top
<1>2. /\ wFile' = 0 /\ wReceipt' = wReceipt /\ wScan' = wScan /\ wExisting' = wExisting
      /\ UNCHANGED <<wMoving, wPolicy, wRemote, wStood, wOutside>>
  BY DEF StartWalk, intent, plan
<1>3. CASE wEarly # <<>> /\ resume /\ wKept # <<>>
  <2>1. WindDown(Head(wKept), Head(wEarly) = "pause") /\ wPc' = "idle" /\ wJournal' = NoJournal
    BY <1>3 DEF StartWalk
  <2>2. \E pause \in BOOLEAN : WindDown(Head(wKept), pause)
    BY <2>1
  <2>3. /\ Head(wKept) \in Journals /\ Tells(Head(wKept)) /\ Spares(Head(wKept))
        /\ Vouches(Head(wKept))
        /\ ~wRemote => \A f \in Files : Head(wKept).targets[f].n <= Top(wWalks)
    BY <1>0, <1>3, KeptIsTrue
  <2>4. /\ UNCHANGED <<wSrc, wRemoved>>
        /\ wDst' \in [Files -> WalkObjects] /\ wDir' \in BOOLEAN
        /\ (wStood # {} => wDir') /\ Harmless
        /\ \/ wKept' = <<>>
           \/ wDst' = wDst /\ \E i \in Journals :
                 /\ wKept' = <<i>> /\ Tells(i) /\ Spares(i) /\ Vouches(i)
                 /\ ~wRemote => \A f \in Files : i.targets[f].n <= Top(wWalks)
    BY <1>1, <2>2, <2>3, Winding
  <2>5. \A i \in Journals : \A f \in Files : i.targets[f].n \in Nat
    BY DEF Journals, WalkObjects
  <2>6. \A i \in Journals : (~wRemote => \A f \in Files : i.targets[f].n <= Top(wWalks))
                           => (~wRemote => \A f \in Files : i.targets[f].n <= Top(wWalks)')
    BY <1>0, <1>1, <2>5
  <2>7. /\ wScan' \in [Files -> Nat] /\ wExisting' \subseteq Files
        /\ wWalks' \in {wWalks, wWalks + 1}
        /\ wFile' \in Nat /\ wReceipt' \in {0, wReceipt}
    BY <1>0, <1>1, <1>2 DEF WalkTypes
  <2> QED BY <1>2, <2>1, <2>4, <2>6, <2>7, AttemptOver
<1>4. CASE ~(wEarly # <<>> /\ resume /\ wKept # <<>>)
  <2>1. UNCHANGED <<wSrc, wDst, wDir, wRemoved>>
    BY <1>4 DEF StartWalk, disk
  <2>2. wKept' = wKept \/ wKept' = <<>>
    BY <1>4 DEF StartWalk, TakeJournal
  <2>3. Harmless
    BY <2>1 DEF Harmless
  <2>4. ASSUME NEW j \in Journals, wKept' = <<j>>
        PROVE  /\ Tells(j) /\ Spares(j) /\ Vouches(j)
               /\ ~wRemote => \A f \in Files : j.targets[f].n <= Top(wWalks)
    <3>1. wKept = <<j>>
      BY <2>2, <2>4
    <3> QED BY <1>0, <3>1 DEF WalkInv, JournalsAreTrue, StampsAreFresh, Over
  <2>5. \A j \in Journals : \A f \in Files : j.targets[f].n \in Nat
    BY DEF Journals, WalkObjects
  <2>6. CASE wPc' = "idle"
    <3>1. wJournal' = NoJournal
      BY <1>0, <1>4, <2>6 DEF StartWalk
    <3>2. \/ wKept' = <<>>
          \/ wDst' = wDst /\ \E j \in Journals :
               /\ wKept' = <<j>> /\ Tells(j) /\ Spares(j) /\ Vouches(j)
               /\ ~wRemote => \A f \in Files : j.targets[f].n <= Top(wWalks)'
      <4>1. CASE wKept' = <<>>
        BY <4>1
      <4>2. CASE wKept' # <<>>
        <5>1. PICK j \in Journals : wKept' = <<j>>
          BY <1>0, <2>2, <4>2 DEF JournalTypes
        <5>2. /\ Tells(j) /\ Spares(j) /\ Vouches(j)
              /\ ~wRemote => \A f \in Files : j.targets[f].n <= Top(wWalks)
          BY <2>4, <5>1
        <5>3. ~wRemote => \A f \in Files : j.targets[f].n <= Top(wWalks)'
          BY <1>0, <1>1, <2>5, <5>2
        <5> QED BY <2>1, <5>1, <5>2, <5>3
      <4> QED BY <4>1, <4>2
    <3>3. /\ wScan' \in [Files -> Nat] /\ wExisting' \subseteq Files
          /\ wWalks' \in {wWalks, wWalks + 1}
          /\ wFile' \in Nat /\ wReceipt' \in {0, wReceipt}
          /\ wDst' \in [Files -> WalkObjects] /\ wDir' \in BOOLEAN /\ (wStood # {} => wDir')
      BY <1>0, <1>1, <1>2, <2>1 DEF WalkInv, StoodStands, WalkTypes
    <3> QED BY <1>2, <2>1, <2>3, <2>6, <3>1, <3>2, <3>3, AttemptOver
  <2>7. CASE wPc' # "idle"
    <3>1. /\ wPc' = "scan"
          /\ \/ wJournal' = NoJournal /\ wKept' = wKept
             \/ wJournal' = Head(wKept) /\ wKept # <<>> /\ wKept' = <<>>
      BY <1>0, <1>4, <2>7 DEF StartWalk, TakeJournal
    <3>2. /\ wJournal' \in Journals /\ Tells(wJournal') /\ Spares(wJournal') /\ Vouches(wJournal')
          /\ ~wRemote => \A f \in Files : wJournal'.targets[f].n <= Top(wWalks)
      <4>1. CASE wJournal' = NoJournal
        <5>1. \A f \in Files : NoJournal.targets[f].n = 0
          BY EmptyJournal DEF NoFile
        <5> QED BY <1>1, <4>1, <5>1, EmptyJournal
      <4>2. CASE wJournal' = Head(wKept) /\ wKept # <<>>
        BY <1>0, <4>2, KeptIsTrue
      <4> QED BY <3>1, <4>1, <4>2
    <3>3. WalkTypes' /\ JournalTypes'
      BY <1>0, <1>1, <1>2, <2>1, <2>2, <3>1, <3>2 DEF WalkTypes, JournalTypes
    <3>4. Stages' /\ VersionsAreOld' /\ LandedIsOurs'
      BY <1>0, <1>1, <1>2, <2>1, <3>1 DEF WalkInv, Stages, VersionsAreOld, LandedIsOurs
    <3>5. JournalsAreTrue'
      <4>1. Tells(wJournal)' /\ Spares(wJournal)' /\ Vouches(wJournal)'
        BY <1>2, <2>1, <3>2 DEF Tells, Spares, Vouches
      <4>2. ASSUME NEW j \in Journals, wKept' = <<j>> PROVE Tells(j)' /\ Spares(j)' /\ Vouches(j)'
        <5>1. Tells(j) /\ Spares(j) /\ Vouches(j)
          BY <2>4, <4>2
        <5> QED BY <1>2, <2>1, <5>1 DEF Tells, Spares, Vouches
      <4> QED BY <4>1, <4>2 DEF JournalsAreTrue
    <3>6. StampsAreFresh'
      <4>1. SUFFICES ASSUME ~wRemote, NEW f \in Files
                     PROVE  /\ wJournal'.targets[f].n <= Top(wWalks)'
                            /\ \A j \in Journals : wKept' = <<j>> =>
                                  /\ j.targets[f].n <= Over'
                                  /\ wJournal'.targets[f] = NoFile
                                       \/ wJournal'.targets[f].n > Over'
        BY <1>2 DEF StampsAreFresh
      <4>2. Over' = Top(wWalks)
        BY <1>1, <3>1 DEF Over, Top
      <4>3. wJournal'.targets[f].n <= Top(wWalks)'
        BY <1>0, <1>1, <2>5, <3>2, <4>1
      <4>4. ASSUME NEW j \in Journals, wKept' = <<j>>
            PROVE  j.targets[f].n <= Over' /\ wJournal'.targets[f] = NoFile
        <5>1. wJournal' = NoJournal
          BY <3>1, <4>4
        <5>2. wJournal'.targets[f] = NoFile
          BY <5>1, EmptyJournal
        <5> QED BY <2>4, <4>1, <4>2, <4>4, <5>2
      <4> QED BY <4>3, <4>4
    <3>7. StoodStands'
      BY <1>2, <2>1, <3>1 DEF WalkInv, StoodStands
    <3> QED BY <2>1, <2>3, <3>3, <3>4, <3>5, <3>6, <3>7 DEF WalkInv
  <2> QED BY <2>1, <2>3, <2>6, <2>7
<1> QED BY <1>3, <1>4

\* Another program writes at the target.
LEMMA OutsideWriteStep ==
  ASSUME WalkInv, NEW f \in Files, OutsideWrite(f)
  PROVE  /\ WalkInv' /\ UNCHANGED <<wSrc, wRemoved>>
         /\ \A g \in Files : wDst'[g] # wDst[g] => wDst'[g].by = "other"
<1>0. WalkTypes /\ JournalTypes /\ Stages /\ WalkFiles \in Nat /\ MaxWalks \in Nat
  BY WalkAssumption DEF WalkInv
<1> DEFINE new == [by |-> "other", ver |-> 0, n |-> MaxWalks * WalkFiles + wOutside']
<1>1. /\ UNCHANGED <<wMoving, wPolicy, wRemote, wStood, wSrc, wRemoved, wPc, wFile, wScan,
                     wExisting,
                     wReceipt, wJournal, wKept, wWalks>>
      /\ wDir /\ wDir' = wDir /\ wOutside' = wOutside + 1
      /\ ~(wPc \in {"send", "landed"} /\ wFile = f)
      /\ wDst' = [wDst EXCEPT ![f] = new]
  BY DEF OutsideWrite, intent, plan
<1>2. new \in WalkObjects /\ new.by = "other" /\ new # NoFile
  <2>1. MaxWalks * WalkFiles \in Nat /\ wOutside' \in Nat
    BY <1>0, <1>1 DEF WalkTypes
  <2>2. new.by # NoFile.by
    BY DEF NoFile
  <2> QED BY <2>1, <2>2 DEF WalkObjects
<1> HIDE DEF new
<1>3. /\ wDst' \in [Files -> WalkObjects] /\ wDst'[f] = new
      /\ \A g \in Files : g # f => wDst'[g] = wDst[g]
  BY <1>0, <1>1, <1>2 DEF WalkTypes
<1>4. WalkTypes' /\ JournalTypes' /\ Stages'
  BY <1>0, <1>1, <1>3 DEF WalkTypes, JournalTypes, Stages
<1>5. VersionsAreOld' /\ LandedIsOurs'
  BY <1>0, <1>1, <1>3 DEF WalkInv, VersionsAreOld, LandedIsOurs, WalkTypes, Stages, Top
<1>6. ASSUME NEW j \in Journals, Tells(j), Spares(j), Vouches(j)
      PROVE  Tells(j)' /\ Spares(j)' /\ Vouches(j)'
  <2>1. Tells(j)' /\ Spares(j)'
    BY <1>1, <1>6 DEF Tells, Spares
  <2>2. ASSUME ~wRemote, ~j.deleting, NEW g \in j.created, j.targets[g] = wDst'[g]
        PROVE wSrc[g] # 0
    <3>1. g \in Files /\ j.targets[g].by = "walk"
      BY <1>6, <2>2 DEF Journals, Tells
    <3>2. g # f
      BY <1>2, <1>3, <2>2, <3>1
    <3> QED BY <1>3, <1>6, <2>2, <3>1, <3>2 DEF Vouches
  <2>3. Vouches(j)'
    BY <1>1, <2>2 DEF Vouches
  <2> QED BY <2>1, <2>3
<1>7. JournalsAreTrue'
  <2>1. Tells(wJournal)' /\ Spares(wJournal)' /\ Vouches(wJournal)'
    <3>1. PICK j \in Journals : j = wJournal
      BY <1>0 DEF JournalTypes
    <3>2. Tells(j)' /\ Spares(j)' /\ Vouches(j)'
      BY <1>6, <3>1 DEF WalkInv, JournalsAreTrue
    <3> QED BY <1>1, <3>1, <3>2 DEF Tells, Spares, Vouches
  <2>2. ASSUME NEW j \in Journals, wKept' = <<j>> PROVE Tells(j)' /\ Spares(j)' /\ Vouches(j)'
    BY <1>1, <1>6, <2>2 DEF WalkInv, JournalsAreTrue
  <2> QED BY <2>1, <2>2 DEF JournalsAreTrue
<1>8. StampsAreFresh'
  BY <1>1 DEF WalkInv, StampsAreFresh, Over, Top
<1>9. StoodStands'
  BY <1>0, <1>1, <1>2, <1>3 DEF WalkInv, StoodStands, WalkTypes
<1> QED BY <1>1, <1>2, <1>3, <1>4, <1>5, <1>7, <1>8, <1>9 DEF WalkInv

\* Another program edits a source file: a version nobody has read yet.
LEMMA EditSourceStep ==
  ASSUME WalkInv, NEW f \in Files, EditSource(f)
  PROVE  /\ WalkInv' /\ UNCHANGED <<wDst, wRemoved>>
         /\ \A g \in Files : wSrc'[g] = 0 => wSrc[g] = 0
<1>0. WalkTypes /\ JournalTypes /\ Stages
  BY DEF WalkInv
<1>1. /\ UNCHANGED <<wMoving, wPolicy, wRemote, wStood, wDst, wDir, wRemoved, wPc, wFile, wScan,
                     wExisting,
                     wReceipt, wJournal, wKept, wWalks>>
      /\ wOutside' = wOutside + 1 /\ wSrc' = [wSrc EXCEPT ![f] = wOutside' + 1]
  BY DEF EditSource, intent, plan
<1>2. /\ wSrc' \in [Files -> Nat] /\ wSrc'[f] = wOutside + 2 /\ wOutside' = wOutside + 1
      /\ wOutside \in Nat
      /\ \A g \in Files : g # f => wSrc'[g] = wSrc[g]
      /\ \A g \in Files : wSrc'[g] = 0 => wSrc[g] = 0
  BY <1>0, <1>1 DEF WalkTypes
<1>3. WalkTypes' /\ JournalTypes' /\ Stages'
  BY <1>0, <1>1, <1>2 DEF WalkTypes, JournalTypes, Stages
<1>4. VersionsAreOld'
  BY <1>0, <1>1, <1>2 DEF WalkInv, VersionsAreOld, WalkTypes
<1>5. LandedIsOurs'
  <2>1. wPc = "landed" /\ wSrc'[wFile] = wReceipt => wSrc[wFile] = wReceipt
    BY <1>0, <1>2 DEF WalkInv, VersionsAreOld, Stages, WalkTypes
  <2> QED BY <1>1, <2>1 DEF WalkInv, LandedIsOurs, Top
<1>6. JournalsAreTrue'
  <2>1. Tells(wJournal)' /\ Spares(wJournal)' /\ Vouches(wJournal)'
    <3>1. wJournal.created \subseteq Files
      BY <1>0 DEF JournalTypes, Journals
    <3> QED BY <1>1, <1>2, <3>1 DEF WalkInv, JournalsAreTrue, Tells, Spares, Vouches
  <2>2. ASSUME NEW j \in Journals, wKept' = <<j>> PROVE Tells(j)' /\ Spares(j)' /\ Vouches(j)'
    <3>1. j.created \subseteq Files
      BY DEF Journals
    <3> QED BY <1>1, <1>2, <2>2, <3>1 DEF WalkInv, JournalsAreTrue, Tells, Spares, Vouches
  <2> QED BY <2>1, <2>2 DEF JournalsAreTrue
<1>7. StampsAreFresh' /\ StoodStands'
  BY <1>1 DEF WalkInv, StampsAreFresh, StoodStands, Over, Top
<1> QED BY <1>1, <1>2, <1>3, <1>4, <1>5, <1>6, <1>7 DEF WalkInv

\* An original goes: the target holds the recorded copy of what it is.
LEMMA RemoveStep ==
  ASSUME WalkInv, RemoveSourceFile
  PROVE  /\ WalkInv' /\ wDst' = wDst
         /\ \A f \in Files : wSrc'[f] = 0 /\ wSrc[f] # 0 =>
               wDst[f].by = "walk" /\ wDst[f].ver = wSrc[f]
<1>0. /\ WalkTypes /\ JournalTypes /\ Stages /\ wPc = "remove" /\ WalkFiles \in Nat /\ ~wRemote
      /\ wJournal.deleting /\ wFile <= WalkFiles
  BY WalkAssumption DEF WalkInv, RemoveSourceFile, Stages
<1>1. UNCHANGED <<wMoving, wPolicy, wRemote, wStood, wDst, wDir, wScan, wExisting, wReceipt,
                  wJournal, wKept,
                  wWalks, wOutside>>
  BY DEF RemoveSourceFile, intent, plan, counts
<1>2. \/ UNCHANGED <<wSrc, wRemoved>>
      \/ /\ wFile # 0 /\ wDst[wFile] = wJournal.targets[wFile]
         /\ wSrc[wFile] = wJournal.sources[wFile]
         /\ wSrc' = [wSrc EXCEPT ![wFile] = 0]
         /\ wRemoved' = [wRemoved EXCEPT ![wFile] = wSrc[wFile]]
  BY DEF RemoveSourceFile, StillRecorded, RemoveLocal
<1>3. /\ wPc' \in {"remove", "settle"} /\ wFile' \in {wFile, wFile - 1}
      /\ (wFile' = wFile - 1 => wFile # 0)
  <2>1. wFile \in Nat /\ wFile # wFile - 1
    BY <1>0 DEF WalkTypes
  <2>2. CASE wFile = 0
    BY <2>1, <2>2, <1>0 DEF RemoveSourceFile
  <2>3. CASE wFile # 0
    BY <2>1, <2>3, <1>0 DEF RemoveSourceFile, Fail
  <2> QED BY <2>2, <2>3
<1>4. wFile' \in Nat /\ wFile' <= WalkFiles /\ (wFile # 0 => wFile \in Files)
  BY <1>0, <1>3 DEF WalkTypes, Files
<1>5. WalkTypes' /\ JournalTypes' /\ Stages'
  BY <1>0, <1>1, <1>2, <1>3, <1>4 DEF WalkTypes, JournalTypes, Stages
<1>6. VersionsAreOld' /\ LandedIsOurs'
  BY <1>0, <1>1, <1>2, <1>3, <1>4 DEF WalkInv, VersionsAreOld, LandedIsOurs, WalkTypes
<1>7. \A f \in Files : wSrc'[f] = 0 /\ wSrc[f] # 0 =>
        /\ f = wFile /\ wDst[f] = wJournal.targets[f] /\ wSrc[f] = wJournal.sources[f]
        /\ wDst[f].by = "walk" /\ wDst[f].ver = wSrc[f]
  BY <1>0, <1>2 DEF WalkInv, JournalsAreTrue, Tells, WalkTypes
<1>8. JournalsAreTrue'
  <2>1. Tells(wJournal)' /\ Spares(wJournal)' /\ Vouches(wJournal)'
    BY <1>0, <1>1 DEF WalkInv, JournalsAreTrue, Tells, Spares, Vouches
  <2>2. ASSUME NEW j \in Journals, wKept' = <<j>> PROVE Tells(j)' /\ Spares(j)' /\ Vouches(j)'
    <3>1. wKept = <<j>> /\ Tells(j) /\ Spares(j) /\ Vouches(j) /\ j.created \subseteq Files
      BY <1>1, <2>2 DEF WalkInv, JournalsAreTrue, Journals
    <3>2. ASSUME ~j.deleting, NEW f \in j.created, j.targets[f] = wDst[f], wSrc'[f] = 0 PROVE FALSE
      <4>1. f \in Files /\ wSrc[f] # 0 /\ j.targets[f].by = "walk"
        BY <1>0, <3>1, <3>2 DEF Vouches, Tells
      <4>2. wJournal.targets[f] = j.targets[f]
        BY <1>7, <3>2, <4>1
      <4>3. wJournal.targets[f] # NoFile
        BY <4>1, <4>2 DEF NoFile
      <4>4. j.targets[f].n <= Over /\ wJournal.targets[f].n > Over
        BY <1>0, <3>1, <4>1, <4>3 DEF WalkInv, StampsAreFresh
      <4>5. j.targets[f].n \in Nat
        BY <4>1 DEF Journals, WalkObjects
      <4>6. Over = Top(wWalks - 1) /\ Top(wWalks - 1) \in Nat
        BY <1>0, StampIsFresh DEF Over, Stages
      <4> QED BY <4>2, <4>4, <4>5, <4>6
    <3>3. Vouches(j)'
      BY <1>1, <3>2 DEF Vouches
    <3> QED BY <1>1, <3>1, <3>3 DEF Tells, Spares
  <2> QED BY <2>1, <2>2 DEF JournalsAreTrue
<1>9. StampsAreFresh' /\ StoodStands'
  BY <1>0, <1>1, <1>3 DEF WalkInv, StampsAreFresh, StoodStands, Over, Top
<1> QED BY <1>1, <1>5, <1>6, <1>7, <1>8, <1>9 DEF WalkInv

\* What one step may do to the files.
Careful ==
    \A f \in Files :
        /\ wSrc'[f] = 0 /\ wSrc[f] # 0 => wDst[f].by = "walk" /\ wDst[f].ver = wSrc[f]
        /\ wRemoved[f] # 0 /\ wSrc[f] = 0 =>
                wDst'[f] = wDst[f] \/ wDst'[f].by = "other"
        /\ wDst'[f] # wDst[f] /\ wDst[f].by \in {"before", "other"} =>
                wDst'[f].by = "other" \/ (wPolicy = "overwrite" /\ wDst'[f].by = "walk")
        /\ wDst'[f] # wDst[f] /\ wDst'[f] = NoFile => f \notin wStood

(* Every step of the walk, of the user and of other programs keeps it and is   *)
(* careful.                                                                    *)
LEMMA WalkStep == WalkInv /\ [WalkNext]_walkVars => WalkInv' /\ Careful
<1> SUFFICES ASSUME WalkInv, [WalkNext]_walkVars PROVE WalkInv' /\ Careful
  OBVIOUS
<1>1. ASSUME UNCHANGED wSrc, Harmless PROVE Careful
  BY <1>1 DEF Harmless, Careful
<1>2. CASE \/ PassOver \/ EndOfFiles
           \/ (\E how \in {"pause", "stop"} : CancelWalk(how)) \/ CloseWalkConnection
           \/ UNCHANGED walkVars
  <2>1. UNCHANGED <<wSrc, wDst>>
    BY <1>2 DEF PassOver, EndOfFiles, CancelWalk, CloseWalkConnection, ForgetKept, disk, walkVars
  <2> QED BY <1>1, <1>2, <2>1, WalkGoesOn DEF Harmless
<1>3. CASE ScanAndMakeFolders \/ BeginFile \/ VerifySource
  <2>1. UNCHANGED <<wSrc, wDst>>
    BY <1>3 DEF ScanAndMakeFolders, BeginFile, VerifySource, disk
  <2> QED BY <1>1, <1>3, <2>1, JournalStep DEF Harmless
<1>4. CASE RecordFile
  <2>1. UNCHANGED <<wSrc, wDst>>
    BY <1>4 DEF RecordFile, disk
  <2> QED BY <1>1, <1>4, <2>1, RecordFileStep DEF Harmless
<1>5. CASE SendFile
  <2>1. "walk" # NoFile.by /\ "nothing" = NoFile.by
    BY DEF NoFile
  <2> QED BY <1>5, <2>1, SendStep DEF Careful
<1>6. CASE RemoveSourceFile
  BY <1>6, RemoveStep DEF Careful
<1>7. CASE SettleWalk \/ DiscardWalk
  BY <1>1, <1>7, EndSteps
<1>8. ASSUME NEW resume \in BOOLEAN, StartWalk(resume) PROVE WalkInv' /\ Careful
  BY <1>1, <1>8, StartStep
<1>9. ASSUME NEW f \in Files, OutsideWrite(f) PROVE WalkInv' /\ Careful
  <2>1. "other" # NoFile.by
    BY DEF NoFile
  <2> QED BY <1>9, <2>1, OutsideWriteStep DEF Careful
<1>10. ASSUME NEW f \in Files, EditSource(f) PROVE WalkInv' /\ Careful
  BY <1>10, EditSourceStep DEF Careful
<1> QED BY <1>2, <1>3, <1>4, <1>5, <1>6, <1>7, <1>8, <1>9, <1>10 DEF WalkNext

(* A move never loses a file, a stop takes nothing back that has no original,  *)
(* and a file of somebody else is replaced only where the user asked for it:   *)
(* for folders of any size, any number of attempts, pauses, stops and edits    *)
(* by others (recursive_transfer: remove_source, take_back).                   *)
THEOREM WalksLoseNobodysFile == WalkSpec => WalkLosesNobodysFile
<1>1. WalkInv /\ [WalkNext]_walkVars => [Careful]_walkVars
  BY WalkStep
<1>2. WalkSpec => [][Careful]_walkVars
  BY <1>1, WalkStarts, WalkStep, PTL DEF WalkSpec
<1> QED BY <1>2 DEF WalkLosesNobodysFile, Careful
-----------------------------------------------------------------------------
(* EditedCopies: what the user edits elsewhere *)
\* The last revision there is of c: the download, or the last save.
Newest(c) == IF latest[c] = None THEN 1 ELSE latest[c]


\* The types of the variables, in four parts.
FolderTypes ==
    /\ copyFile \in [Copies -> Revisions] /\ onServer \in [Copies -> Revisions]
    /\ latest \in [Copies -> Revisions]
    /\ rescued \in [Copies -> SUBSET Revisions] /\ discarded \in [Copies -> SUBSET Revisions]
    /\ editing \subseteq Copies /\ folders \subseteq Copies /\ left \in BOOLEAN
QuestionTypes ==
    /\ ask \in [Copies -> Revisions] /\ sending \in [Copies -> Revisions]
    /\ sent \in [Copies -> Revisions]
RegistryTypes ==
    /\ synced \in [Copies -> 0..NoCopyRecord] /\ manifest \in [Copies -> 0..NoCopyRecord]
    /\ snap \in [Copies -> 0..NoCopyRecord]
MoveTypes ==
    /\ moving \in [of : SUBSET Copies, data : Revisions, published : BOOLEAN]
    /\ todo \subseteq Copies

\* An editor is open on what was saved, and its copy is in the registry of its
\* run: no copy is registered, nor forgotten, once it was edited.
EditedIsRegistered ==
    /\ \A c \in Copies : latest[c] # None => c \in editing
    /\ \A c \in editing : left \/ synced[c] # NoCopyRecord

\* What stands in the folder is the newest there is, and nothing anywhere is
\* newer than that.
CopyIsNewest ==
    \A c \in Copies :
        /\ copyFile[c] \in {None, Newest(c)}
        /\ onServer[c] # None /\ onServer[c] <= Newest(c)
        /\ ask[c] <= Newest(c) /\ sending[c] <= Newest(c) /\ sent[c] <= Newest(c)

\* An upload sends what it was asked for or a later save, and does not take the
\* newest save away from the server.
UploadsGoForward ==
    \A c \in Copies :
        /\ sent[c] # None => sending[c] # None /\ sending[c] <= sent[c]
        /\ latest[c] # None /\ onServer[c] = latest[c] /\ sent[c] # None => sent[c] = latest[c]

\* A record of the newest save says that it is on the server.
Says(notes) ==
    \A c \in Copies :
        /\ notes[c] = NoCopyRecord \/ notes[c] <= Newest(c)
        /\ latest[c] # None /\ notes[c] = latest[c] => onServer[c] = latest[c]
RecordsAreTrue == Says(synced) /\ Says(manifest) /\ Says(snap)

\* What a move has published is in the recovery folder, unless it was discarded.
MovesAreKept ==
    \A c \in Copies : moving.published /\ c \in moving.of =>
        moving.data \in rescued[c] \cup discarded[c]

(* The inductive invariant: the last save is somewhere, and every note of it *)
(* is true.                                                                  *)
CopiesInv ==
    /\ FolderTypes /\ QuestionTypes /\ RegistryTypes /\ MoveTypes
    /\ EditedIsRegistered /\ CopyIsNewest /\ UploadsGoForward /\ RecordsAreTrue
    /\ MovesAreKept /\ SavedEditIsHeld

CopyTypesOK == FolderTypes /\ QuestionTypes /\ RegistryTypes /\ MoveTypes

\* Nothing is open, and nothing was saved.
LEMMA KindInit == CopiesInit => CopiesInv
<1> SUFFICES ASSUME CopiesInit PROVE CopiesInv
  OBVIOUS
<1>0. MaxSaves \in Nat /\ MaxSaves >= 2
  BY CopiesAssumption
<1>1. CopyTypesOK
  <2>1. FolderTypes
    <3>1. 1 \in Revisions /\ None \in Revisions /\ {} \in SUBSET Revisions
      BY <1>0 DEF Revisions, None
    <3>2. /\ NoneYet \in [Copies -> Revisions] /\ [c \in Copies |-> 1] \in [Copies -> Revisions]
          /\ [c \in Copies |-> {}] \in [Copies -> SUBSET Revisions]
      BY <3>1 DEF NoneYet
    <3> QED BY <3>2 DEF CopiesInit, FolderTypes
  <2>2. QuestionTypes
    BY <1>0 DEF CopiesInit, QuestionTypes, Revisions, None, NoneYet
  <2>3. RegistryTypes
    BY <1>0 DEF CopiesInit, RegistryTypes, Unrecorded, NoCopyRecord
  <2>4. MoveTypes
    BY <1>0 DEF CopiesInit, MoveTypes, Revisions, None, StillMove
  <2> QED BY <2>1, <2>2, <2>3, <2>4 DEF CopyTypesOK
<1>2. EditedIsRegistered /\ CopyIsNewest /\ UploadsGoForward /\ SavedEditIsHeld
  BY <1>0 DEF CopiesInit, EditedIsRegistered, CopyIsNewest, UploadsGoForward, SavedEditIsHeld,
         Newest,
        None, NoneYet
<1>3. RecordsAreTrue /\ MovesAreKept
  BY <1>0 DEF CopiesInit, RecordsAreTrue, Says, MovesAreKept, None, NoneYet, Unrecorded,
       NoCopyRecord, StillMove
<1> QED BY <1>1, <1>2, <1>3 DEF CopiesInv, CopyTypesOK

\* Steps that leave saves, files and records alone but for the question.
SavesAreCalm == UNCHANGED <<copyFile, onServer, latest, rescued, discarded, editing, left, synced,
                    manifest, sending, sent>>

LEMMA CalmStep ==
  ASSUME CopiesInv, CopyTypesOK', SavesAreCalm, snap' \in {snap, manifest, Unrecorded},
         moving' \in {moving, StillMove},
         \A c \in Copies : ask'[c] <= Newest(c)
  PROVE  CopiesInv'
<1>0. MaxSaves \in Nat /\ MaxSaves >= 2
  BY CopiesAssumption
<1>1. \A c \in Copies : Newest(c)' = Newest(c)
  BY DEF Newest, SavesAreCalm
<1>2. EditedIsRegistered' /\ CopyIsNewest' /\ UploadsGoForward' /\ SavedEditIsHeld'
  BY <1>1 DEF CopiesInv, EditedIsRegistered, CopyIsNewest, UploadsGoForward, SavedEditIsHeld,
         SavesAreCalm
<1>3. Says(Unrecorded)
  BY <1>0 DEF Says, Unrecorded, NoCopyRecord, CopiesInv, FolderTypes, Revisions
<1>4. Says(snap') /\ Says(synced) /\ Says(manifest)
  BY <1>3 DEF CopiesInv, RecordsAreTrue
<1>5. RecordsAreTrue'
  BY <1>4, <1>1 DEF RecordsAreTrue, Says, SavesAreCalm
<1>6. MovesAreKept'
  BY DEF CopiesInv, MovesAreKept, SavesAreCalm, StillMove
<1> QED BY <1>2, <1>5, <1>6 DEF CopiesInv, CopyTypesOK

\* The steps that are calm.
LEMMA CalmSteps ==
  ASSUME CopiesInv,
         \/ \E c \in Copies : PollCopy(c) \/ StopWatching(c)
         \/ Close \/ NextRun \/ StartCollecting \/ CollectLoose \/ EndCollecting
         \/ UNCHANGED copyVars
  PROVE  CopiesInv'
<1>0. /\ MaxSaves \in Nat /\ MaxSaves >= 2 /\ NoCopyRecord = MaxSaves + 1
      /\ CopyTypesOK /\ CopyIsNewest /\ \A d \in Copies : Newest(d) \in Nat
  BY CopiesAssumption
     DEF CopiesInv, CopyTypesOK, Newest, FolderTypes, Revisions, None, NoCopyRecord
<1>1. SavesAreCalm
  BY DEF PollCopy, StopWatching, Close, NextRun, StartCollecting, CollectLoose, EndCollecting,
         SavesAreCalm,
     questions, collecting, frozen, copyVars
<1>2. snap' \in {snap, manifest, Unrecorded} /\ moving' \in {moving, StillMove}
  BY DEF PollCopy, StopWatching, Close, NextRun, StartCollecting, CollectLoose, EndCollecting,
         Stopped,
     questions, collecting, frozen, copyVars
<1>3. folders' = folders /\ todo' \subseteq Copies
  BY <1>0 DEF PollCopy, StopWatching, Close, NextRun, StartCollecting, CollectLoose, EndCollecting,
     Stopped, questions, collecting, frozen, copyVars, CopyTypesOK, MoveTypes, FolderTypes
<1>4. \/ ask' = ask
      \/ \E c \in Copies : \E v \in {None, copyFile[c]} : ask' = [ask EXCEPT ![c] = v]
  BY DEF PollCopy, StopWatching, Close, NextRun, StartCollecting, CollectLoose, EndCollecting,
         Stopped,
     questions, collecting, frozen, copyVars
<1>5. ask' \in [Copies -> Revisions] /\ \A d \in Copies : ask'[d] <= Newest(d)
  BY <1>0, <1>4 DEF CopyTypesOK, QuestionTypes, FolderTypes, CopyIsNewest, Revisions, None
<1>6. /\ Unrecorded \in [Copies -> 0..NoCopyRecord]
      /\ StillMove \in [of : SUBSET Copies, data : Revisions, published : BOOLEAN]
  BY <1>0 DEF Unrecorded, StillMove, Revisions, None
<1>7. FolderTypes'
  BY <1>0, <1>1, <1>3 DEF CopyTypesOK, FolderTypes, SavesAreCalm
<1>8. RegistryTypes'
  BY <1>0, <1>1, <1>2, <1>6 DEF CopyTypesOK, RegistryTypes, SavesAreCalm
<1>9. MoveTypes' /\ QuestionTypes'
  BY <1>0, <1>1, <1>2, <1>3, <1>5, <1>6 DEF CopyTypesOK, MoveTypes, QuestionTypes, SavesAreCalm
<1> QED BY <1>1, <1>2, <1>5, <1>7, <1>8, <1>9, CalmStep DEF CopyTypesOK

\* An answer to the question, an upload that reads or fails.
LEMMA UploadStep ==
  ASSUME CopiesInv, NEW c \in Copies,
         AnswerQuestion(c) \/ UploadReads(c) \/ UploadFails(c)
  PROVE  CopiesInv'
<1>0. /\ MaxSaves \in Nat /\ MaxSaves >= 2 /\ \A d \in Copies : Newest(d) \in Nat
      /\ CopyTypesOK
  BY CopiesAssumption DEF CopiesInv, CopyTypesOK, Newest, FolderTypes, Revisions, None
<1>1. UNCHANGED <<copyFile, onServer, latest, rescued, discarded, editing, left, synced, manifest,
                  snap, moving, folders, todo>>
  BY DEF AnswerQuestion, UploadReads, UploadFails, frozen, collecting, questions
<1>2. \A d \in Copies : Newest(d)' = Newest(d)
  BY <1>1 DEF Newest
<1>3. EditedIsRegistered' /\ RecordsAreTrue' /\ MovesAreKept' /\ SavedEditIsHeld'
  BY <1>1, <1>2
     DEF CopiesInv, EditedIsRegistered, RecordsAreTrue, Says, MovesAreKept, SavedEditIsHeld
<1>4. FolderTypes' /\ RegistryTypes' /\ MoveTypes'
  BY <1>1 DEF CopiesInv, FolderTypes, RegistryTypes, MoveTypes
<1>5. /\ \A d \in Copies \ {c} : sent'[d] = sent[d] /\ sending'[d] = sending[d] /\ ask'[d] = ask[d]
      /\ QuestionTypes'
  BY <1>0 DEF AnswerQuestion, UploadReads, UploadFails, CopyTypesOK, QuestionTypes, FolderTypes,
         None, Revisions
<1>6. \/ sent'[c] = sent[c] /\ sent[c] = None /\ sending[c] = None /\ ask'[c] = None
         /\ sending'[c] \in {ask[c], sending[c]}
      \/ sent[c] = None /\ sending'[c] = sending[c] /\ ask'[c] = ask[c] /\ sending[c] # None
         /\ sent'[c] = copyFile[c] /\ copyFile[c] # None
      \/ sent'[c] = None /\ sending'[c] = None /\ ask'[c] \in {ask[c], sending[c]}
  BY <1>0 DEF AnswerQuestion, UploadReads, UploadFails, CopyTypesOK, QuestionTypes, FolderTypes,
         CopiesInv, UploadsGoForward, None
<1>7. CopyIsNewest'
  BY <1>0, <1>1, <1>2, <1>5, <1>6
     DEF CopiesInv, CopyIsNewest, CopyTypesOK, QuestionTypes, FolderTypes, Revisions, None
<1>8. UploadsGoForward'
  <2>1. \A d \in Copies \ {c} :
        /\ sent'[d] # None => sending'[d] # None /\ sending'[d] <= sent'[d]
        /\ latest'[d] # None /\ onServer'[d] = latest'[d] /\ sent'[d] # None
             => sent'[d] = latest'[d]
    BY <1>1, <1>5 DEF CopiesInv, UploadsGoForward
  <2>2. /\ sent'[c] # None => sending'[c] # None /\ sending'[c] <= sent'[c]
        /\ latest'[c] # None /\ onServer'[c] = latest'[c] /\ sent'[c] # None
             => sent'[c] = latest'[c]
    BY <1>0, <1>1, <1>6 DEF CopiesInv, UploadsGoForward, CopyIsNewest, Newest, None
  <2> QED BY <2>1, <2>2 DEF UploadsGoForward
<1> QED BY <1>3, <1>4, <1>5, <1>7, <1>8 DEF CopiesInv

\* The upload lands: what is the newest on the server stays it.
LEMMA LandStep ==
  ASSUME CopiesInv, NEW c \in Copies, UploadLands(c)
  PROVE  CopiesInv'
<1>0. /\ MaxSaves \in Nat /\ MaxSaves >= 2 /\ \A d \in Copies : Newest(d) \in Nat
      /\ CopyTypesOK
  BY CopiesAssumption DEF CopiesInv, CopyTypesOK, Newest, FolderTypes, Revisions, None
<1>1. /\ UNCHANGED <<copyFile, latest, rescued, discarded, editing, left, synced, manifest,
                  snap, moving, folders, todo, ask, sending, sent>>
      /\ sent[c] # None /\ sent[c] # onServer[c]
      /\ onServer' \in [Copies -> Revisions] /\ onServer'[c] = sent[c]
      /\ \A d \in Copies \ {c} : onServer'[d] = onServer[d]
  BY <1>0 DEF UploadLands, frozen, collecting, questions, CopyTypesOK, FolderTypes, QuestionTypes
<1>2. \A d \in Copies : Newest(d)' = Newest(d)
  BY <1>1 DEF Newest
<1>3. /\ latest[c] # None => onServer[c] # latest[c]
      /\ \A d \in Copies : latest[d] # None /\ onServer[d] = latest[d] => onServer'[d] = latest[d]
  BY <1>1 DEF CopiesInv, UploadsGoForward
<1>4. /\ FolderTypes' /\ QuestionTypes' /\ RegistryTypes' /\ MoveTypes' /\ EditedIsRegistered'
      /\ MovesAreKept'
  BY <1>1 DEF CopiesInv, FolderTypes, QuestionTypes, RegistryTypes, MoveTypes,
         EditedIsRegistered, MovesAreKept
<1>5. CopyIsNewest' /\ UploadsGoForward' /\ SavedEditIsHeld'
  BY <1>0, <1>1, <1>2, <1>3 DEF CopiesInv, CopyIsNewest, UploadsGoForward, SavedEditIsHeld
<1>6. RecordsAreTrue'
  BY <1>1, <1>2, <1>3 DEF CopiesInv, RecordsAreTrue, Says
<1> QED BY <1>4, <1>5, <1>6 DEF CopiesInv

\* The registry and its file change: what they say of the newest is true.
LEMMA RecordStep ==
  ASSUME CopiesInv, NEW c \in Copies,
         Register(c) \/ MarkSynced(c)
  PROVE  CopiesInv'
<1>0. /\ MaxSaves \in Nat /\ MaxSaves >= 2 /\ \A d \in Copies : Newest(d) \in Nat
      /\ CopyTypesOK /\ NoCopyRecord = MaxSaves + 1
  BY CopiesAssumption
     DEF CopiesInv, CopyTypesOK, Newest, FolderTypes, Revisions, None, NoCopyRecord
<1>1. /\ UNCHANGED <<copyFile, onServer, latest, rescued, discarded, editing, left, folders, ask>>
      /\ snap' \in {snap, Unrecorded} /\ moving' \in {moving, StillMove} /\ todo' \subseteq Copies
      /\ manifest' \in {manifest, synced', Unrecorded}
  BY <1>0 DEF Register, MarkSynced, frozen, collecting, questions, Stopped, Persisted,
         CopyTypesOK, MoveTypes
<1>2. \A d \in Copies : Newest(d)' = Newest(d)
  BY <1>1 DEF Newest
<1>3. \/ UNCHANGED <<sending, sent>>
      \/ sending' = [sending EXCEPT ![c] = None] /\ sent' = [sent EXCEPT ![c] = None]
  BY DEF Register, MarkSynced, questions
<1>4. \/ synced' = synced
      \/ synced[c] = NoCopyRecord /\ ~left
         /\ \E v \in {None, copyFile[c]} : synced' = [synced EXCEPT ![c] = v]
      \/ synced[c] # NoCopyRecord /\ sent[c] # None /\ sent[c] = onServer[c]
         /\ synced' = [synced EXCEPT ![c] = sending[c]]
  <2>1. CASE Register(c)
    BY <2>1 DEF Register, UsedBy
  <2>3. CASE MarkSynced(c)
    <3>1. sent[c] # None /\ sent[c] = onServer[c]
      BY <2>3, <1>0
         DEF MarkSynced, CopyTypesOK, FolderTypes, QuestionTypes, Revisions, CopiesInv,
             CopyIsNewest, UploadsGoForward, None
    <3>2. CASE synced[c] = NoCopyRecord
      BY <2>3, <3>2, <1>0 DEF MarkSynced, CopyTypesOK, RegistryTypes
    <3>3. CASE synced[c] # NoCopyRecord
      BY <2>3, <3>1, <3>3, <1>0 DEF MarkSynced, CopyTypesOK, RegistryTypes, Marks
    <3> QED BY <3>2, <3>3
  <2> QED BY <2>1, <2>3
<1>5. Says(Unrecorded) /\ Says(snap) /\ Says(manifest) /\ Says(synced)
  BY <1>0 DEF Says, Unrecorded, CopiesInv, RecordsAreTrue, CopyTypesOK, FolderTypes, Revisions
<1>6. Says(synced')
  <2>1. CASE synced' = synced
    BY <1>5, <2>1
  <2>2. CASE synced[c] = NoCopyRecord /\ ~left
         /\ \E v \in {None, copyFile[c]} : synced' = [synced EXCEPT ![c] = v]
    <3>1. latest[c] = None
      BY <2>2 DEF CopiesInv, EditedIsRegistered
    <3>2. synced'[c] <= Newest(c) /\ \A d \in Copies \ {c} : synced'[d] = synced[d]
      BY <2>2, <1>0 DEF CopyTypesOK, RegistryTypes, CopiesInv, CopyIsNewest, None
    <3> QED BY <1>5, <3>1, <3>2 DEF Says
  <2>3. CASE synced[c] # NoCopyRecord /\ sent[c] # None /\ sent[c] = onServer[c]
         /\ synced' = [synced EXCEPT ![c] = sending[c]]
    <3>1. synced'[c] = sending[c] /\ \A d \in Copies \ {c} : synced'[d] = synced[d]
      BY <2>3, <1>0 DEF CopyTypesOK, RegistryTypes
    <3>2. /\ sending[c] <= Newest(c)
          /\ (latest[c] # None /\ sending[c] = latest[c] => onServer[c] = latest[c])
      BY <2>3, <1>0
         DEF CopiesInv, CopyIsNewest, UploadsGoForward, Newest, CopyTypesOK, QuestionTypes,
             FolderTypes, Revisions
    <3> QED BY <1>5, <3>1, <3>2 DEF Says
  <2> QED BY <1>4, <2>1, <2>2, <2>3
<1>7. synced' \in [Copies -> 0..NoCopyRecord] /\ Unrecorded \in [Copies -> 0..NoCopyRecord]
      /\ StillMove \in [of : SUBSET Copies, data : Revisions, published : BOOLEAN]
  BY <1>0, <1>4
     DEF CopyTypesOK, RegistryTypes, FolderTypes, QuestionTypes, Revisions, Unrecorded, None,
         StillMove
<1>8. RecordsAreTrue'
  BY <1>1, <1>2, <1>5, <1>6 DEF RecordsAreTrue, Says
<1>9. FolderTypes' /\ QuestionTypes' /\ RegistryTypes' /\ MoveTypes'
  <2>1. FolderTypes' /\ RegistryTypes'
    BY <1>0, <1>1, <1>7 DEF CopyTypesOK, FolderTypes, RegistryTypes
  <2>2. QuestionTypes'
    BY <1>0, <1>1, <1>3 DEF CopyTypesOK, QuestionTypes, Revisions, None
  <2>3. MoveTypes'
    BY <1>0, <1>1, <1>7 DEF CopyTypesOK, MoveTypes
  <2> QED BY <2>1, <2>2, <2>3
<1>10. EditedIsRegistered'
  <2>1. \A d \in Copies : synced[d] # NoCopyRecord => synced'[d] # NoCopyRecord
    BY <1>0, <1>4 DEF CopyTypesOK, RegistryTypes, FolderTypes, QuestionTypes, Revisions, None
  <2> QED BY <2>1, <1>1 DEF CopiesInv, EditedIsRegistered, FolderTypes
<1>11. CopyIsNewest' /\ UploadsGoForward'
  BY <1>0, <1>1, <1>2, <1>3
     DEF CopiesInv, CopyIsNewest, UploadsGoForward, CopyTypesOK, QuestionTypes, None
<1>12. MovesAreKept' /\ SavedEditIsHeld'
  BY <1>1 DEF CopiesInv, MovesAreKept, SavedEditIsHeld, StillMove
<1> QED BY <1>8, <1>9, <1>10, <1>11, <1>12 DEF CopiesInv

\* A copy comes, or goes before it was ever edited.
LEMMA ArrivalStep ==
  ASSUME CopiesInv, NEW c \in Copies, DownloadCopy(c) \/ Launch(c)
  PROVE  CopiesInv'
<1>0. /\ MaxSaves \in Nat /\ MaxSaves >= 2 /\ \A d \in Copies : Newest(d) \in Nat
      /\ CopyTypesOK /\ NoCopyRecord = MaxSaves + 1
  BY CopiesAssumption
     DEF CopiesInv, CopyTypesOK, Newest, FolderTypes, Revisions, None, NoCopyRecord
<1>1. /\ UNCHANGED <<onServer, latest, rescued, discarded, left, ask, sending, sent, snap, moving,
                     todo>>
      /\ folders' \subseteq Copies
      /\ editing' \in {editing, editing \cup {c}}
      /\ manifest' \in {manifest, synced'}
  BY <1>0 DEF DownloadCopy, Launch, frozen, collecting, questions, Persisted, CopyTypesOK,
         FolderTypes
<1>2. \/ UNCHANGED <<copyFile>>
      \/ latest[c] = None /\ \E v \in {None, onServer[c]} : copyFile' = [copyFile EXCEPT ![c] = v]
  BY DEF DownloadCopy, Launch, CopiesInv, EditedIsRegistered
<1>3. /\ \/ synced' = synced
         \/ c \notin editing /\ editing' = editing /\ synced' = [synced EXCEPT ![c] = NoCopyRecord]
      /\ editing' = editing \/ synced[c] # NoCopyRecord
  BY DEF DownloadCopy, Launch
<1>4. \A d \in Copies : Newest(d)' = Newest(d)
  BY <1>1 DEF Newest
<1>5. Says(synced')
  BY <1>0, <1>3
     DEF CopiesInv, RecordsAreTrue, Says, CopyTypesOK, RegistryTypes, FolderTypes, Revisions
<1>6. RecordsAreTrue'
  BY <1>1, <1>4, <1>5 DEF CopiesInv, RecordsAreTrue, Says
<1>7. FolderTypes' /\ QuestionTypes' /\ MoveTypes'
  BY <1>0, <1>1, <1>2 DEF CopyTypesOK, FolderTypes, QuestionTypes, MoveTypes, Revisions, None
<1>8. RegistryTypes'
  BY <1>0, <1>1, <1>3 DEF CopyTypesOK, RegistryTypes
<1>9. EditedIsRegistered'
  <2>1. \A d \in Copies : latest'[d] # None => d \in editing'
    BY <1>1 DEF CopiesInv, EditedIsRegistered
  <2>2. \A d \in editing : left' \/ synced'[d] # NoCopyRecord
    BY <1>0, <1>1, <1>3 DEF CopiesInv, EditedIsRegistered, CopyTypesOK, RegistryTypes, FolderTypes
  <2>3. editing' = editing \/ (synced[c] # NoCopyRecord /\ synced' = synced)
    BY <1>3
  <2> QED BY <2>1, <2>2, <2>3, <1>1 DEF EditedIsRegistered
<1>10. /\ \A d \in Copies \ {c} : copyFile'[d] = copyFile[d]
       /\ copyFile'[c] = copyFile[c] \/ (latest[c] = None /\ copyFile'[c] \in {None, onServer[c]})
  BY <1>0, <1>2 DEF CopyTypesOK, FolderTypes
<1>11. CopyIsNewest'
  BY <1>0, <1>1, <1>4, <1>10
     DEF CopiesInv, CopyIsNewest, CopyTypesOK, FolderTypes, Revisions, Newest, None
<1>12. UploadsGoForward' /\ MovesAreKept'
  BY <1>1 DEF CopiesInv, UploadsGoForward, MovesAreKept
<1>13. SavedEditIsHeld'
  BY <1>1, <1>10 DEF CopiesInv, SavedEditIsHeld
<1> QED BY <1>6, <1>7, <1>8, <1>9, <1>11, <1>12, <1>13 DEF CopiesInv

\* A save is newer than all there is.
LEMMA SaveStep ==
  ASSUME CopiesInv, NEW c \in Copies, EditorSaves(c)
  PROVE  CopiesInv'
<1>0. /\ MaxSaves \in Nat /\ MaxSaves >= 2 /\ \A d \in Copies : Newest(d) \in Nat
      /\ CopyTypesOK /\ NoCopyRecord = MaxSaves + 1
  BY CopiesAssumption
     DEF CopiesInv, CopyTypesOK, Newest, FolderTypes, Revisions, None, NoCopyRecord
<1>1. UNCHANGED <<onServer, rescued, discarded, editing, folders, left, ask, sending, sent, synced,
                  manifest, snap, moving, todo>>
  BY DEF EditorSaves, frozen, collecting, questions
<1>2. PICK v \in Revisions : /\ latest' = [latest EXCEPT ![c] = v] /\ v > Newest(c) /\ v # None
                             /\ copyFile' = [copyFile EXCEPT ![c] = v]
  <2>1. latest[c] \in Nat /\ latest[c] < MaxSaves
    BY <1>0 DEF EditorSaves, CopyTypesOK, FolderTypes, Revisions
  <2>2. (IF latest[c] = None THEN 2 ELSE latest[c] + 1) \in Revisions
    BY <2>1, <1>0 DEF Revisions, None
  <2>3. (IF latest[c] = None THEN 2 ELSE latest[c] + 1) > Newest(c)
    BY <2>1 DEF None, Newest
  <2>4. latest'[c] = (IF latest[c] = None THEN 2 ELSE latest[c] + 1)
    BY <1>0 DEF EditorSaves, CopyTypesOK, FolderTypes
  <2>5. /\ latest' = [latest EXCEPT ![c] = IF latest[c] = None THEN 2 ELSE latest[c] + 1]
        /\ copyFile' = [copyFile EXCEPT ![c] = latest'[c]]
    BY DEF EditorSaves
  <2>6. (IF latest[c] = None THEN 2 ELSE latest[c] + 1) # None
    BY <2>1 DEF None
  <2> QED BY <2>2, <2>3, <2>4, <2>5, <2>6
<1>3. /\ latest'[c] = v /\ copyFile'[c] = v
      /\ \A d \in Copies \ {c} : latest'[d] = latest[d] /\ copyFile'[d] = copyFile[d]
  BY <1>0, <1>2 DEF CopyTypesOK, FolderTypes
<1>4. Newest(c)' = v /\ \A d \in Copies \ {c} : Newest(d)' = Newest(d)
  BY <1>2, <1>3 DEF Newest
<1>5. v \in Nat /\ v # NoCopyRecord
  BY <1>0, <1>2 DEF Revisions
<1>6. FolderTypes' /\ QuestionTypes' /\ RegistryTypes' /\ MoveTypes'
  BY <1>0, <1>1, <1>2 DEF CopyTypesOK, FolderTypes, QuestionTypes, RegistryTypes, MoveTypes
<1>7. EditedIsRegistered'
  BY <1>1, <1>3 DEF CopiesInv, EditedIsRegistered, EditorSaves
<1>8. CopyIsNewest'
  BY <1>0, <1>1, <1>2, <1>3, <1>4, <1>5
     DEF CopiesInv, CopyIsNewest, CopyTypesOK, QuestionTypes, FolderTypes, Revisions
<1>9. UploadsGoForward'
  BY <1>0, <1>1, <1>2, <1>3, <1>5
     DEF CopiesInv, CopyIsNewest, UploadsGoForward, CopyTypesOK, QuestionTypes, FolderTypes,
         Revisions
<1>10. ASSUME NEW r \in [Copies -> 0..NoCopyRecord], Says(r)
       PROVE \A d \in Copies :
               /\ r[d] = NoCopyRecord \/ r[d] <= Newest(d)'
               /\ latest'[d] # None /\ r[d] = latest'[d] => onServer'[d] = latest'[d]
  BY <1>10, <1>0, <1>1, <1>2, <1>3, <1>4, <1>5 DEF Says
<1>11. RecordsAreTrue'
  BY <1>0, <1>1, <1>10 DEF CopiesInv, RecordsAreTrue, Says, CopyTypesOK, RegistryTypes
<1>12. MovesAreKept' /\ SavedEditIsHeld'
  BY <1>1, <1>3 DEF CopiesInv, MovesAreKept, SavedEditIsHeld
<1> QED BY <1>6, <1>7, <1>8, <1>9, <1>11, <1>12 DEF CopiesInv

\* The process ends: files and the manifest stay, all else goes.
LEMMA EndStep ==
  ASSUME CopiesInv, ProcessEnds
  PROVE  CopiesInv'
<1>0. /\ MaxSaves \in Nat /\ MaxSaves >= 2 /\ \A d \in Copies : Newest(d) \in Nat
      /\ CopyTypesOK /\ NoCopyRecord = MaxSaves + 1
  BY CopiesAssumption
     DEF CopiesInv, CopyTypesOK, Newest, FolderTypes, Revisions, None, NoCopyRecord
<1>1. /\ UNCHANGED <<copyFile, onServer, rescued, discarded, latest, editing, folders, manifest>>
      /\ left' = TRUE /\ synced' = Unrecorded /\ snap' = Unrecorded /\ todo' = {}
      /\ moving' = StillMove
      /\ ask' = NoneYet /\ sending' = NoneYet /\ sent' = NoneYet
  BY DEF ProcessEnds, Stopped, frozen
<1>2. \A d \in Copies : Newest(d)' = Newest(d)
  BY <1>1 DEF Newest
<1>3. Says(Unrecorded) /\ Unrecorded \in [Copies -> 0..NoCopyRecord]
  BY <1>0 DEF Says, Unrecorded, CopyTypesOK, FolderTypes, Revisions
<1>4. RecordsAreTrue'
  BY <1>1, <1>2, <1>3 DEF CopiesInv, RecordsAreTrue, Says
<1>5. /\ NoneYet \in [Copies -> Revisions] /\ \A d \in Copies : NoneYet[d] = None
      /\ StillMove \in [of : SUBSET Copies, data : Revisions, published : BOOLEAN]
  BY <1>0 DEF NoneYet, Revisions, None, StillMove
<1>6. FolderTypes' /\ QuestionTypes' /\ RegistryTypes' /\ MoveTypes'
  <2>1. FolderTypes'
    BY <1>0, <1>1 DEF CopyTypesOK, FolderTypes
  <2>2. QuestionTypes' /\ RegistryTypes' /\ MoveTypes'
    BY <1>0, <1>1, <1>3, <1>5 DEF CopyTypesOK, QuestionTypes, RegistryTypes, MoveTypes
  <2> QED BY <2>1, <2>2
<1>7. EditedIsRegistered'
  BY <1>1 DEF CopiesInv, EditedIsRegistered
<1>8. CopyIsNewest' /\ UploadsGoForward'
  BY <1>0, <1>1, <1>2, <1>5 DEF CopiesInv, CopyIsNewest, UploadsGoForward, None
<1>9. MovesAreKept' /\ SavedEditIsHeld'
  BY <1>1 DEF CopiesInv, MovesAreKept, SavedEditIsHeld, StillMove
<1> QED BY <1>4, <1>6, <1>7, <1>8, <1>9 DEF CopiesInv

\* A collection takes a copy away that is clean or rescued.
LEMMA CollectStep ==
  ASSUME CopiesInv, NEW c \in Copies,
         CollectCopy(c) \/ PublishMove(c) \/ RemoveMoved(c) \/ RemoveFolder(c)
  PROVE  CopiesInv'
<1>0. /\ MaxSaves \in Nat /\ MaxSaves >= 2 /\ \A d \in Copies : Newest(d) \in Nat
      /\ CopyTypesOK /\ NoCopyRecord = MaxSaves + 1
  BY CopiesAssumption
     DEF CopiesInv, CopyTypesOK, Newest, FolderTypes, Revisions, None, NoCopyRecord
<1>1. /\ UNCHANGED <<onServer, latest, editing, left, ask, sending, sent, synced, manifest>>
      /\ folders' \subseteq Copies /\ todo' \subseteq Copies
      /\ snap' \in {snap, Unrecorded}
  BY <1>0 DEF CollectCopy, PublishMove, RemoveMoved, RemoveFolder, Stopped, HeldByFiles,
       frozen, collecting, questions, CopyTypesOK, FolderTypes, MoveTypes
<1>2. copyFile' \in {copyFile, [copyFile EXCEPT ![c] = None]}
  BY DEF CollectCopy, PublishMove, RemoveMoved, RemoveFolder
<1>3. /\ \/ rescued' = rescued
         \/ rescued' = [rescued EXCEPT ![c] = @ \cup {copyFile[c]}]
         \/ moving.data = copyFile[c] /\ rescued' = [rescued EXCEPT ![c] = @ \cup {moving.data}]
      /\ discarded' = discarded
  BY DEF CollectCopy, PublishMove, RemoveMoved, RemoveFolder, frozen
<1>4. \A d \in Copies : rescued[d] \cup discarded[d] \subseteq rescued'[d] \cup discarded'[d]
  BY <1>0, <1>3 DEF CopyTypesOK, FolderTypes
<1>5. /\ rescued' \in [Copies -> SUBSET Revisions] /\ discarded' \in [Copies -> SUBSET Revisions]
      /\ copyFile' \in [Copies -> Revisions]
  BY <1>0, <1>2, <1>3 DEF CopyTypesOK, FolderTypes, Revisions, None
<1>6. \/ moving' \in {moving, StillMove}
      \/ moving' = [of |-> {c}, data |-> copyFile[c], published |-> FALSE]
      \/ moving' = [moving EXCEPT !.published = TRUE] /\ moving.of = {c}
         /\ rescued' = [rescued EXCEPT ![c] = @ \cup {moving.data}]
  BY DEF CollectCopy, PublishMove, RemoveMoved, RemoveFolder, Stopped, HeldByFiles, collecting
<1>7. MovesAreKept'
  <2>1. CASE \/ moving' \in {moving, StillMove}
             \/ moving' = [of |-> {c}, data |-> copyFile[c], published |-> FALSE]
    BY <2>1, <1>4 DEF CopiesInv, MovesAreKept, StillMove
  <2>2. CASE moving' = [moving EXCEPT !.published = TRUE] /\ moving.of = {c}
         /\ rescued' = [rescued EXCEPT ![c] = @ \cup {moving.data}]
    <3>1. moving'.of = {c} /\ moving'.data = moving.data
      BY <2>2, <1>0 DEF CopyTypesOK, MoveTypes
    <3>2. moving.data \in rescued'[c]
      BY <2>2, <1>0 DEF CopyTypesOK, FolderTypes
    <3> QED BY <3>1, <3>2 DEF MovesAreKept
  <2> QED BY <1>6, <2>1, <2>2
<1>8. \A d \in Copies : Newest(d)' = Newest(d)
  BY <1>1 DEF Newest
<1>9. Says(Unrecorded) /\ Unrecorded \in [Copies -> 0..NoCopyRecord]
  BY <1>0 DEF Says, Unrecorded, CopyTypesOK, FolderTypes, Revisions
<1>10. RecordsAreTrue' /\ EditedIsRegistered'
  BY <1>1, <1>8, <1>9 DEF CopiesInv, RecordsAreTrue, Says, EditedIsRegistered
<1>11. UploadsGoForward'
  BY <1>1 DEF CopiesInv, UploadsGoForward
<1>12. CopyIsNewest'
  <2>1. \A d \in Copies : copyFile'[d] \in {copyFile[d], None}
    BY <1>0, <1>2 DEF CopyTypesOK, FolderTypes
  <2> QED BY <2>1, <1>1, <1>8 DEF CopiesInv, CopyIsNewest
<1>13. MoveTypes'
  <2>1. /\ StillMove \in [of : SUBSET Copies, data : Revisions, published : BOOLEAN]
        /\ copyFile[c] \in Revisions
    BY <1>0 DEF CopyTypesOK, FolderTypes, StillMove, Revisions, None
  <2>2. moving' \in [of : SUBSET Copies, data : Revisions, published : BOOLEAN]
    <3>1. moving \in [of : SUBSET Copies, data : Revisions, published : BOOLEAN]
      BY <1>0 DEF CopyTypesOK, MoveTypes
    <3>2. [moving EXCEPT !.published = TRUE] \in [of : SUBSET Copies, data : Revisions,
                                                  published : BOOLEAN]
      BY <3>1
    <3>3. [of |-> {c}, data |-> copyFile[c], published |-> FALSE]
             \in [of : SUBSET Copies, data : Revisions, published : BOOLEAN]
      BY <2>1
    <3> QED BY <3>1, <3>2, <3>3, <2>1, <1>6
  <2> QED BY <2>2, <1>1 DEF MoveTypes
<1>14. FolderTypes' /\ QuestionTypes' /\ RegistryTypes'
  BY <1>0, <1>1, <1>5, <1>9 DEF CopyTypesOK, FolderTypes, QuestionTypes, RegistryTypes
<1>15. latest[c] # None /\ copyFile[c] = latest[c] /\ copyFile'[c] # latest[c] =>
         latest[c] \in {onServer[c]} \cup rescued'[c] \cup discarded'[c]
  <2>1. CASE CollectCopy(c)
    <3>1. \/ copyFile[c] = snap[c] \/ copyFile[c] = None \/ copyFile[c] \in rescued'[c]
          \/ copyFile' = copyFile
      BY <2>1, <1>0 DEF CollectCopy, CopyTypesOK, FolderTypes
    <3> QED BY <3>1 DEF CopiesInv, RecordsAreTrue, Says
  <2>2. CASE RemoveMoved(c)
    <3>1. \/ copyFile' = copyFile
          \/ (moving.published /\ moving.of = {c} /\ copyFile[c] = moving.data)
      BY <2>2 DEF RemoveMoved
    <3> QED BY <3>1, <1>4 DEF CopiesInv, MovesAreKept
  <2>3. CASE RemoveFolder(c)
    BY <2>3 DEF RemoveFolder, Removable
  <2>4. CASE PublishMove(c)
    BY <2>4 DEF PublishMove
  <2> QED BY <2>1, <2>2, <2>3, <2>4
<1>16. \A d \in Copies \ {c} : copyFile'[d] = copyFile[d]
  BY <1>0, <1>2 DEF CopyTypesOK, FolderTypes
<1>17. SavedEditIsHeld'
  BY <1>1, <1>4, <1>15, <1>16 DEF CopiesInv, SavedEditIsHeld
<1> QED BY <1>7, <1>10, <1>11, <1>12, <1>13, <1>14, <1>17 DEF CopiesInv

\* The manifest is emptied when nothing is left to be told of, and the user
\* discards what is in the recovery folder.
LEMMA EmptyStep ==
  ASSUME CopiesInv, EmptyManifest \/ Discard
  PROVE  CopiesInv'
<1>0. /\ MaxSaves \in Nat /\ MaxSaves >= 2 /\ \A d \in Copies : Newest(d) \in Nat
      /\ CopyTypesOK /\ NoCopyRecord = MaxSaves + 1
  BY CopiesAssumption
     DEF CopiesInv, CopyTypesOK, Newest, FolderTypes, Revisions, None, NoCopyRecord
<1>1. /\ UNCHANGED <<copyFile, onServer, latest, editing, folders, left, ask, sending, sent,
                     synced>>
      /\ manifest' \in {manifest, Unrecorded} /\ snap' \in {snap, Unrecorded}
      /\ moving' \in {moving, StillMove} /\ todo' \subseteq Copies
      /\ \/ UNCHANGED <<rescued, discarded>>
         \/ /\ discarded' = [d \in Copies |-> discarded[d] \cup rescued[d]]
            /\ rescued' = [d \in Copies |-> {}]
  BY <1>0 DEF EmptyManifest, Discard, Stopped, frozen, collecting, questions, CopyTypesOK,
         MoveTypes
<1>2. /\ \A d \in Copies : rescued[d] \cup discarded[d] \subseteq rescued'[d] \cup discarded'[d]
      /\ rescued' \in [Copies -> SUBSET Revisions] /\ discarded' \in [Copies -> SUBSET Revisions]
  BY <1>0, <1>1 DEF CopyTypesOK, FolderTypes
<1>3. \A d \in Copies : Newest(d)' = Newest(d)
  BY <1>1 DEF Newest
<1>4. /\ Says(Unrecorded) /\ Unrecorded \in [Copies -> 0..NoCopyRecord]
      /\ StillMove \in [of : SUBSET Copies, data : Revisions, published : BOOLEAN]
  BY <1>0 DEF Says, Unrecorded, CopyTypesOK, FolderTypes, Revisions, StillMove, None
<1>5. RecordsAreTrue' /\ EditedIsRegistered'
  BY <1>1, <1>3, <1>4 DEF CopiesInv, RecordsAreTrue, Says, EditedIsRegistered
<1>6. UploadsGoForward' /\ CopyIsNewest'
  BY <1>1, <1>3 DEF CopiesInv, UploadsGoForward, CopyIsNewest
<1>7. FolderTypes' /\ QuestionTypes'
  BY <1>0, <1>1, <1>2 DEF CopyTypesOK, FolderTypes, QuestionTypes
<1>8. RegistryTypes' /\ MoveTypes'
  BY <1>0, <1>1, <1>4 DEF CopyTypesOK, RegistryTypes, MoveTypes
<1>9. MovesAreKept'
  BY <1>1, <1>2 DEF CopiesInv, MovesAreKept, StillMove
<1>10. SavedEditIsHeld'
  BY <1>1, <1>2 DEF CopiesInv, SavedEditIsHeld
<1> QED BY <1>5, <1>6, <1>7, <1>8, <1>9, <1>10 DEF CopiesInv

(* Every step of the editor, the uploads and the collection keeps it. *)
LEMMA CopiesInvStep == CopiesInv /\ [CopiesNext]_copyVars => CopiesInv'
<1> SUFFICES ASSUME CopiesInv, [CopiesNext]_copyVars PROVE CopiesInv'
  OBVIOUS
<1>1. ASSUME NEW c \in Copies,
             \/ Register(c) \/ Launch(c) \/ DownloadCopy(c) \/ EditorSaves(c)
             \/ AnswerQuestion(c) \/ UploadReads(c) \/ UploadLands(c) \/ UploadFails(c)
             \/ MarkSynced(c) \/ CollectCopy(c) \/ PublishMove(c)
             \/ RemoveMoved(c) \/ RemoveFolder(c)
      PROVE  CopiesInv'
  BY <1>1, UploadStep, LandStep, RecordStep, ArrivalStep, SaveStep, CollectStep
<1> QED BY <1>1, CalmSteps, EmptyStep, EndStep DEF CopiesNext

(* The last revision the user saved in the editor is in the copy, in the       *)
(* recovery folder or on the server, unless the user discarded it: for any     *)
(* copies and saves, uploads in any order, failed writes of the manifest, and  *)
(* an end of the process anywhere (edit_recovery.rs, open_with.rs).            *)
THEOREM SavedEditsAreHeld == CopiesSpec => []SavedEditIsHeld
<1>1. CopiesInv => SavedEditIsHeld
  BY DEF CopiesInv
<1> QED BY <1>1, KindInit, CopiesInvStep, PTL DEF CopiesSpec
-----------------------------------------------------------------------------
(* TargetReservation: who writes is alone *)

(* Sets of numbers have a least element; induction over a set of numbers. *)
LEMMA SmallestNumber ==
  ASSUME NEW S \in SUBSET Nat, S # {}
  PROVE  \E x \in S : \A y \in S : x <= y
<1>1. \E x \in S : \A y \in S : ~ (<<y, x>> \in OpToRel(<, Nat))
  BY NatLessThanWellFounded, WFMin
<1>2. PICK x \in S : \A y \in S : ~ (<<y, x>> \in OpToRel(<, Nat))
  BY <1>1
<1>3. ASSUME NEW y \in S, y < x PROVE FALSE
  <2>1. <<y, x>> \in OpToRel(<, Nat)
    BY <1>3 DEF OpToRel
  <2> QED
    BY <1>2, <2>1
<1>4. \A y \in S : ~ (y < x)
  BY <1>3, Zenon
<1>5. \A y \in S : x <= y
  BY <1>4
<1> QED
  BY <1>5

(* A set with zero and the successor of each of its numbers has them all. *)
LEMMA SetInduction ==
  ASSUME NEW S \in SUBSET Nat, 0 \in S, \A n \in S : n + 1 \in S
  PROVE  S = Nat
<1> SUFFICES ASSUME S # Nat PROVE FALSE
  OBVIOUS
<1>1. Nat \ S \in SUBSET Nat /\ Nat \ S # {}
  OBVIOUS
<1>2. PICK x \in Nat \ S : \A y \in Nat \ S : x <= y
  BY <1>1, SmallestNumber
<1> QED
  BY <1>2

\* The members of a set of numbers, from the least to the greatest.
InOrder(q, c, S) ==
    /\ q \in [1..c -> S]
    /\ \A m, n \in 1..c : m < n => q[m] < q[n]
    /\ \A i \in S : \E m \in 1..c : q[m] = i

(* There is but one order of a set. *)
LEMMA OneOrder ==
  ASSUME NEW S \in SUBSET Nat, NEW c \in Nat, NEW q, NEW r, InOrder(q, c, S), InOrder(r, c, S)
  PROVE  q = r
<1>1. /\ \A m \in 1..c : q[m] \in S /\ r[m] \in S /\ q[m] \in Nat /\ r[m] \in Nat
      /\ \A m, n \in 1..c : m < n => q[m] < q[n] /\ r[m] < r[n]
  BY DEF InOrder
<1> DEFINE T == {n \in Nat : \A m \in 1..c : m <= n => q[m] = r[m]}
<1>2. 0 \in T
  OBVIOUS
<1>3. ASSUME NEW n \in T PROVE n + 1 \in T
  <2> SUFFICES ASSUME n + 1 \in 1..c PROVE q[n + 1] = r[n + 1]
    OBVIOUS
  <2>1. \A m \in 1..c : m <= n => q[m] = r[m]
    OBVIOUS
  <2>2. PICK k \in 1..c : q[k] = r[n + 1]
    BY <1>1 DEF InOrder
  <2>3. PICK l \in 1..c : r[l] = q[n + 1]
    BY <1>1 DEF InOrder
  <2>0. n \in Nat
    OBVIOUS
  <2> HIDE DEF T
  <2>4. k >= n + 1
    <3> SUFFICES ASSUME k <= n PROVE FALSE
      BY <2>0
    <3>1. r[k] = r[n + 1] /\ k < n + 1
      BY <2>0, <2>1, <2>2
    <3> QED
      BY <1>1, <3>1
  <2>5. l >= n + 1
    <3> SUFFICES ASSUME l <= n PROVE FALSE
      BY <2>0
    <3>1. q[l] = q[n + 1] /\ l < n + 1
      BY <2>0, <2>1, <2>3
    <3> QED
      BY <1>1, <3>1
  <2>6. q[n + 1] <= r[n + 1] /\ r[n + 1] <= q[n + 1]
    BY <1>1, <2>2, <2>3, <2>4, <2>5
  <2> QED
    BY <1>1, <2>6
<1>4. T = Nat
  <2> HIDE DEF T
  <2>1. T \in SUBSET Nat
    BY DEF T
  <2> QED
    BY <1>2, <1>3, <2>1, SetInduction
<1>5. \A m \in 1..c : q[m] = r[m]
  BY <1>4
<1> QED
  BY <1>5 DEF InOrder

\* The order that Place takes its components in.
Ascending(S) ==
    CHOOSE q \in [1 .. Cardinality(S) -> S] : \A m, n \in DOMAIN q : m < n => q[m] < q[n]

(* It is the order of the set. *)
LEMMA AscendingIsOrder ==
  ASSUME NEW S \in SUBSET Nat, NEW c \in Nat, NEW q, InOrder(q, c, S)
  PROVE  Ascending(S) = q
<1>1. /\ IsFiniteSet(1..c) /\ Cardinality(1..c) = c
  BY FS_Interval
<1>2. q \in Bijection(1..c, S)
  <2>1. \A m, n \in 1..c : q[m] = q[n] => m = n
    <3>1. \A m, n \in 1..c : q[m] \in Nat /\ (m < n => q[m] < q[n])
      BY DEF InOrder
    <3> QED
      BY <3>1
  <2> QED
    BY <2>1 DEF InOrder, Bijection, Injection, Surjection, IsInjective
<1>3. IsFiniteSet(S) /\ Cardinality(S) = c
  BY <1>1, <1>2, FS_Bijection DEF ExistsBijection
<1>4. PICK r : r = Ascending(S)
  OBVIOUS
<1>5. r \in [1..c -> S] /\ \A m, n \in 1..c : m < n => r[m] < r[n]
  <2>1. q \in [1..c -> S] /\ \A m, n \in DOMAIN q : m < n => q[m] < q[n]
    BY DEF InOrder
  <2>2. r \in [1..c -> S] /\ \A m, n \in DOMAIN r : m < n => r[m] < r[n]
    BY <1>3, <1>4, <2>1 DEF Ascending
  <2> QED
    BY <2>2
<1>6. r \in Injection(1..c, S)
  <2>1. \A m, n \in 1..c : r[m] \in Nat /\ (m < n => r[m] < r[n])
    BY <1>5
  <2>2. \A m, n \in 1..c : r[m] = r[n] => m = n
    BY <2>1
  <2> QED
    BY <1>5, <2>2 DEF Injection, IsInjective
<1>7. r \in Surjection(1..c, S)
  BY <1>1, <1>3, <1>6, FS_Injection
<1>8. InOrder(r, c, S)
  BY <1>5, <1>7 DEF InOrder, Surjection
<1> QED
  BY <1>4, <1>8, OneOrder

\* The ".." and the names of a path past its component i, up to j.
Ups(path, i, j) == {k \in i + 1 .. j : path[k] = ".."}
Names(path, i, j) == {k \in i + 1 .. j : path[k] \notin {".", ".."}}

\* The components that stand when the first n have been read, and those of
\* them past i.
StandIn(path, n) ==
    {i \in 1..n : /\ path[i] \notin {".", ".."}
                  /\ \A j \in i + 1 .. n :
                        Cardinality(Ups(path, i, j)) <= Cardinality(Names(path, i, j))}
Later(path, n, i) == {k \in StandIn(path, n) : i < k}

\* Past a component that stands, as many stand as names are left over.
Balanced(path, n) ==
    \A i \in StandIn(path, n) :
        Cardinality(Later(path, n, i)) + Cardinality(Ups(path, i, n))
            = Cardinality(Names(path, i, n))

(* Sets of components can be counted. *)
LEMMA ComponentsCount ==
  ASSUME NEW path, NEW n \in Nat, NEW i \in Nat
  PROVE  /\ IsFiniteSet(Ups(path, i, n)) /\ Cardinality(Ups(path, i, n)) \in Nat
         /\ IsFiniteSet(Names(path, i, n)) /\ Cardinality(Names(path, i, n)) \in Nat
         /\ IsFiniteSet(StandIn(path, n)) /\ IsFiniteSet(Later(path, n, i))
         /\ Cardinality(Later(path, n, i)) \in Nat
<1>1. IsFiniteSet(i + 1 .. n) /\ IsFiniteSet(1..n)
  BY FS_Interval
<1>2. /\ Ups(path, i, n) \subseteq i + 1 .. n /\ Names(path, i, n) \subseteq i + 1 .. n
      /\ StandIn(path, n) \subseteq 1..n /\ Later(path, n, i) \subseteq 1..n
  BY DEF Ups, Names, StandIn, Later
<1> QED
  BY <1>1, <1>2, FS_Subset, FS_CardinalityType

(* One more component counts where it is of the kind. *)
LEMMA OneMoreCounts ==
  ASSUME NEW path, NEW n \in Nat, NEW i \in 0..n
  PROVE  /\ Cardinality(Ups(path, i, n + 1))
              = Cardinality(Ups(path, i, n)) + (IF path[n + 1] = ".." THEN 1 ELSE 0)
         /\ Cardinality(Names(path, i, n + 1))
              = Cardinality(Names(path, i, n)) + (IF path[n + 1] \in {".", ".."} THEN 0 ELSE 1)
<1>1. /\ IsFiniteSet(Ups(path, i, n)) /\ Cardinality(Ups(path, i, n)) \in Nat
      /\ IsFiniteSet(Names(path, i, n)) /\ Cardinality(Names(path, i, n)) \in Nat
  <2>1. i \in Nat
    OBVIOUS
  <2> QED
    BY <2>1, ComponentsCount
<1>2. /\ n + 1 \notin Ups(path, i, n) /\ n + 1 \notin Names(path, i, n)
      /\ \A k : k \in i + 1 .. n + 1 <=> k \in i + 1 .. n \/ k = n + 1
  BY DEF Ups, Names
<1>3. Ups(path, i, n + 1) = IF path[n + 1] = ".." THEN Ups(path, i, n) \cup {n + 1}
                                                  ELSE Ups(path, i, n)
  BY <1>2 DEF Ups
<1>4. Names(path, i, n + 1) = IF path[n + 1] \in {".", ".."} THEN Names(path, i, n)
                                                 ELSE Names(path, i, n) \cup {n + 1}
  BY <1>2 DEF Names
<1>5. /\ Cardinality(Ups(path, i, n) \cup {n + 1}) = Cardinality(Ups(path, i, n)) + 1
      /\ Cardinality(Names(path, i, n) \cup {n + 1}) = Cardinality(Names(path, i, n)) + 1
  BY <1>1, <1>2, FS_AddElement
<1> QED
  BY <1>1, <1>3, <1>4, <1>5

(* Sets of components can be counted, whatever the first. *)
LEMMA AllCount ==
  ASSUME NEW path, NEW n \in Nat
  PROVE  \A i \in 0..n :
           /\ IsFiniteSet(Ups(path, i, n)) /\ Cardinality(Ups(path, i, n)) \in Nat
           /\ IsFiniteSet(Names(path, i, n)) /\ Cardinality(Names(path, i, n)) \in Nat
           /\ IsFiniteSet(StandIn(path, n)) /\ IsFiniteSet(Later(path, n, i))
           /\ Cardinality(Later(path, n, i)) \in Nat
           /\ Cardinality(Ups(path, i, n + 1))
                = Cardinality(Ups(path, i, n)) + (IF path[n + 1] = ".." THEN 1 ELSE 0)
           /\ Cardinality(Names(path, i, n + 1))
                = Cardinality(Names(path, i, n)) + (IF path[n + 1] \in {".", ".."} THEN 0 ELSE 1)
<1> TAKE i \in 0..n
<1>1. i \in Nat
  OBVIOUS
<1> QED
  BY <1>1, ComponentsCount, OneMoreCounts

(* Of what stood, what has a name left over stands with one more component;  *)
(* the new one stands if it is a name.                                       *)
LEMMA StandingMoves ==
  ASSUME NEW path, NEW n \in Nat
  PROVE  /\ \A i \in 1..n : i \in StandIn(path, n + 1) <=>
                /\ i \in StandIn(path, n)
                /\ Cardinality(Ups(path, i, n + 1)) <= Cardinality(Names(path, i, n + 1))
         /\ n + 1 \in StandIn(path, n + 1) <=> path[n + 1] \notin {".", ".."}
         /\ \A i \in StandIn(path, n + 1) : i \in 1..n \/ i = n + 1
<1>1. \A i \in 1..n : \A j : j \in i + 1 .. n + 1 <=> j \in i + 1 .. n \/ j = n + 1
  OBVIOUS
<1>2. (n + 1) + 1 .. n + 1 = {}
  OBVIOUS
<1>3. \A i : i \in 1 .. n + 1 <=> i \in 1..n \/ i = n + 1
  OBVIOUS
<1>4. n + 1 \notin 1..n
  OBVIOUS
<1> QED
  BY <1>1, <1>2, <1>3, <1>4, Zenon DEF StandIn

(* A component "." changes nothing. *)
LEMMA DotStands ==
  ASSUME NEW path, NEW n \in Nat, Balanced(path, n), path[n + 1] = "."
  PROVE  Balanced(path, n + 1) /\ StandIn(path, n + 1) = StandIn(path, n)
<1>1. \A i \in 0..n : /\ Cardinality(Ups(path, i, n + 1)) = Cardinality(Ups(path, i, n))
                      /\ Cardinality(Names(path, i, n + 1)) = Cardinality(Names(path, i, n))
  <2>1. path[n + 1] # ".." /\ path[n + 1] \in {".", ".."}
    OBVIOUS
  <2> TAKE i \in 0..n
  <2>2. /\ Cardinality(Ups(path, i, n)) \in Nat /\ Cardinality(Names(path, i, n)) \in Nat
        /\ Cardinality(Ups(path, i, n + 1))
             = Cardinality(Ups(path, i, n)) + (IF path[n + 1] = ".." THEN 1 ELSE 0)
        /\ Cardinality(Names(path, i, n + 1))
             = Cardinality(Names(path, i, n)) + (IF path[n + 1] \in {".", ".."} THEN 0 ELSE 1)
    BY AllCount
  <2> QED
    BY <2>1, <2>2
<1>2. \A i \in StandIn(path, n) :
         /\ i \in 1..n /\ i \in 0..n
         /\ Cardinality(Ups(path, i, n)) <= Cardinality(Names(path, i, n))
  <2>1. \A i \in StandIn(path, n) : i \in 1..n
    BY DEF StandIn
  <2> QED
    BY <2>1, AllCount DEF Balanced
<1>3. StandIn(path, n + 1) = StandIn(path, n)
  <2>1. n + 1 \notin StandIn(path, n + 1)
    BY StandingMoves
  <2>2. \A i \in StandIn(path, n + 1) : i \in StandIn(path, n)
    BY <2>1, StandingMoves
  <2>3. \A i \in StandIn(path, n) : i \in StandIn(path, n + 1)
    BY <1>1, <1>2, StandingMoves
  <2> QED
    BY <2>2, <2>3
<1>4. \A i \in StandIn(path, n) : Later(path, n + 1, i) = Later(path, n, i)
  BY <1>3 DEF Later
<1> QED
  BY <1>1, <1>2, <1>3, <1>4 DEF Balanced

(* A name stands after all others. *)
LEMMA NameStands ==
  ASSUME NEW path, NEW n \in Nat, Balanced(path, n), path[n + 1] \notin {".", ".."}
  PROVE  Balanced(path, n + 1) /\ StandIn(path, n + 1) = StandIn(path, n) \cup {n + 1}
<1>1. \A i \in 0..n : /\ Cardinality(Ups(path, i, n + 1)) = Cardinality(Ups(path, i, n))
                      /\ Cardinality(Names(path, i, n + 1)) = Cardinality(Names(path, i, n)) + 1
  <2>1. path[n + 1] # ".." /\ path[n + 1] \notin {".", ".."}
    OBVIOUS
  <2> TAKE i \in 0..n
  <2>2. /\ Cardinality(Ups(path, i, n)) \in Nat /\ Cardinality(Names(path, i, n)) \in Nat
        /\ Cardinality(Ups(path, i, n + 1))
             = Cardinality(Ups(path, i, n)) + (IF path[n + 1] = ".." THEN 1 ELSE 0)
        /\ Cardinality(Names(path, i, n + 1))
             = Cardinality(Names(path, i, n)) + (IF path[n + 1] \in {".", ".."} THEN 0 ELSE 1)
    BY AllCount
  <2> QED
    BY <2>1, <2>2
<1>2. \A i \in StandIn(path, n) :
         /\ i \in 1..n /\ i \in 0..n
         /\ Cardinality(Ups(path, i, n)) <= Cardinality(Names(path, i, n))
  <2>1. \A i \in StandIn(path, n) : i \in 1..n
    BY DEF StandIn
  <2> QED
    BY <2>1, AllCount DEF Balanced
<1>3. StandIn(path, n + 1) = StandIn(path, n) \cup {n + 1}
  <2>1. \A i \in 0..n : /\ Cardinality(Ups(path, i, n)) \in Nat
                        /\ Cardinality(Names(path, i, n)) \in Nat
    BY AllCount
  <2>2. \A i \in StandIn(path, n) : i \in StandIn(path, n + 1)
    BY <1>1, <1>2, <2>1, StandingMoves
  <2>3. n + 1 \in StandIn(path, n + 1)
    BY StandingMoves
  <2>4. \A i \in StandIn(path, n + 1) : i \in StandIn(path, n) \/ i = n + 1
    BY StandingMoves
  <2> QED
    BY <2>2, <2>3, <2>4
<1>4. ASSUME NEW i \in StandIn(path, n)
      PROVE  Cardinality(Later(path, n + 1, i)) = Cardinality(Later(path, n, i)) + 1
  <2>1. Later(path, n + 1, i) = Later(path, n, i) \cup {n + 1} /\ n + 1 \notin Later(path, n, i)
    BY <1>2, <1>3 DEF Later
  <2> QED
    BY <1>2, <2>1, AllCount, FS_AddElement
<1>5. /\ Cardinality(Later(path, n + 1, n + 1)) = 0
      /\ Cardinality(Ups(path, n + 1, n + 1)) = 0 /\ Cardinality(Names(path, n + 1, n + 1)) = 0
  <2>1. Later(path, n + 1, n + 1) = {}
    BY <1>2, <1>3 DEF Later
  <2>2. Ups(path, n + 1, n + 1) = {} /\ Names(path, n + 1, n + 1) = {}
    BY DEF Ups, Names
  <2> QED
    BY <2>1, <2>2, FS_EmptySet
<1>6. ASSUME NEW i \in StandIn(path, n + 1)
      PROVE  Cardinality(Later(path, n + 1, i)) + Cardinality(Ups(path, i, n + 1))
               = Cardinality(Names(path, i, n + 1))
  <2>1. CASE i = n + 1
    BY <1>5, <2>1
  <2>2. CASE i \in StandIn(path, n)
    <3>1. /\ i \in 0..n
          /\ Cardinality(Later(path, n, i)) \in Nat /\ Cardinality(Ups(path, i, n)) \in Nat
          /\ Cardinality(Names(path, i, n)) \in Nat
      BY <1>2, <2>2, AllCount
    <3>2. Cardinality(Later(path, n, i)) + Cardinality(Ups(path, i, n))
            = Cardinality(Names(path, i, n))
      BY <2>2 DEF Balanced
    <3> QED
      BY <1>1, <1>4, <2>2, <3>1, <3>2
  <2> QED
    BY <1>3, <2>1, <2>2
<1> QED
  BY <1>3, <1>6 DEF Balanced

(* A component ".." takes the last one that stands. *)
LEMMA UpTakes ==
  ASSUME NEW path, NEW n \in Nat, NEW c \in Nat, NEW q,
         Balanced(path, n), path[n + 1] = "..", InOrder(q, c, StandIn(path, n))
  PROVE  /\ Balanced(path, n + 1)
         /\ StandIn(path, n + 1) = IF c = 0 THEN {} ELSE StandIn(path, n) \ {q[c]}
<1>1. \A i \in 0..n : /\ Cardinality(Ups(path, i, n + 1)) = Cardinality(Ups(path, i, n)) + 1
                      /\ Cardinality(Names(path, i, n + 1)) = Cardinality(Names(path, i, n))
                      /\ Cardinality(Ups(path, i, n)) \in Nat
                      /\ Cardinality(Names(path, i, n)) \in Nat
                      /\ Cardinality(Later(path, n, i)) \in Nat
                      /\ IsFiniteSet(Later(path, n, i))
  BY AllCount
<1>2. \A i \in StandIn(path, n) : i \in 1..n /\ i \in 0..n /\ i \in Nat
  <2>1. \A i \in StandIn(path, n) : i \in 1..n
    BY DEF StandIn
  <2> QED
    BY <2>1
<1>3. \A i \in StandIn(path, n) :
         i \in StandIn(path, n + 1) <=> Cardinality(Later(path, n, i)) # 0
  BY <1>1, <1>2, StandingMoves DEF Balanced
<1>4. \A i \in StandIn(path, n) : i \in StandIn(path, n + 1) <=> Later(path, n, i) # {}
  BY <1>1, <1>2, <1>3, FS_EmptySet
<1>5. StandIn(path, n + 1) \subseteq StandIn(path, n)
  BY StandingMoves
<1>6. CASE c = 0
  <2>1. StandIn(path, n) = {}
    BY <1>6 DEF InOrder
  <2> QED
    BY <1>5, <1>6, <2>1 DEF Balanced
<1>7. CASE c # 0
  <2>1. /\ c \in 1..c /\ q[c] \in StandIn(path, n)
        /\ \A i \in StandIn(path, n) : i = q[c] \/ i < q[c]
    <3>1. c \in 1..c /\ q[c] \in StandIn(path, n)
      BY <1>7 DEF InOrder
    <3>2. ASSUME NEW i \in StandIn(path, n) PROVE i = q[c] \/ i < q[c]
      <4>1. PICK m \in 1..c : q[m] = i
        BY DEF InOrder
      <4>2. m = c \/ m < c
        OBVIOUS
      <4> QED
        BY <3>1, <4>1, <4>2 DEF InOrder
    <3> QED
      BY <3>1, <3>2
  <2>2. \A i \in StandIn(path, n) : Later(path, n, i) # {} <=> i # q[c]
    <3>1. \A i \in StandIn(path, n) : i # q[c] => q[c] \in Later(path, n, i)
      BY <2>1 DEF Later
    <3>2. Later(path, n, q[c]) = {}
      BY <1>2, <2>1 DEF Later
    <3> QED
      BY <3>1, <3>2
  <2>3. StandIn(path, n + 1) = StandIn(path, n) \ {q[c]}
    BY <1>4, <1>5, <2>2
  <2>4. ASSUME NEW i \in StandIn(path, n + 1)
        PROVE  Cardinality(Later(path, n + 1, i)) + Cardinality(Ups(path, i, n + 1))
                 = Cardinality(Names(path, i, n + 1))
    <3>1. i \in StandIn(path, n) /\ i < q[c] /\ i \in 0..n
      BY <1>2, <2>1, <2>3
    <3>2. Later(path, n + 1, i) = Later(path, n, i) \ {q[c]} /\ q[c] \in Later(path, n, i)
      BY <2>1, <2>3, <3>1 DEF Later
    <3>3. Cardinality(Later(path, n + 1, i)) = Cardinality(Later(path, n, i)) - 1
      BY <1>1, <3>1, <3>2, FS_RemoveElement
    <3>4. Cardinality(Later(path, n, i)) + Cardinality(Ups(path, i, n))
            = Cardinality(Names(path, i, n))
      BY <3>1 DEF Balanced
    <3> QED
      BY <1>1, <3>1, <3>3, <3>4
  <2> QED
    BY <1>7, <2>3, <2>4 DEF Balanced
<1> QED
  BY <1>6, <1>7

\* One more component, with what Key made of those before it.
NextKey(path, k, spelled) ==
    CASE path[k] = "." -> spelled
      [] path[k] = ".." -> IF spelled = <<>> THEN spelled ELSE Front(spelled)
      [] OTHER -> Append(spelled, Lowercase[path[k]])

\* What Key makes of the first components of a path.
KeyUpTo(path, n, g) ==
    g = [k \in 0..n |-> IF k = 0 THEN <<>> ELSE NextKey(path, k, g[k - 1])]

(* Key reads every path to its end, one component after another. *)
LEMMA KeysExist ==
  ASSUME NEW path, NEW n \in Nat
  PROVE  \E g : KeyUpTo(path, n, g)
<1> DEFINE S == {k \in Nat : \E g : KeyUpTo(path, k, g)}
<1>1. 0 \in S
  <2> DEFINE g == [k \in 0..0 |-> <<>>]
  <2>1. g = [k \in 0..0 |-> IF k = 0 THEN <<>> ELSE NextKey(path, k, g[k - 1])]
    OBVIOUS
  <2> HIDE DEF g
  <2> QED
    BY <2>1 DEF KeyUpTo
<1>2. ASSUME NEW k \in S PROVE k + 1 \in S
  <2>1. PICK g : KeyUpTo(path, k, g)
    OBVIOUS
  <2> DEFINE h == [j \in 0..(k + 1) |-> IF j = k + 1 THEN NextKey(path, k + 1, g[k]) ELSE g[j]]
             value(j) == IF j = 0 THEN <<>> ELSE NextKey(path, j, h[j - 1])
  <2>2. \A j \in 0..k : h[j] = g[j] /\ j \in 0..(k + 1)
    OBVIOUS
  <2>3. \A j \in 0..k : g[j] = IF j = 0 THEN <<>> ELSE NextKey(path, j, g[j - 1])
    BY <2>1 DEF KeyUpTo
  <2>4. ASSUME NEW j \in 0..(k + 1) PROVE h[j] = value(j)
    <3> HIDE DEF h
    <3>1. CASE j = 0
      BY <2>2, <2>3, <3>1
    <3>2. CASE j # 0 /\ j # k + 1
      <4>1. j \in 0..k /\ j - 1 \in 0..k
        BY <3>2
      <4>2. h[j] = NextKey(path, j, g[j - 1]) /\ g[j - 1] = h[j - 1]
        BY <2>2, <2>3, <3>2, <4>1
      <4> QED
        BY <3>2, <4>2
    <3>3. CASE j = k + 1
      <4>1. h[j] = NextKey(path, k + 1, g[k])
        BY <3>3 DEF h
      <4>2. j - 1 = k /\ k \in 0..k /\ j # 0
        BY <3>3
      <4>3. h[j - 1] = g[k]
        BY <2>2, <4>2
      <4> QED
        BY <3>3, <4>1, <4>2, <4>3
    <3> QED
      BY <3>1, <3>2, <3>3
  <2>5. h = [j \in 0..(k + 1) |-> value(j)]
    <3>1. h = [j \in 0..(k + 1) |-> h[j]]
      OBVIOUS
    <3> HIDE DEF h, value
    <3> QED
      BY <2>4, <3>1, Zenon
  <2> HIDE DEF h
  <2>6. KeyUpTo(path, k + 1, h)
    BY <2>5 DEF KeyUpTo
  <2> QED
    BY <2>6
<1>3. S = Nat
  <2> HIDE DEF S
  <2>1. S \in SUBSET Nat
    BY DEF S
  <2> QED
    BY <1>1, <1>2, <2>1, SetInduction
<1> QED
  BY <1>3

(* So Key is the last of these. *)
LEMMA KeyIsLast ==
  ASSUME NEW path, Len(path) \in Nat
  PROVE  \E g : /\ g[0] = <<>> /\ g[Len(path)] = Key(path)
                /\ \A k \in 1..Len(path) : g[k] = NextKey(path, k, g[k - 1])
<1>1. \E g : KeyUpTo(path, Len(path), g)
  BY KeysExist
<1>2. PICK g : KeyUpTo(path, Len(path), g) /\ Key(path) = g[Len(path)]
  <2> DEFINE u == CHOOSE g : KeyUpTo(path, Len(path), g)
  <2>1. KeyUpTo(path, Len(path), u)
    BY <1>1
  <2>2. Key(path) = u[Len(path)]
    BY DEF Key, KeyUpTo, NextKey
  <2> QED
    BY <2>1, <2>2
<1>3. \A k \in 0..Len(path) : g[k] = IF k = 0 THEN <<>> ELSE NextKey(path, k, g[k - 1])
  BY <1>2 DEF KeyUpTo
<1> QED
  BY <1>2, <1>3

\* A key spells the components that stand, in their order.
Spells(path, n, spelled) ==
    /\ Balanced(path, n)
    /\ \E c, q : /\ c \in Nat /\ InOrder(q, c, StandIn(path, n))
                 /\ spelled = [m \in 1..c |-> Lowercase[path[q[m]]]]

(* What spells is known by its order. *)
LEMMA SpelledInOrder ==
  ASSUME NEW path, NEW n \in Nat, NEW c \in Nat, NEW q, Balanced(path, n),
         InOrder(q, c, StandIn(path, n))
  PROVE  Spells(path, n, [m \in 1..c |-> Lowercase[path[q[m]]]])
BY Zenon DEF Spells

(* A name is appended. *)
LEMMA NameSpells ==
  ASSUME NEW path, NEW n \in Nat, NEW spelled, Spells(path, n, spelled),
         path[n + 1] \notin {".", ".."}
  PROVE  Spells(path, n + 1, Append(spelled, Lowercase[path[n + 1]]))
<1>0. PICK c \in Nat : \E q : /\ InOrder(q, c, StandIn(path, n))
                               /\ spelled = [m \in 1..c |-> Lowercase[path[q[m]]]]
  BY DEF Spells
<1>1. PICK q : /\ InOrder(q, c, StandIn(path, n))
               /\ spelled = [m \in 1..c |-> Lowercase[path[q[m]]]]
  BY <1>0
<1>2. Balanced(path, n + 1) /\ StandIn(path, n + 1) = StandIn(path, n) \cup {n + 1}
  BY NameStands DEF Spells
<1> DEFINE r == [m \in 1..(c + 1) |-> IF m = c + 1 THEN n + 1 ELSE q[m]]
<1>3. /\ \A m \in 1..c : r[m] = q[m] /\ q[m] \in StandIn(path, n) /\ q[m] \in 1..n
      /\ r[c + 1] = n + 1
      /\ \A m \in 1..(c + 1) : m \in 1..c \/ m = c + 1
  <2>1. \A m \in 1..c : q[m] \in StandIn(path, n)
    BY <1>1 DEF InOrder
  <2> QED
    BY <2>1 DEF StandIn
<1>4. InOrder(r, c + 1, StandIn(path, n + 1))
  <2>1. r \in [1..(c + 1) -> StandIn(path, n + 1)]
    BY <1>2, <1>3
  <2>2. ASSUME NEW m \in 1..(c + 1), NEW k \in 1..(c + 1), m < k PROVE r[m] < r[k]
    <3>1. m \in 1..c
      BY <2>2
    <3>2. CASE k \in 1..c
      <4>1. q[m] < q[k]
        BY <1>1, <2>2, <3>1, <3>2 DEF InOrder
      <4> QED
        BY <1>3, <3>1, <3>2, <4>1
    <3>3. CASE k = c + 1
      <4>1. q[m] < n + 1
        BY <1>3, <3>1
      <4> QED
        BY <1>3, <3>1, <3>3, <4>1
    <3> QED
      BY <1>3, <3>2, <3>3
  <2>3. ASSUME NEW i \in StandIn(path, n + 1) PROVE \E m \in 1..(c + 1) : r[m] = i
    <3>1. CASE i = n + 1
      BY <1>3, <3>1
    <3>2. CASE i \in StandIn(path, n)
      <4>1. PICK m \in 1..c : q[m] = i
        BY <1>1, <3>2 DEF InOrder
      <4> QED
        BY <1>3, <4>1
    <3> QED
      BY <1>2, <3>1, <3>2
  <2> HIDE DEF r
  <2> QED
    BY <2>1, <2>2, <2>3 DEF InOrder
<1>5. Append(spelled, Lowercase[path[n + 1]]) = [m \in 1..(c + 1) |-> Lowercase[path[r[m]]]]
  <2> DEFINE L == {Lowercase[path[k]] : k \in Nat}
             new == [m \in 1..(c + 1) |-> Lowercase[path[r[m]]]]
             old == Append(spelled, Lowercase[path[n + 1]])
  <2>1. spelled \in Seq(L) /\ Len(spelled) = c
    <3>1. \A m \in 1..c : q[m] \in Nat
      BY <1>3
    <3>2. spelled \in [1..c -> L]
      BY <1>1, <3>1
    <3> QED
      BY <3>2, LenProperties
  <2>2. Lowercase[path[n + 1]] \in L
    OBVIOUS
  <2>3. \A m \in 1..(c + 1) : r[m] \in Nat
    BY <1>3
  <2>4. new \in Seq(L) /\ Len(new) = c + 1
    <3>1. new \in [1..(c + 1) -> L]
      BY <2>3
    <3> QED
      BY <3>1, LenProperties
  <2> HIDE DEF L
  <2>5. /\ old \in Seq(L) /\ Len(old) = c + 1
        /\ \A i \in 1..c : old[i] = spelled[i]
        /\ old[c + 1] = Lowercase[path[n + 1]]
    BY <2>1, <2>2, AppendProperties
  <2>6. \A i \in 1..(c + 1) : old[i] = new[i]
    <3>1. \A i \in 1..c : old[i] = Lowercase[path[r[i]]]
      BY <1>1, <1>3, <2>5
    <3>2. old[c + 1] = Lowercase[path[r[c + 1]]]
      BY <1>3, <2>5
    <3> HIDE DEF r, old
    <3> QED
      BY <1>3, <3>1, <3>2
  <2> HIDE DEF r, old, new
  <2>7. old = new
    BY <2>4, <2>5, <2>6, SeqEqual
  <2> QED
    BY <2>7 DEF old, new
<1> HIDE DEF r
<1>6. Spells(path, n + 1, [m \in 1..(c + 1) |-> Lowercase[path[r[m]]]])
  <2>1. n + 1 \in Nat /\ c + 1 \in Nat
    OBVIOUS
  <2> QED
    BY <1>2, <1>4, <2>1, SpelledInOrder
<1> QED
  BY <1>5, <1>6

(* The last one is taken back. *)
LEMMA UpSpells ==
  ASSUME NEW path, NEW n \in Nat, NEW spelled, Spells(path, n, spelled), path[n + 1] = ".."
  PROVE  Spells(path, n + 1, IF spelled = <<>> THEN spelled ELSE Front(spelled))
<1>0. PICK c \in Nat : \E q : /\ InOrder(q, c, StandIn(path, n))
                               /\ spelled = [m \in 1..c |-> Lowercase[path[q[m]]]]
  BY DEF Spells
<1>1. PICK q : /\ InOrder(q, c, StandIn(path, n))
               /\ spelled = [m \in 1..c |-> Lowercase[path[q[m]]]]
  BY <1>0
<1>2. /\ Balanced(path, n + 1)
      /\ StandIn(path, n + 1) = IF c = 0 THEN {} ELSE StandIn(path, n) \ {q[c]}
  <2>1. Balanced(path, n) /\ InOrder(q, c, StandIn(path, n))
    BY <1>1 DEF Spells
  <2> QED
    BY <2>1, UpTakes
<1> DEFINE L == {Lowercase[path[k]] : k \in Nat}
<1>3. \A m \in 1..c : q[m] \in StandIn(path, n) /\ q[m] \in Nat
  BY <1>1 DEF InOrder, StandIn
<1>4. spelled \in Seq(L) /\ Len(spelled) = c /\ \A m \in 1..c : spelled[m] \in L
  <2>1. spelled \in [1..c -> L]
    BY <1>1, <1>3
  <2> QED
    BY <2>1, LenProperties
<1> HIDE DEF L
<1>5. CASE c = 0
  <2>1. spelled = <<>>
    BY <1>4, <1>5, EmptySeq
  <2>2. InOrder(q, c, StandIn(path, n + 1))
    BY <1>1, <1>2, <1>5 DEF InOrder
  <2>3. Spells(path, n + 1, spelled)
    <3>1. n + 1 \in Nat
      OBVIOUS
    <3> QED
      BY <1>1, <1>2, <2>2, <3>1, SpelledInOrder
  <2> QED
    BY <2>1, <2>3
<1>6. CASE c # 0
  <2> DEFINE d == c - 1
             r == [m \in 1..d |-> q[m]]
             old == Front(spelled)
             new == [m \in 1..d |-> Lowercase[path[r[m]]]]
  <2>1. /\ d \in Nat /\ c \in 1..c /\ spelled # <<>>
        /\ \A m \in 1..d : m \in 1..c /\ m < c /\ r[m] = q[m]
        /\ \A m \in 1..c : m \in 1..d \/ m = c
    BY <1>4, <1>6, EmptySeq
  <2>2. InOrder(r, d, StandIn(path, n + 1))
    <3>1. \A m \in 1..d : q[m] \in StandIn(path, n) /\ q[m] < q[c] /\ q[c] \in Nat /\ q[m] \in Nat
      BY <1>1, <1>3, <2>1 DEF InOrder
    <3>2. r \in [1..d -> StandIn(path, n + 1)]
      BY <1>2, <1>6, <3>1
    <3>3. \A m, k \in 1..d : m < k => r[m] < r[k]
      BY <1>1, <2>1 DEF InOrder
    <3>4. ASSUME NEW i \in StandIn(path, n + 1) PROVE \E m \in 1..d : r[m] = i
      <4>1. i \in StandIn(path, n) /\ i # q[c]
        BY <1>2, <1>6
      <4>2. PICK m \in 1..c : q[m] = i
        BY <1>1, <4>1 DEF InOrder
      <4> QED
        BY <2>1, <4>1, <4>2
    <3> HIDE DEF r, d
    <3> QED
      BY <3>2, <3>3, <3>4 DEF InOrder
  <2>3. old = new
    <3>1. /\ old \in Seq(L) /\ Len(old) = d /\ \A i \in 1..d : old[i] = spelled[i]
      <4>1. old = SubSeq(spelled, 1, d)
        BY <1>4 DEF Front
      <4>2. d \in Int /\ 1 \in Int /\ \A i \in 1..d : spelled[i] \in L
        BY <1>4, <2>1
      <4>3. /\ SubSeq(spelled, 1, d) \in Seq(L)
            /\ Len(SubSeq(spelled, 1, d)) = IF 1 <= d THEN d - 1 + 1 ELSE 0
            /\ \A i \in 1..(d - 1 + 1) : SubSeq(spelled, 1, d)[i] = spelled[1 + i - 1]
        BY <4>2, SubSeqProperties
      <4> HIDE DEF old
      <4> QED
        BY <2>1, <4>1, <4>3
    <3>2. \A i \in 1..d : spelled[i] = Lowercase[path[r[i]]] /\ new[i] = spelled[i]
      BY <1>1, <2>1
    <3>3. new \in Seq(L) /\ Len(new) = d
      <4>1. new \in [1..d -> L]
        BY <1>4, <2>1, <3>2
      <4> HIDE DEF new, d
      <4> QED
        BY <2>1, <4>1, LenProperties
    <3> HIDE DEF old, new, d
    <3> QED
      BY <3>1, <3>2, <3>3, SeqEqual
  <2>4. Spells(path, n + 1, new)
    <3>1. n + 1 \in Nat
      OBVIOUS
    <3> HIDE DEF d, r
    <3> QED
      BY <1>2, <2>1, <2>2, <3>1, SpelledInOrder
  <2> HIDE DEF d, r, old, new
  <2>5. (IF spelled = <<>> THEN spelled ELSE Front(spelled)) = new
    BY <2>1, <2>3 DEF old
  <2> QED
    BY <2>4, <2>5
<1> QED
  BY <1>5, <1>6

(* The key of a path is the place it names, whatever the path. *)
LEMMA KeyIsPlace ==
  ASSUME NEW T, NEW path \in Seq(T)
  PROVE  Key(path) = Place(path)
<1>1. Len(path) \in Nat /\ DOMAIN path = 1..Len(path)
  BY LenProperties
<1>2. PICK g : /\ g[0] = <<>> /\ g[Len(path)] = Key(path)
               /\ \A k \in 1..Len(path) : g[k] = NextKey(path, k, g[k - 1])
  BY <1>1, KeyIsLast
<1> DEFINE S == {n \in Nat : n <= Len(path) => Spells(path, n, g[n])}
<1>3. 0 \in S
  <2>1. StandIn(path, 0) = {}
    BY DEF StandIn
  <2>2. Balanced(path, 0)
    BY <2>1 DEF Balanced
  <2> DEFINE q == [m \in 1..0 |-> 0]
  <2>3. InOrder(q, 0, StandIn(path, 0))
    BY <2>1 DEF InOrder
  <2>4. <<>> = [m \in 1..0 |-> Lowercase[path[q[m]]]]
    OBVIOUS
  <2> HIDE DEF q
  <2> QED
    BY <1>2, <2>2, <2>3, <2>4 DEF Spells
<1>4. ASSUME NEW n \in S PROVE n + 1 \in S
  <2> SUFFICES ASSUME n + 1 <= Len(path) PROVE Spells(path, n + 1, g[n + 1])
    OBVIOUS
  <2>1. n \in Nat /\ Spells(path, n, g[n])
    BY <1>1
  <2>2. g[n + 1] = NextKey(path, n + 1, g[n])
    <3>1. n + 1 \in 1..Len(path) /\ (n + 1) - 1 = n
      BY <1>1, <2>1
    <3> QED
      BY <1>2, <3>1
  <2> HIDE DEF S
  <2>3. CASE path[n + 1] = "."
    <3>1. g[n + 1] = g[n]
      BY <2>2, <2>3 DEF NextKey
    <3>2. Balanced(path, n + 1) /\ StandIn(path, n + 1) = StandIn(path, n)
      BY <2>1, <2>3, DotStands DEF Spells
    <3> QED
      BY <2>1, <3>1, <3>2 DEF Spells
  <2>4. CASE path[n + 1] = ".."
    <3>1. g[n + 1] = IF g[n] = <<>> THEN g[n] ELSE Front(g[n])
      BY <2>2, <2>4 DEF NextKey
    <3> QED
      BY <2>1, <2>4, <3>1, UpSpells
  <2>5. CASE path[n + 1] \notin {".", ".."}
    <3>1. g[n + 1] = Append(g[n], Lowercase[path[n + 1]])
      BY <2>2, <2>5 DEF NextKey
    <3> QED
      BY <2>1, <2>5, <3>1, NameSpells
  <2> QED
    BY <2>3, <2>4, <2>5
<1>5. S = Nat
  <2> HIDE DEF S
  <2>1. S \in SUBSET Nat
    BY DEF S
  <2> QED
    BY <1>3, <1>4, <2>1, SetInduction
<1>6. Spells(path, Len(path), Key(path))
  BY <1>1, <1>2, <1>5
<1> DEFINE Reads(c, q) == /\ InOrder(q, c, StandIn(path, Len(path)))
                          /\ Key(path) = [m \in 1..c |-> Lowercase[path[q[m]]]]
<1>0. PICK c \in Nat : \E q : Reads(c, q)
  BY <1>6 DEF Spells
<1>7. PICK q : Reads(c, q)
  BY <1>0
<1>8. {i \in DOMAIN path : Stands(path, i)} = StandIn(path, Len(path))
  BY <1>1 DEF Stands, StandIn, Ups, Names
<1>9. Ascending({i \in DOMAIN path : Stands(path, i)}) = q
  <2>1. StandIn(path, Len(path)) \in SUBSET Nat
    BY <1>1 DEF StandIn
  <2> QED
    BY <1>7, <1>8, <2>1, AscendingIsOrder
<1>10. Place(path) = [n \in DOMAIN q |-> Lowercase[path[q[n]]]]
  <2>1. Place(path) = LET order == Ascending({i \in DOMAIN path : Stands(path, i)})
                      IN  [n \in DOMAIN order |-> Lowercase[path[order[n]]]]
    BY DEF Place, Ascending
  <2> QED
    BY <1>9, <2>1
<1>11. DOMAIN q = 1..c
  BY <1>7 DEF InOrder
<1> QED
  BY <1>7, <1>10, <1>11

(* Keys are places: no two spellings of one place have keys that do not      *)
(* overlap, for any paths (target_reservation.rs, key).                      *)
THEOREM KeysNamePlaces == KeysArePlaces(Paths)
BY ReservationAssumption, KeyIsPlace DEF KeysArePlaces

\* What backs a use: its lease, by number, of an owner of the same operation.
Backs(l, o, held) ==
    /\ l.id = <<o, held[1]>> /\ l.owner[1] = o
    /\ l.server = held[2].server /\ l.access = held[2].access /\ l.key = Key(held[2].path)

UsesAreBacked ==
    /\ using \in [Ops -> SUBSET (Nat \X Uses)] /\ taken \in [Ops -> Nat]
    /\ \A o \in Ops : \A held \in using[o] : \E l \in leases : Backs(l, o, held)

\* A number is given once.
NumbersAreOwn ==
    \A o \in Ops :
        /\ \A held \in using[o] : held[1] <= taken[o]
        /\ \A h1, h2 \in using[o] : h1[1] = h2[1] => h1 = h2

\* By key, which is what a lease is asked about.
KeysAreApart ==
    \A o1, o2 \in Ops : \A h1 \in using[o1], h2 \in using[o2] :
        /\ o1 # o2 /\ h1[2].server = h2[2].server
        /\ "write" \in {h1[2].access, h2[2].access}
        => ~IsPrefix(Key(h1[2].path), Key(h2[2].path))

(* The inductive invariant: what is in use is leased, and keys are apart. *)
LeasesInv == UsesAreBacked /\ NumbersAreOwn /\ KeysAreApart

\* Nothing is leased.
LEMMA LeasesInvInit == ReservationInit => LeasesInv
BY DEF ReservationInit, LeasesInv, UsesAreBacked, NumbersAreOwn, KeysAreApart

\* A lease is taken next to those that let it in.
LEMMA LeaseIsTaken ==
  ASSUME LeasesInv, NEW o \in Ops, NEW use \in Uses, Lease(o, use)
  PROVE  LeasesInv'
<1> DEFINE n == taken[o] + 1
<1> DEFINE mine == <<n, use>>
<1> DEFINE new == [id |-> <<o, n>>, server |-> use.server, key |-> Key(use.path),
                   owner |-> OwnerOf(o), access |-> use.access]
<1>0. UsesAreBacked /\ NumbersAreOwn /\ KeysAreApart
  BY DEF LeasesInv
<1>1. n \in Nat /\ taken' = [taken EXCEPT ![o] = n] /\ taken'[o] = n
      /\ \A p \in Ops : p # o => taken'[p] = taken[p]
  BY <1>0 DEF Lease, UsesAreBacked
<1>2. using' = [using EXCEPT ![o] = using[o] \cup {mine}]
      /\ leases' = leases \cup {new}
      /\ \A l \in leases : ~Keeps(l, OwnerOf(o), use)
  BY <1>1 DEF Lease
<1>3. Backs(new, o, mine)
  BY DEF Backs, OwnerOf
<1>4. OwnerOf(o)[1] = o
  BY DEF OwnerOf
<1>5. /\ using \in [Ops -> SUBSET (Nat \X Uses)] /\ mine \in Nat \X Uses
      /\ mine[1] = n /\ mine[2] = use /\ taken[o] \in Nat
  BY <1>0, <1>1 DEF UsesAreBacked
<1> HIDE DEF n, mine, new
<1>6. \A p \in Ops : using'[p] = IF p = o THEN using[o] \cup {mine} ELSE using[p]
  BY <1>2, <1>5
<1>7. UsesAreBacked'
  <2>1. using' \in [Ops -> SUBSET (Nat \X Uses)]
    BY <1>2, <1>5
  <2>2. taken' \in [Ops -> Nat]
    BY <1>0, <1>1 DEF UsesAreBacked
  <2>3. ASSUME NEW p \in Ops, NEW held \in using'[p] PROVE \E l \in leases' : Backs(l, p, held)
    <3>1. CASE p = o /\ held = mine
      BY <1>2, <1>3, <3>1
    <3>2. CASE held \in using[p]
      BY <1>0, <1>2, <3>2 DEF UsesAreBacked
    <3> QED BY <1>6, <2>3, <3>1, <3>2
  <2> QED BY <2>1, <2>2, <2>3 DEF UsesAreBacked
<1>8. NumbersAreOwn'
  <2> SUFFICES ASSUME NEW p \in Ops
               PROVE  /\ \A held \in using'[p] : held[1] <= taken'[p]
                      /\ \A h1, h2 \in using'[p] : h1[1] = h2[1] => h1 = h2
    BY DEF NumbersAreOwn
  <2>1. /\ \A held \in using[p] : held[1] <= taken[p] /\ held[1] \in Nat
        /\ \A h1, h2 \in using[p] : h1[1] = h2[1] => h1 = h2
    BY <1>0, <1>5 DEF NumbersAreOwn
  <2>2. CASE p # o
    BY <1>1, <1>6, <2>1, <2>2
  <2>3. CASE p = o
    <3>1. \A held \in using[o] : held[1] <= taken[o] /\ held[1] \in Nat /\ held[1] # n
               /\ held[1] <= n
      BY <1>5, <2>1, <2>3 DEF n
    <3> QED BY <1>1, <1>5, <1>6, <2>1, <2>3, <3>1
  <2> QED BY <2>2, <2>3
<1>9. KeysAreApart'
  <2> SUFFICES ASSUME NEW o1 \in Ops, NEW o2 \in Ops, NEW h1 \in using'[o1], NEW h2 \in using'[o2],
                      o1 # o2, h1[2].server = h2[2].server,
                      "write" \in {h1[2].access, h2[2].access}
               PROVE  ~IsPrefix(Key(h1[2].path), Key(h2[2].path))
    BY DEF KeysAreApart
  <2>1. CASE h1 \in using[o1] /\ h2 \in using[o2]
    BY <1>0, <2>1 DEF KeysAreApart
  <2>2. CASE o1 = o /\ h1 = mine
    <3>1. h2 \in using[o2]
      BY <1>6, <2>2
    <3>2. PICK l \in leases : Backs(l, o2, h2)
      BY <1>0, <3>1 DEF UsesAreBacked
    <3>3. l.owner # OwnerOf(o) /\ l.server = use.server /\ l.key = Key(h2[2].path)
          /\ l.access = h2[2].access
      BY <1>4, <1>5, <2>2, <3>2 DEF Backs
    <3>4. use.access = "write" \/ l.access = "write"
      BY <1>5, <2>2, <3>3
    <3>5. ~Overlaps(l.key, Key(use.path))
      BY <1>2, <3>3, <3>4 DEF Keeps
    <3> QED BY <1>5, <2>2, <3>3, <3>5 DEF Overlaps
  <2>3. CASE o2 = o /\ h2 = mine
    <3>1. h1 \in using[o1]
      BY <1>6, <2>3
    <3>2. PICK l \in leases : Backs(l, o1, h1)
      BY <1>0, <3>1 DEF UsesAreBacked
    <3>3. l.owner # OwnerOf(o) /\ l.server = use.server /\ l.key = Key(h1[2].path)
          /\ l.access = h1[2].access
      BY <1>4, <1>5, <2>3, <3>2 DEF Backs
    <3>4. use.access = "write" \/ l.access = "write"
      BY <1>5, <2>3, <3>3
    <3>5. ~Overlaps(l.key, Key(use.path))
      BY <1>2, <3>3, <3>4 DEF Keeps
    <3> QED BY <1>5, <2>3, <3>3, <3>5 DEF Overlaps
  <2> QED BY <1>6, <2>1, <2>2, <2>3
<1> QED BY <1>7, <1>8, <1>9 DEF LeasesInv

\* A lease is dropped by its number, and no other goes with it.
LEMMA LeaseIsDropped ==
  ASSUME LeasesInv, NEW o \in Ops, NEW held \in using[o], Release(o, held)
  PROVE  LeasesInv'
<1>0. UsesAreBacked /\ NumbersAreOwn /\ KeysAreApart
  BY DEF LeasesInv
<1>1. /\ using' = [using EXCEPT ![o] = using[o] \ {held}] /\ taken' = taken
      /\ leases' = {l \in leases : l.id # <<o, held[1]>>}
  BY DEF Release
<1>2. using \in [Ops -> SUBSET (Nat \X Uses)]
  BY <1>0 DEF UsesAreBacked
<1>3. \A p \in Ops : using'[p] = IF p = o THEN using[o] \ {held} ELSE using[p]
  BY <1>1, <1>2
<1>4. \A p \in Ops : using'[p] \subseteq using[p]
  BY <1>3
<1>5. UsesAreBacked'
  <2>1. using' \in [Ops -> SUBSET (Nat \X Uses)]
    BY <1>1, <1>2
  <2>2. ASSUME NEW p \in Ops, NEW h \in using'[p] PROVE \E l \in leases' : Backs(l, p, h)
    <3>1. PICK l \in leases : Backs(l, p, h)
      BY <1>0, <1>4 DEF UsesAreBacked
    <3>2. <<p, h[1]>> # <<o, held[1]>>
      <4>1. CASE p # o
        BY <4>1
      <4>2. CASE p = o
        <5>1. h \in using[o] /\ h # held
          BY <1>3, <4>2
        <5>2. h[1] # held[1]
          BY <1>0, <5>1 DEF NumbersAreOwn
        <5> QED BY <5>2
      <4> QED BY <4>1, <4>2
    <3>3. l \in leases'
      BY <1>1, <3>1, <3>2 DEF Backs
    <3> QED BY <3>1, <3>3
  <2> QED BY <1>0, <1>1, <2>1, <2>2 DEF UsesAreBacked
<1>6. NumbersAreOwn' /\ KeysAreApart'
  BY <1>0, <1>1, <1>4 DEF NumbersAreOwn, KeysAreApart
<1> QED BY <1>5, <1>6 DEF LeasesInv

(* Every lease that is taken or dropped keeps it. *)
LEMMA LeasesInvStep == LeasesInv /\ [ReservationNext]_reservationVars => LeasesInv'
<1> SUFFICES ASSUME LeasesInv, [ReservationNext]_reservationVars PROVE LeasesInv'
  OBVIOUS
<1>1. CASE UNCHANGED reservationVars
  BY <1>1 DEF LeasesInv, UsesAreBacked, NumbersAreOwn, KeysAreApart, Backs, reservationVars
<1>2. CASE ReservationNext
  BY <1>2, LeaseIsTaken, LeaseIsDropped DEF ReservationNext
<1> QED BY <1>1, <1>2

(* No operation works in a place while another writes there, or in a folder   *)
(* above or below it: for any operations, servers, paths and leases of an      *)
(* operation (target_reservation.rs, lease and drop).                          *)
THEOREM LeasesKeepWritersApart == ReservationSpec => []WritersAreApart
<1>1. LeasesInv => WritersAreApart
  <2> SUFFICES ASSUME LeasesInv, NEW o1 \in Ops, NEW o2 \in Ops,
                      NEW h1 \in using[o1], NEW h2 \in using[o2],
                      o1 # o2, h1[2].server = h2[2].server,
                      "write" \in {h1[2].access, h2[2].access}
               PROVE  ~IsPrefix(Place(h1[2].path), Place(h2[2].path))
    BY DEF WritersAreApart
  <2>1. ~IsPrefix(Key(h1[2].path), Key(h2[2].path))
    BY DEF LeasesInv, KeysAreApart
  <2>2. h1[2].path \in Paths /\ h2[2].path \in Paths
    BY DEF LeasesInv, UsesAreBacked, Uses
  <2> QED BY <2>1, <2>2, KeysNamePlaces DEF KeysArePlaces
<1> QED BY <1>1, LeasesInvInit, LeasesInvStep, PTL DEF ReservationSpec
-----------------------------------------------------------------------------
(* LocalMutations: the files of this computer *)
\* A command's record: its paths, and what it has read.
CommandRecords ==
    [step : CommandSteps, kind : CommandKinds, from : Places \cup {<<>>},
     to : Places \cup {<<>>}, over : BOOLEAN, seen : Nat, read : Int, tries : 0 .. 1]

\* The types of the variables.
LocalTypes ==
    /\ tree \in [Places -> Int] /\ made \in Nat /\ made >= 2
    /\ cmd \in [Commands -> CommandRecords]

\* What the checks have found of a command's paths, and what it has read.
Copying == {"opened", "copied", "verified", "published"}
Checked(c) ==
    /\ c.step \notin {"none", "done"} => c.from \in Places /\ c.to \in Places
    /\ c.step \in Copying =>
          /\ c.from # c.to /\ c.to \notin Own
          /\ c.seen > 0 /\ c.seen # 2
          /\ c.kind = "rename" => c.from \notin Own
    /\ c.step \in {"verified", "published"} => c.read = c.seen
    /\ c.step = "published" => c.kind = "rename"
    /\ c.step = "deleting" => \A own \in Own : ~Within(own, c.from)
CommandsAreChecked == \A k \in Commands : Checked(cmd[k])

\* The two halves of the property.
NoneIsLost == \A v \in 1 .. made : v \in given \cup bin \/ \E p \in Places : tree[p] = v
OwnStays(t) == \A p \in Places : t[p] # Torn /\ (p \in Own <=> t[p] = 2)

(* The inductive invariant: what the checks found still holds of a command,    *)
(* only folders hold anything, and no version is lost.                         *)
LocalInv == LocalTypes /\ CommandsAreChecked /\ Nested(tree) /\ NoneIsLost /\ OwnStays(tree)
-----------------------------------------------------------------------------
(* Paths *)
\* A place is a path, and what stands above it is a place.
LEMMA PlacesArePaths ==
  ASSUME NEW p \in Places
  PROVE  /\ p \in Seq(STRING) /\ Len(p) \in Nat /\ Len(p) > 0
         /\ \A n \in 1 .. Len(p) : SubSeq(p, 1, n) \in Places
<1>1. p \in Seq(STRING) /\ p # <<>> /\ \A n \in 1 .. Len(p) : SubSeq(p, 1, n) \in Places
  BY LocalAssumption
<1>2. Len(p) \in Nat /\ Len(p) # 0
  BY <1>1, EmptySeq
<1> QED BY <1>1, <1>2

\* One path is within another if it begins like it.
LEMMA WithinIsBelow ==
  ASSUME NEW p \in Seq(STRING), NEW b \in Seq(STRING)
  PROVE  Within(p, b) <=> Len(b) <= Len(p) /\ \A i \in 1 .. Len(b) : p[i] = b[i]
<1>1. CASE Len(b) <= Len(p)
  <2>1. /\ SubSeq(p, 1, Len(b)) \in Seq(STRING) /\ Len(SubSeq(p, 1, Len(b))) = Len(b)
        /\ \A i \in 1 .. Len(b) : SubSeq(p, 1, Len(b))[i] = p[i]
    BY <1>1, SubSeqProperties
  <2>2. SubSeq(p, 1, Len(b)) = b <=> \A i \in 1 .. Len(b) : p[i] = b[i]
    BY <2>1, SeqEqual
  <2> QED BY <1>1, <2>2 DEF Within
<1>2. CASE ~(Len(b) <= Len(p))
  BY <1>2 DEF Within
<1> QED BY <1>1, <1>2

\* Within is an order, and what a path is within is a chain.
LEMMA WithinIsOrder ==
  ASSUME NEW p \in Seq(STRING), NEW q \in Seq(STRING), NEW r \in Seq(STRING)
  PROVE  /\ Within(p, p)
         /\ Within(r, q) /\ Within(q, p) => Within(r, p)
         /\ Within(q, p) /\ Len(q) <= Len(p) => p = q
         /\ Within(r, p) /\ Within(r, q) /\ Len(p) <= Len(q) => Within(q, p)
<1>1. Within(p, p)
  BY WithinIsBelow
<1>2. Within(r, q) /\ Within(q, p) => Within(r, p)
  BY WithinIsBelow
<1>3. Within(q, p) /\ Len(q) <= Len(p) => p = q
  <2>1. SUFFICES ASSUME Within(q, p), Len(q) <= Len(p) PROVE p = q
    OBVIOUS
  <2>2. Len(p) = Len(q) /\ \A i \in 1 .. Len(p) : q[i] = p[i]
    BY <2>1, WithinIsBelow
  <2> QED BY <2>2, SeqEqual
<1>4. Within(r, p) /\ Within(r, q) /\ Len(p) <= Len(q) => Within(q, p)
  <2>1. SUFFICES ASSUME Within(r, p), Within(r, q), Len(p) <= Len(q) PROVE Within(q, p)
    OBVIOUS
  <2>2. \A i \in 1 .. Len(p) : r[i] = p[i]
    BY <2>1, WithinIsBelow
  <2>3. \A i \in 1 .. Len(q) : r[i] = q[i]
    BY <2>1, WithinIsBelow
  <2>4. \A i \in 1 .. Len(p) : q[i] = p[i]
    BY <2>1, <2>2, <2>3
  <2> QED BY <2>1, <2>4, WithinIsBelow
<1> QED BY <1>1, <1>2, <1>3, <1>4

\* What has something above it has its parent there.
LEMMA ParentBetween ==
  ASSUME NEW a \in Places, NEW q \in Inside(a)
  PROVE  /\ q \in Places /\ Parent(q) \in Places
         /\ Parent(q) = a \/ Parent(q) \in Inside(a)
<1>1. q \in Places /\ Within(q, a) /\ q # a
  BY DEF Inside
<1>2. /\ a \in Seq(STRING) /\ q \in Seq(STRING) /\ Len(a) \in Nat /\ Len(q) \in Nat /\ Len(a) > 0
      /\ \A n \in 1 .. Len(q) : SubSeq(q, 1, n) \in Places
  BY <1>1, PlacesArePaths
<1>3. Len(a) < Len(q)
  BY <1>1, <1>2, WithinIsOrder, WithinIsBelow
<1>4. Parent(q) \in Places
  BY <1>2, <1>3 DEF Parent
<1>5. /\ Parent(q) \in Seq(STRING) /\ Len(Parent(q)) = Len(q) - 1
      /\ \A i \in 1 .. Len(q) - 1 : Parent(q)[i] = q[i]
  BY <1>2, <1>3, SubSeqProperties DEF Parent
<1>6. Within(Parent(q), a)
  <2>1. \A i \in 1 .. Len(a) : q[i] = a[i]
    BY <1>1, <1>2, WithinIsBelow
  <2>2. Len(a) <= Len(Parent(q)) /\ \A i \in 1 .. Len(a) : Parent(q)[i] = a[i]
    BY <1>2, <1>3, <1>5, <2>1
  <2> QED BY <1>2, <1>5, <2>2, WithinIsBelow
<1> QED BY <1>1, <1>4, <1>6 DEF Inside

\* The image of what moves: where it is, what stands above it, whose it is.
LEMMA ImageIs ==
  ASSUME NEW c, c.from \in Places, c.to \in Places, NEW q \in Places, Within(q, c.from)
  PROVE  /\ Image(c, q) \in Seq(STRING)
         /\ Len(Image(c, q)) = Len(c.to) + Len(q) - Len(c.from)
         /\ \A i \in 1 .. Len(c.to) : Image(c, q)[i] = c.to[i]
         /\ \A i \in 1 .. Len(q) - Len(c.from) : Image(c, q)[Len(c.to) + i] = q[Len(c.from) + i]
<1> DEFINE rest == SubSeq(q, Len(c.from) + 1, Len(q))
<1>1. /\ c.from \in Seq(STRING) /\ c.to \in Seq(STRING) /\ q \in Seq(STRING)
      /\ Len(c.from) \in Nat /\ Len(c.to) \in Nat /\ Len(q) \in Nat
  BY PlacesArePaths
<1>2. Len(c.from) <= Len(q)
  BY <1>1, WithinIsBelow
<1>3. /\ rest \in Seq(STRING) /\ Len(rest) = Len(q) - Len(c.from)
      /\ \A i \in 1 .. Len(q) - Len(c.from) : rest[i] = q[Len(c.from) + i]
  <2> DEFINE f == Len(c.from)
             n == Len(q)
  <2>1. f \in Nat /\ n \in Nat /\ f <= n /\ \A i \in 1 .. n : q[i] \in STRING
    BY <1>1, <1>2
  <2>2. rest = SubSeq(q, f + 1, n)
    OBVIOUS
  <2> HIDE DEF f, n, rest
  <2>3. f + 1 \in Int /\ n \in Int /\ \A i \in f + 1 .. n : q[i] \in STRING
    BY <2>1
  <2>4. /\ rest \in Seq(STRING) /\ Len(rest) = IF f + 1 <= n THEN n - (f + 1) + 1 ELSE 0
        /\ \A i \in 1 .. n - (f + 1) + 1 : rest[i] = q[f + 1 + i - 1]
    BY <2>2, <2>3, SubSeqProperties
  <2>5. Len(rest) = n - f /\ n - (f + 1) + 1 = n - f
    BY <2>1, <2>4
  <2>6. \A i \in 1 .. n - f : rest[i] = q[f + i]
    <3>1. \A i \in 1 .. n - f : f + 1 + i - 1 = f + i
      BY <2>1
    <3> QED BY <2>4, <2>5, <3>1
  <2> QED BY <2>4, <2>5, <2>6 DEF f, n
<1> HIDE DEF rest
<1>4. /\ c.to \o rest \in Seq(STRING) /\ Len(c.to \o rest) = Len(c.to) + Len(rest)
      /\ \A i \in 1 .. Len(c.to) + Len(rest) :
            (c.to \o rest)[i] = IF i <= Len(c.to) THEN c.to[i] ELSE rest[i - Len(c.to)]
  BY <1>1, <1>3, ConcatProperties
<1>5. Image(c, q) = c.to \o rest
  BY DEF Image, rest
<1>6. \A i \in 1 .. Len(q) - Len(c.from) : (c.to \o rest)[Len(c.to) + i] = q[Len(c.from) + i]
  BY <1>1, <1>2, <1>3, <1>4
<1>7. Len(c.to \o rest) = Len(c.to) + Len(q) - Len(c.from)
  BY <1>1, <1>3, <1>4
<1>8. \A i \in 1 .. Len(c.to) : (c.to \o rest)[i] = c.to[i]
  BY <1>1, <1>2, <1>3, <1>4
<1> QED BY <1>4, <1>5, <1>6, <1>7, <1>8

\* It comes to stand within the target, ...
LEMMA ImageIsWithin ==
  ASSUME NEW c, c.from \in Places, c.to \in Places, NEW q \in Places, Within(q, c.from)
  PROVE  Within(Image(c, q), c.to)
<1>1. /\ c.from \in Seq(STRING) /\ c.to \in Seq(STRING) /\ q \in Seq(STRING)
      /\ Len(c.from) \in Nat /\ Len(c.to) \in Nat /\ Len(q) \in Nat
  BY PlacesArePaths
<1>2. Len(c.from) <= Len(q)
  BY <1>1, WithinIsBelow
<1>3. Len(c.to) <= Len(Image(c, q))
  BY <1>1, <1>2, ImageIs
<1> QED BY <1>1, <1>3, ImageIs, WithinIsBelow

\* ... and no two things at one place.
LEMMA ImagesAreApart ==
  ASSUME NEW c, c.from \in Places, c.to \in Places,
         NEW p \in Places, NEW q \in Places, Within(p, c.from), Within(q, c.from),
         Image(c, p) = Image(c, q)
  PROVE  p = q
<1> DEFINE f == Len(c.from)
           t == Len(c.to)
<1>1. /\ c.from \in Seq(STRING) /\ p \in Seq(STRING) /\ q \in Seq(STRING)
      /\ f \in Nat /\ t \in Nat /\ Len(p) \in Nat /\ Len(q) \in Nat
  BY PlacesArePaths
<1>2. /\ f <= Len(p) /\ \A i \in 1 .. f : p[i] = c.from[i]
      /\ f <= Len(q) /\ \A i \in 1 .. f : q[i] = c.from[i]
  BY <1>1, WithinIsBelow
<1>3. /\ t + Len(p) - f = t + Len(q) - f
      /\ \A i \in 1 .. Len(p) - f : Image(c, q)[t + i] = p[f + i]
      /\ \A i \in 1 .. Len(q) - f : Image(c, q)[t + i] = q[f + i]
  <2>1. /\ Len(Image(c, p)) = t + Len(p) - f
        /\ \A i \in 1 .. Len(p) - f : Image(c, p)[t + i] = p[f + i]
    BY ImageIs
  <2>2. /\ Len(Image(c, q)) = t + Len(q) - f
        /\ \A i \in 1 .. Len(q) - f : Image(c, q)[t + i] = q[f + i]
    BY ImageIs
  <2> HIDE DEF f, t
  <2> QED BY <2>1, <2>2
<1> HIDE DEF f, t
<1>4. Len(p) = Len(q)
  BY <1>1, <1>3
<1>5. ASSUME NEW i \in 1 .. Len(p) PROVE p[i] = q[i]
  <2>1. CASE i <= f
    BY <1>1, <1>2, <2>1
  <2>2. CASE i > f
    <3>1. i - f \in 1 .. Len(p) - f /\ f + (i - f) = i
      BY <1>1, <2>2
    <3> QED BY <1>3, <1>4, <3>1
  <2> QED BY <1>1, <2>1, <2>2
<1> QED BY <1>1, <1>4, <1>5, SeqEqual

\* What is above an image is above the target, or an image itself.
LEMMA AboveImage ==
  ASSUME NEW c, c.from \in Places, c.to \in Places,
         NEW q \in Places, Within(q, c.from), NEW a \in Places, Within(Image(c, q), a),
         Len(c.to) <= Len(a)
  PROVE  \E p \in Places : Within(p, c.from) /\ Within(q, p) /\ Image(c, p) = a
<1> DEFINE f == Len(c.from)
           t == Len(c.to)
           n == f + (Len(a) - t)
           p == SubSeq(q, 1, n)
<1>1. /\ c.from \in Seq(STRING) /\ c.to \in Seq(STRING) /\ q \in Seq(STRING) /\ a \in Seq(STRING)
      /\ f \in Nat /\ t \in Nat /\ Len(q) \in Nat /\ Len(a) \in Nat /\ f > 0 /\ t <= Len(a)
  BY PlacesArePaths
<1>2. /\ Image(c, q) \in Seq(STRING) /\ Len(Image(c, q)) = t + Len(q) - f
      /\ \A i \in 1 .. t : Image(c, q)[i] = c.to[i]
      /\ \A i \in 1 .. Len(q) - f : Image(c, q)[t + i] = q[f + i]
  BY ImageIs
<1>3. f <= Len(q) /\ \A i \in 1 .. f : q[i] = c.from[i]
  BY <1>1, WithinIsBelow
<1>4. Len(a) <= Len(Image(c, q)) /\ \A i \in 1 .. Len(a) : Image(c, q)[i] = a[i]
  BY <1>1, <1>2, WithinIsBelow
<1> HIDE DEF f, t, p
<1>5. n \in 1 .. Len(q) /\ f <= n
  BY <1>1, <1>2, <1>3, <1>4
<1>6. n \in Int /\ 1 \in Int /\ \A i \in 1 .. n : q[i] \in STRING
  BY <1>1, <1>5
<1>7. /\ p \in Places /\ p \in Seq(STRING) /\ Len(p) = n
      /\ \A i \in 1 .. n : p[i] = q[i]
  <2>1. p \in Places
    BY <1>5, PlacesArePaths DEF p
  <2>2. p \in Seq(STRING) /\ Len(p) = n /\ \A i \in 1 .. n : p[i] = q[i]
    BY <1>1, <1>5, <1>6, SubSeqProperties DEF p
  <2> QED BY <2>1, <2>2
<1>8. Within(p, c.from)
  <2>1. \A i \in 1 .. f : p[i] = c.from[i]
    BY <1>1, <1>3, <1>5, <1>7
  <2> QED BY <1>1, <1>5, <1>7, <2>1, WithinIsBelow DEF f
<1>9. Within(q, p)
  BY <1>1, <1>5, <1>7, WithinIsBelow
<1>10. /\ Image(c, p) \in Seq(STRING) /\ Len(Image(c, p)) = t + n - f
       /\ \A i \in 1 .. t : Image(c, p)[i] = c.to[i]
       /\ \A i \in 1 .. n - f : Image(c, p)[t + i] = p[f + i]
  BY <1>7, <1>8, ImageIs DEF f, t
<1>11. Len(Image(c, p)) = Len(a)
  BY <1>1, <1>10
<1>12. ASSUME NEW i \in 1 .. Len(a) PROVE Image(c, p)[i] = a[i]
  <2>1. CASE i <= t
    BY <1>1, <1>2, <1>4, <1>10, <2>1
  <2>2. CASE i > t
    <3>1. /\ i - t \in 1 .. n - f /\ i - t \in 1 .. Len(q) - f /\ t + (i - t) = i
          /\ f + (i - t) \in 1 .. n
      BY <1>1, <1>3, <1>5, <2>2
    <3> QED BY <1>2, <1>4, <1>7, <1>10, <3>1
  <2> QED BY <1>1, <2>1, <2>2
<1>13. Image(c, p) = a
  BY <1>1, <1>10, <1>11, <1>12, SeqEqual
<1> QED BY <1>7, <1>8, <1>9, <1>13
-----------------------------------------------------------------------------
(* What one step makes of the tree *)
LEMMA PlaceTaken ==
  ASSUME tree \in [Places -> Int], Nested(tree), NEW p \in Places, NEW v \in Int, ParentThere(p),
         v = FolderThere \/ \A q \in Inside(p) : tree[q] = EmptyPlace
  PROVE  Nested([tree EXCEPT ![p] = v])
<1> DEFINE t == [tree EXCEPT ![p] = v]
<1>1. t[p] = v /\ \A q \in Places : q # p => t[q] = tree[q]
  OBVIOUS
<1> HIDE DEF t
<1>2. ASSUME NEW a \in Places, NEW q \in Inside(a), t[q] # EmptyPlace PROVE t[a] = FolderThere
  <2>1. q \in Places /\ q # a
    BY DEF Inside
  <2>2. CASE q = p
    <3>1. Parent(p) \in Places /\ (Parent(p) = a \/ Parent(p) \in Inside(a))
      BY <2>2, ParentBetween
    <3>2. tree[Parent(p)] = FolderThere
      BY <3>1 DEF ParentThere
    <3>3. tree[a] = FolderThere
      BY <3>1, <3>2 DEF Nested, FolderThere, EmptyPlace
    <3> QED BY <1>1, <2>1, <2>2, <3>3
  <2>3. CASE q # p
    <3>1. tree[a] = FolderThere /\ tree[q] # EmptyPlace
      BY <1>1, <1>2, <2>1, <2>3 DEF Nested
    <3>2. a = p => v = FolderThere
      BY <3>1
    <3> QED BY <1>1, <3>1, <3>2
  <2> QED BY <2>2, <2>3
<1> QED BY <1>2 DEF Nested, t

\* What goes with all that is in it leaves a nested tree, ...
LEMMA PlacesEmptied ==
  ASSUME tree \in [Places -> Int], Nested(tree), NEW gone,
         \A p \in gone : \A q \in Inside(p) : q \in gone \/ tree[q] = EmptyPlace
  PROVE  Nested([p \in Places |-> IF p \in gone THEN EmptyPlace ELSE tree[p]])
<1> DEFINE t == [p \in Places |-> IF p \in gone THEN EmptyPlace ELSE tree[p]]
<1>1. \A p \in Places : t[p] = IF p \in gone THEN EmptyPlace ELSE tree[p]
  OBVIOUS
<1> HIDE DEF t
<1>2. ASSUME NEW a \in Places, NEW q \in Inside(a), t[q] # EmptyPlace PROVE t[a] = FolderThere
  <2>1. q \in Places
    BY DEF Inside
  <2>2. q \notin gone /\ tree[q] # EmptyPlace
    BY <1>1, <1>2, <2>1
  <2>3. a \notin gone /\ tree[a] = FolderThere
    BY <2>2 DEF Nested
  <2> QED BY <1>1, <2>3
<1> QED BY <1>2 DEF Nested, t

\* ... and so does one thing with nothing in it.
LEMMA PlaceEmptied ==
  ASSUME tree \in [Places -> Int], Nested(tree), NEW p \in Places,
         \A q \in Inside(p) : tree[q] = EmptyPlace
  PROVE  Nested([tree EXCEPT ![p] = EmptyPlace])
<1>1. [tree EXCEPT ![p] = EmptyPlace] = [q \in Places |-> IF q \in {p} THEN EmptyPlace ELSE tree[q]]
  BY DEF EmptyPlace
<1>2. Nested([q \in Places |-> IF q \in {p} THEN EmptyPlace ELSE tree[q]])
  BY PlacesEmptied
<1> QED BY <1>1, <1>2

\* A place that is no folder has nothing in it.
LEMMA NothingInside ==
  ASSUME Nested(tree), NEW p \in Places, tree[p] # FolderThere
  PROVE  \A q \in Inside(p) : tree[q] = EmptyPlace
BY DEF Nested

\* A place that is not the program's own takes anything but its own version.
LEMMA OwnUntouched ==
  ASSUME tree \in [Places -> Int], OwnStays(tree), NEW p \in Places, p \notin Own,
         NEW v \in Int, v # 2, v # Torn
  PROVE  OwnStays([tree EXCEPT ![p] = v])
BY DEF OwnStays

\* No version goes but to the bin or given up.
LEMMA VersionsStay ==
  ASSUME LocalInv, made' = made
              \/ (made' = made + 1 /\ (made' \in given' \/ \E p \in Places : tree'[p] = made')),
         given \subseteq given', bin \subseteq bin',
         \A p \in Places : tree[p] > 0 =>
            tree[p] \in given' \cup bin' \/ \E q \in Places : tree'[q] = tree[p]
  PROVE  NoneIsLost'
<1>1. made \in Nat
  BY DEF LocalInv, LocalTypes
<1>2. ASSUME NEW v \in 1 .. made' PROVE v \in given' \cup bin' \/ \E p \in Places : tree'[p] = v
  <2>1. CASE v \in 1 .. made
    <3>1. v \in given \cup bin \/ \E p \in Places : tree[p] = v
      BY <2>1 DEF LocalInv, NoneIsLost
    <3>2. v > 0
      BY <1>1, <2>1
    <3> QED BY <3>1, <3>2
  <2>2. CASE v \notin 1 .. made
    <3>1. v = made' /\ made' = made + 1
      BY <1>1, <1>2, <2>2
    <3> QED BY <3>1
  <2> QED BY <2>1, <2>2
<1> QED BY <1>2 DEF NoneIsLost

\* A command's record changes to one that is checked.
LEMMA CommandMoves ==
  ASSUME LocalInv, NEW k \in Commands, NEW c \in CommandRecords, Checked(c),
         cmd' = [cmd EXCEPT ![k] = c]
  PROVE  cmd' \in [Commands -> CommandRecords] /\ CommandsAreChecked'
<1>1. cmd' \in [Commands -> CommandRecords]
  BY DEF LocalInv, LocalTypes
<1>2. \A n \in Commands : Checked(cmd'[n])
  BY DEF LocalInv, LocalTypes, CommandsAreChecked
<1>3. CommandsAreChecked' <=> \A n \in Commands : Checked(cmd'[n])
  BY DEF CommandsAreChecked, Checked
<1> QED BY <1>1, <1>2, <1>3

\* One that is over is.
LEMMA DoneMoves ==
  ASSUME LocalInv, NEW k \in Commands, Done(k)
  PROVE  cmd' \in [Commands -> CommandRecords] /\ CommandsAreChecked'
<1> DEFINE c == [NoCommand EXCEPT !.step = "done"]
<1>1. c \in CommandRecords /\ c.step = "done"
  <2>1. /\ "none" \in CommandSteps /\ "mkdir" \in CommandKinds /\ <<>> \in Places \cup {<<>>}
        /\ 0 \in Nat /\ 0 \in Int /\ 0 \in 0 .. 1 /\ "done" \in CommandSteps
    BY DEF CommandSteps, CommandKinds
  <2>2. NoCommand \in CommandRecords
    BY <2>1 DEF CommandRecords, NoCommand
  <2> QED BY <2>1, <2>2 DEF CommandRecords
<1>2. Checked(c)
  BY <1>1 DEF Checked, Copying
<1> QED BY <1>1, <1>2, CommandMoves DEF Done

\* A step that touches no file.
LEMMA QuietKeeps ==
  ASSUME LocalInv, UNCHANGED <<tree, bin, given, made>>, cmd' \in [Commands -> CommandRecords],
         CommandsAreChecked'
  PROVE  LocalInv'
BY DEF LocalInv, LocalTypes, NoneIsLost, OwnStays, Nested
-----------------------------------------------------------------------------
(* The commands, one step after the other *)
\* What is known of a command.
LEMMA CommandIs ==
  ASSUME LocalInv, NEW k \in Commands
  PROVE  /\ cmd[k] \in CommandRecords /\ Checked(cmd[k])
         /\ cmd[k].step \notin {"none", "done"} => cmd[k].from \in Places /\ cmd[k].to \in Places
BY DEF LocalInv, LocalTypes, CommandsAreChecked, Checked

\* What the last look before an operation says.
LEMMA ProceedsTells ==
  ASSUME LocalInv, NEW k \in Commands, NEW kinds, Proceeds(k, kinds)
  PROVE  /\ cmd[k].kind \in kinds /\ cmd[k].from \in Places /\ cmd[k].to \in Places
         /\ cmd[k].kind \notin {"delete", "trash"} => cmd[k].to \notin Own
         /\ cmd[k].kind \in {"rename", "delete", "trash"} =>
               \A own \in Own : ~Within(own, cmd[k].from)
         /\ cmd[k].kind \in {"rename", "copy", "delete", "trash"} => cmd[k].from \notin Own
         /\ cmd[k].kind \in {"rename", "copy"} =>
               ~Within(cmd[k].to, cmd[k].from) /\ cmd[k].to # cmd[k].from
<1> DEFINE c == cmd[k]
<1>1. c.step = "checked" /\ c.kind \in kinds /\ ValidFor(c) /\ c.from \in Places /\ c.to \in Places
  BY CommandIs DEF Proceeds
<1>2. \A p \in Places : Within(p, p)
  BY PlacesArePaths, WithinIsOrder
<1>3. Own \subseteq Protected /\ Own \subseteq Places
  BY LocalAssumption
<1> HIDE DEF c
<1>4. c.kind \notin {"delete", "trash"} => c.to \notin Own
  BY <1>1, <1>2 DEF ValidFor, Writable
<1>5. c.kind \in {"rename", "delete", "trash"} => \A own \in Own : ~Within(own, c.from)
  BY <1>1, <1>3 DEF ValidFor, MayRemove
<1>6. c.kind = "copy" => c.from \notin Own
  BY <1>1, <1>2 DEF ValidFor, Readable
<1>7. c.kind \in {"rename", "copy"} => ~Within(c.to, c.from)
  BY <1>1 DEF ValidFor
<1> QED BY <1>1, <1>2, <1>4, <1>5, <1>6, <1>7 DEF c

\* A call that starts or waits, one that looks, reads, fails, or starts again.
LEMMA CallKeeps == ASSUME LocalInv, NEW k \in Commands, Call(k) PROVE LocalInv'
<1>1. PICK kind \in CommandKinds, from \in Places, to \in Places, over \in BOOLEAN :
        \/ Done(k)
        \/ cmd' = [cmd EXCEPT ![k] = NewCommand(kind, from, to, over, "checked")]
        \/ cmd' = [cmd EXCEPT ![k] = NewCommand(kind, from, to, over, "waiting")]
  BY DEF Call
<1>2. ASSUME NEW step \in {"checked", "waiting"}
      PROVE  /\ NewCommand(kind, from, to, over, step) \in CommandRecords
             /\ Checked(NewCommand(kind, from, to, over, step))
  BY DEF NewCommand, CommandRecords, CommandSteps, Checked, Copying
<1>3. cmd' \in [Commands -> CommandRecords] /\ CommandsAreChecked'
  BY <1>1, <1>2, CommandMoves, DoneMoves
<1> QED BY <1>3, QuietKeeps DEF Call

\* A command moves on to its next step.
LEMMA StepKeeps ==
  ASSUME LocalInv, NEW k \in Commands, NEW step \in CommandSteps, Step(k, step),
         Checked([cmd[k] EXCEPT !.step = step])
  PROVE  cmd' \in [Commands -> CommandRecords] /\ CommandsAreChecked'
<1> DEFINE c == [cmd[k] EXCEPT !.step = step]
<1>1. cmd' = [cmd EXCEPT ![k] = c]
  BY DEF Step
<1>2. c \in CommandRecords
  BY CommandIs DEF CommandRecords
<1> QED BY <1>1, <1>2, CommandMoves

\* Waiting, refusing, failing, and starting to delete.
LEMMA QuietSteps ==
  ASSUME LocalInv, NEW k \in Commands,
         TakeGuard(k) \/ Refused(k) \/ CommandFails(k) \/ StartDelete(k) \/ DeleteBusy(k)
  PROVE  LocalInv'
<1>1. cmd[k] \in CommandRecords /\ Checked(cmd[k])
  BY CommandIs
<1>2. UNCHANGED <<tree, bin, given, made>>
  BY DEF TakeGuard, Refused, CommandFails, StartDelete, DeleteBusy
<1>3. CASE Done(k)
  BY <1>2, <1>3, DoneMoves, QuietKeeps
<1>4. CASE cmd[k].step = "waiting" /\ Step(k, "checked")
  <2>1. Checked([cmd[k] EXCEPT !.step = "checked"])
    BY <1>1, <1>4 DEF Checked, Copying, CommandRecords
  <2> QED BY <1>2, <1>4, <2>1, StepKeeps, QuietKeeps DEF CommandSteps
<1>5. CASE StartDelete(k)
  <2>1. \A own \in Own : ~Within(own, cmd[k].from)
    BY <1>5, ProceedsTells DEF StartDelete
  <2>2. cmd[k].step = "checked" /\ Step(k, "deleting")
    BY <1>5 DEF StartDelete, Proceeds
  <2>3. Checked([cmd[k] EXCEPT !.step = "deleting"])
    BY <1>1, <2>1, <2>2 DEF Checked, Copying, CommandRecords
  <2> QED BY <1>2, <2>2, <2>3, StepKeeps, QuietKeeps DEF CommandSteps
<1>6. CASE DeleteBusy(k)
  <2> DEFINE c == [cmd[k] EXCEPT !.step = "checked", !.tries = 0]
  <2>1. cmd[k].step = "deleting" /\ cmd' = [cmd EXCEPT ![k] = c]
    BY <1>6 DEF DeleteBusy
  <2>2. c \in CommandRecords /\ c.step = "checked" /\ c.from = cmd[k].from /\ c.to = cmd[k].to
    <3>1. "checked" \in CommandSteps /\ 0 \in 0 .. 1
      BY DEF CommandSteps
    <3> QED BY <1>1, <3>1 DEF CommandRecords
  <2>3. Checked(c)
    BY <1>1, <2>1, <2>2 DEF Checked, Copying
  <2> QED BY <1>2, <2>1, <2>2, <2>3, CommandMoves, QuietKeeps
<1> QED BY <1>3, <1>4, <1>5, <1>6 DEF TakeGuard, Refused, CommandFails

\* Opening the source, reading it, looking at it again.
LEMMA ReadsKeep ==
  ASSUME LocalInv, NEW k \in Commands, OpenSource(k) \/ ReadSource(k) \/ VerifyCopy(k)
  PROVE  LocalInv'
<1>1. cmd[k] \in CommandRecords /\ Checked(cmd[k])
  BY CommandIs
<1>2. UNCHANGED <<tree, bin, given, made>> /\ tree \in [Places -> Int] /\ OwnStays(tree)
  BY DEF OpenSource, ReadSource, VerifyCopy, LocalInv, LocalTypes
<1>3. CASE Done(k)
  BY <1>2, <1>3, DoneMoves, QuietKeeps
<1>4. CASE OpenSource(k) /\ ~Done(k)
  <2> DEFINE c == [cmd[k] EXCEPT !.step = "opened", !.seen = tree[cmd[k].from]]
  <2>1. /\ cmd' = [cmd EXCEPT ![k] = c] /\ IsFile(cmd[k].from)
        /\ cmd[k].step = "checked" /\ Proceeds(k, {"copy", "rename"})
    BY <1>4 DEF OpenSource, Proceeds
  <2>2. /\ cmd[k].from \in Places /\ cmd[k].to \in Places /\ cmd[k].to \notin Own
        /\ cmd[k].from \notin Own /\ cmd[k].to # cmd[k].from
    BY <2>1, ProceedsTells
  <2>3. tree[cmd[k].from] \in Nat /\ tree[cmd[k].from] > 0 /\ tree[cmd[k].from] # 2
    BY <1>2, <2>1, <2>2 DEF IsFile, OwnStays
  <2>4. c \in CommandRecords /\ Checked(c)
    BY <1>1, <2>2, <2>3 DEF Checked, Copying, CommandRecords, CommandSteps
  <2> QED BY <1>2, <2>1, <2>4, CommandMoves, QuietKeeps
<1>5. CASE ReadSource(k)
  <2> DEFINE c == [cmd[k] EXCEPT !.step = "copied",
                          !.read = IF tree[cmd[k].from] = cmd[k].seen THEN cmd[k].seen ELSE Torn]
  <2>1. cmd' = [cmd EXCEPT ![k] = c] /\ cmd[k].step = "opened"
    BY <1>5 DEF ReadSource
  <2>2. (IF tree[cmd[k].from] = cmd[k].seen THEN cmd[k].seen ELSE Torn) \in Int
    BY <1>1 DEF CommandRecords, Torn
  <2>3. c \in CommandRecords /\ Checked(c)
    BY <1>1, <2>1, <2>2 DEF Checked, Copying, CommandRecords, CommandSteps
  <2> QED BY <1>2, <2>1, <2>3, CommandMoves, QuietKeeps
<1>6. CASE VerifyCopy(k) /\ ~Done(k)
  <2>1. cmd[k].step = "copied" /\ cmd[k].read = cmd[k].seen /\ Step(k, "verified")
    BY <1>6 DEF VerifyCopy, SourceAsSeen
  <2>2. Checked([cmd[k] EXCEPT !.step = "verified"])
    BY <1>1, <2>1 DEF Checked, Copying, CommandRecords
  <2> QED BY <1>2, <2>1, <2>2, StepKeeps, QuietKeeps DEF CommandSteps
<1> QED BY <1>3, <1>4, <1>5, <1>6

\* What a step that is not quiet has to show.
LEMMA StepKeepsAll ==
  ASSUME LocalInv, tree' \in [Places -> Int], made' = made \/ made' = made + 1,
         cmd' \in [Commands -> CommandRecords], CommandsAreChecked', Nested(tree'),
         OwnStays(tree'), NoneIsLost'
  PROVE  LocalInv'
<1>1. made' \in Nat /\ made' >= 2
  BY DEF LocalInv, LocalTypes
<1>2. Nested(tree)' /\ OwnStays(tree)'
  BY DEF Nested, OwnStays
<1> QED BY <1>1, <1>2 DEF LocalInv, LocalTypes

\* create_dir and create_file.
LEMMA CreateKeeps == ASSUME LocalInv, NEW k \in Commands, Create(k) PROVE LocalInv'
<1> DEFINE p == cmd[k].to
<1>1. p \in Places /\ p \notin Own
  BY ProceedsTells DEF Create
<1>2. tree \in [Places -> Int] /\ Nested(tree) /\ OwnStays(tree) /\ made \in Nat /\ made >= 2
  BY DEF LocalInv, LocalTypes
<1>3. cmd' \in [Commands -> CommandRecords] /\ CommandsAreChecked' /\ UNCHANGED <<bin, given>>
  BY DoneMoves DEF Create
<1>4. CASE UNCHANGED <<tree, made>>
  BY <1>3, <1>4, QuietKeeps
<1>5. ASSUME NEW v \in Int, tree' = [tree EXCEPT ![p] = v], v # 2, v # Torn,
             tree[p] = EmptyPlace, ParentThere(p),
             made' = made \/ (made' = made + 1 /\ v = made')
      PROVE  LocalInv'
  <2>1. Nested(tree')
    <3>1. tree[p] # FolderThere
      BY <1>5 DEF EmptyPlace, FolderThere
    <3>2. \A q \in Inside(p) : tree[q] = EmptyPlace
      BY <1>1, <1>2, <3>1, NothingInside
    <3> QED BY <1>1, <1>2, <1>5, <3>2, PlaceTaken
  <2>2. OwnStays(tree')
    BY <1>1, <1>2, <1>5, OwnUntouched
  <2>3. \A q \in Places : tree[q] > 0 => tree'[q] = tree[q]
    BY <1>1, <1>2, <1>5 DEF EmptyPlace
  <2>4. made' = made \/ (made' = made + 1 /\ \E q \in Places : tree'[q] = made')
    BY <1>1, <1>2, <1>5
  <2>5. NoneIsLost'
    BY <1>3, <2>3, <2>4, VersionsStay
  <2> QED BY <1>2, <1>3, <1>5, <2>1, <2>2, <2>5, StepKeepsAll
<1>6. CASE /\ tree' = [tree EXCEPT ![p] = FolderThere] /\ made' = made /\ tree[p] = EmptyPlace
           /\ ParentThere(p)
  <2>1. FolderThere \in Int /\ FolderThere # 2 /\ FolderThere # Torn
    BY DEF FolderThere, Torn
  <2> QED BY <1>5, <1>6, <2>1
<1>7. CASE /\ tree' = [tree EXCEPT ![p] = made + 1] /\ made' = made + 1 /\ tree[p] = EmptyPlace
           /\ ParentThere(p)
  <2>1. made + 1 \in Int /\ made + 1 # 2 /\ made + 1 # Torn
    BY <1>2 DEF Torn
  <2> QED BY <1>5, <1>7, <2>1
<1> QED BY <1>4, <1>6, <1>7 DEF Create

\* A target that may be taken: what stands there is given up, and nothing is
\* in it.
LEMMA TargetTaken ==
  ASSUME LocalInv, NEW k \in Commands, NEW file, MayTake(k, file), cmd[k].to \in Places
  PROVE  /\ \A q \in Inside(cmd[k].to) : tree[q] = EmptyPlace
         /\ ParentThere(cmd[k].to)
         /\ tree[cmd[k].to] > 0 => tree[cmd[k].to] \in Replaces(k)
<1>1. tree[cmd[k].to] # FolderThere => \A q \in Inside(cmd[k].to) : tree[q] = EmptyPlace
  BY NothingInside DEF LocalInv
<1> QED BY <1>1 DEF MayTake, Replaces, EmptyPlace

\* A staged copy takes its name.
LEMMA PublishKeeps == ASSUME LocalInv, NEW k \in Commands, PublishCopy(k) PROVE LocalInv'
<1> DEFINE c == cmd[k]
<1>1. /\ c \in CommandRecords /\ Checked(c) /\ c.step = "verified" /\ c.to \in Places
      /\ c.to \notin Own /\ c.seen > 0 /\ c.seen # 2 /\ c.read = c.seen
  BY CommandIs DEF PublishCopy, Checked, Copying
<1>2. tree \in [Places -> Int] /\ Nested(tree) /\ OwnStays(tree) /\ UNCHANGED <<bin, made>>
  BY DEF LocalInv, LocalTypes, PublishCopy
<1>3. cmd' \in [Commands -> CommandRecords] /\ CommandsAreChecked'
  <2>1. CASE Done(k)
    BY <2>1, DoneMoves
  <2>2. CASE c.kind = "rename" /\ Step(k, "published")
    <3>1. Checked([c EXCEPT !.step = "published"])
      BY <1>1, <2>2 DEF Checked, Copying, CommandRecords
    <3> QED BY <2>2, <3>1, StepKeeps DEF CommandSteps
  <2> QED BY <2>1, <2>2 DEF PublishCopy
<1>4. CASE UNCHANGED <<tree, given>>
  BY <1>2, <1>3, <1>4, QuietKeeps
<1>5. CASE /\ MayTake(k, TRUE) /\ tree' = [tree EXCEPT ![c.to] = c.read]
           /\ given' = given \cup Replaces(k)
  <2>1. /\ \A q \in Inside(c.to) : tree[q] = EmptyPlace
        /\ ParentThere(c.to) /\ (tree[c.to] > 0 => tree[c.to] \in Replaces(k))
    BY <1>1, <1>5, TargetTaken
  <2>2. c.read \in Int /\ c.read # 2 /\ c.read # Torn
    BY <1>1 DEF CommandRecords, Torn
  <2>3. Nested(tree')
    BY <1>1, <1>2, <1>5, <2>1, <2>2, PlaceTaken
  <2>4. OwnStays(tree')
    BY <1>1, <1>2, <1>5, <2>2, OwnUntouched
  <2>5. \A q \in Places : tree[q] > 0 => tree[q] \in given' \/ tree'[q] = tree[q]
    BY <1>1, <1>2, <1>5, <2>1
  <2>6. NoneIsLost'
    BY <1>2, <1>5, <2>5, VersionsStay
  <2> QED BY <1>2, <1>3, <1>5, <2>2, <2>3, <2>4, <2>6, StepKeepsAll
<1> QED BY <1>4, <1>5 DEF PublishCopy

\* The source of a move goes: its version is at the target.
LEMMA RemoveKeeps == ASSUME LocalInv, NEW k \in Commands, RemoveMovedSource(k) PROVE LocalInv'
<1> DEFINE c == cmd[k]
<1>1. /\ c.from \in Places /\ c.to \in Places /\ c.from # c.to /\ c.from \notin Own
      /\ c.seen > 0 /\ c.read = c.seen /\ c.seen \in Nat
  BY CommandIs DEF RemoveMovedSource, Checked, Copying, CommandRecords
<1>2. /\ tree \in [Places -> Int] /\ Nested(tree) /\ OwnStays(tree)
      /\ UNCHANGED <<bin, given, made>>
  BY DEF LocalInv, LocalTypes, RemoveMovedSource
<1>3. cmd' \in [Commands -> CommandRecords] /\ CommandsAreChecked'
  BY DoneMoves DEF RemoveMovedSource
<1>4. CASE tree' = tree
  BY <1>2, <1>3, <1>4, QuietKeeps
<1>5. CASE SourceMayGo(k) /\ tree' = [tree EXCEPT ![c.from] = EmptyPlace]
  <2>1. tree[c.from] = c.seen /\ tree[c.to] = c.seen /\ tree[c.from] # FolderThere
    BY <1>1, <1>5 DEF SourceMayGo, FolderThere
  <2>2. Nested(tree')
    BY <1>1, <1>2, <1>5, <2>1, NothingInside, PlaceEmptied
  <2>3. OwnStays(tree')
    <3>1. EmptyPlace \in Int /\ EmptyPlace # 2 /\ EmptyPlace # Torn
      BY DEF EmptyPlace, Torn
    <3> QED BY <1>1, <1>2, <1>5, <3>1, OwnUntouched
  <2>4. tree'[c.to] = c.seen
    BY <1>1, <1>2, <1>5, <2>1
  <2>5. \A q \in Places : tree[q] > 0 => \E p \in Places : tree'[p] = tree[q]
    BY <1>1, <1>2, <1>5, <2>1, <2>4
  <2>6. NoneIsLost'
    BY <1>2, <2>5, VersionsStay
  <2>7. tree' \in [Places -> Int]
    <3>1. EmptyPlace \in Int
      BY DEF EmptyPlace
    <3> QED BY <1>2, <1>5, <3>1
  <2> QED BY <1>2, <1>3, <2>2, <2>3, <2>6, <2>7, StepKeepsAll
<1> QED BY <1>4, <1>5 DEF RemoveMovedSource

\* fs_delete_permanently, one thing after the other.
LEMMA DeleteKeeps == ASSUME LocalInv, NEW k \in Commands, DeleteOne(k) PROVE LocalInv'
<1> DEFINE c == cmd[k]
<1>1. c.from \in Places /\ c.step = "deleting" /\ \A own \in Own : ~Within(own, c.from)
  BY CommandIs DEF DeleteOne, Checked
<1>2. tree \in [Places -> Int] /\ Nested(tree) /\ OwnStays(tree) /\ UNCHANGED <<bin, made>>
  BY DEF LocalInv, LocalTypes, DeleteOne
<1>3. cmd' \in [Commands -> CommandRecords] /\ CommandsAreChecked'
  <2>1. CASE Done(k)
    BY <2>1, DoneMoves
  <2>2. CASE UNCHANGED cmd
    BY <2>2 DEF LocalInv, LocalTypes, CommandsAreChecked, Checked
  <2> QED BY <2>1, <2>2 DEF DeleteOne
<1>4. CASE UNCHANGED <<tree, given>>
  BY <1>2, <1>3, <1>4, QuietKeeps
<1>5. ASSUME NEW p \in Inside(c.from) \cup {c.from}, \A q \in Inside(p) : tree[q] = EmptyPlace,
             tree' = [tree EXCEPT ![p] = EmptyPlace],
             given' = IF tree[p] > 0 THEN given \cup {tree[p]} ELSE given
      PROVE  LocalInv'
  <2>1. p \in Places /\ p \notin Own
    BY <1>1, PlacesArePaths, WithinIsOrder DEF Inside
  <2>2. Nested(tree')
    BY <1>2, <1>5, <2>1, PlaceEmptied
  <2>3. OwnStays(tree')
    <3>1. EmptyPlace \in Int /\ EmptyPlace # 2 /\ EmptyPlace # Torn
      BY DEF EmptyPlace, Torn
    <3> QED BY <1>2, <1>5, <2>1, <3>1, OwnUntouched
  <2>4. \A q \in Places : tree[q] > 0 => tree[q] \in given' \/ tree'[q] = tree[q]
    BY <1>2, <1>5, <2>1
  <2>5. NoneIsLost'
    BY <1>2, <1>5, <2>4, VersionsStay
  <2>6. tree' \in [Places -> Int]
    <3>1. EmptyPlace \in Int
      BY DEF EmptyPlace
    <3> QED BY <1>2, <1>5, <3>1
  <2> QED BY <1>2, <1>3, <2>2, <2>3, <2>5, <2>6, StepKeepsAll
<1> QED BY <1>4, <1>5 DEF DeleteOne

\* fs_move_to_recycle_bin: all of it, to the bin.
LEMMA BinKeeps == ASSUME LocalInv, NEW k \in Commands, MoveToBin(k) PROVE LocalInv'
<1> DEFINE c == cmd[k]
           binned == {q \in Places : Within(q, c.from)}
<1>1. c.from \in Places /\ \A own \in Own : ~Within(own, c.from)
  BY ProceedsTells DEF MoveToBin
<1>2. tree \in [Places -> Int] /\ Nested(tree) /\ OwnStays(tree) /\ UNCHANGED <<given, made>>
  BY DEF LocalInv, LocalTypes, MoveToBin
<1>3. cmd' \in [Commands -> CommandRecords] /\ CommandsAreChecked'
  BY DoneMoves DEF MoveToBin
<1>4. CASE UNCHANGED <<tree, bin>>
  BY <1>2, <1>3, <1>4, QuietKeeps
<1>5. CASE ~UNCHANGED <<tree, bin>>
  <2>1. /\ tree' = [p \in Places |-> IF p \in binned THEN EmptyPlace ELSE tree[p]]
        /\ bin' = bin \cup {tree[q] : q \in {r \in binned : tree[r] > 0}}
    BY <1>5 DEF MoveToBin, BinTakes
  <2>2. \A p \in binned : Inside(p) \subseteq binned
    BY <1>1, PlacesArePaths, WithinIsOrder DEF Inside
  <2>3. \A p \in binned : p \notin Own
    BY <1>1
  <2> HIDE DEF binned
  <2>4. Nested(tree')
    BY <1>2, <2>1, <2>2, PlacesEmptied
  <2>5. tree' \in [Places -> Int]
             /\ \A p \in Places : tree'[p] = IF p \in binned THEN EmptyPlace ELSE tree[p]
    BY <1>2, <2>1 DEF EmptyPlace
  <2>6. OwnStays(tree')
    BY <1>2, <2>3, <2>5 DEF OwnStays, EmptyPlace, Torn
  <2>7. \A q \in Places : tree[q] > 0 => tree[q] \in bin' \/ tree'[q] = tree[q]
    BY <2>1, <2>5
  <2>8. NoneIsLost'
    BY <1>2, <2>1, <2>7, VersionsStay
  <2> QED BY <1>2, <1>3, <2>4, <2>5, <2>6, <2>8, StepKeepsAll
<1> QED BY <1>4, <1>5

\* A rename, of a file or of a folder with all that is in it.
LEMMA RenameKeeps == ASSUME LocalInv, NEW k \in Commands, RenameLocal(k) PROVE LocalInv'
<1> DEFINE c == cmd[k]
           t == [p \in Places |->
                   IF \E q \in Moved(c) : Image(c, q) = p
                     THEN tree[CHOOSE q \in Moved(c) : Image(c, q) = p]
                     ELSE IF Within(p, c.from) THEN EmptyPlace ELSE tree[p]]
<1>1. /\ c.from \in Places /\ c.to \in Places /\ c.to \notin Own
      /\ ~Within(c.to, c.from) /\ \A own \in Own : ~Within(own, c.from)
  BY ProceedsTells DEF RenameLocal
<1>2. tree \in [Places -> Int] /\ Nested(tree) /\ OwnStays(tree) /\ UNCHANGED <<bin, made>>
  BY DEF LocalInv, LocalTypes, RenameLocal
<1>3. cmd' \in [Commands -> CommandRecords] /\ CommandsAreChecked'
  BY DoneMoves DEF RenameLocal
<1>4. CASE UNCHANGED <<tree, given>>
  BY <1>2, <1>3, <1>4, QuietKeeps
<1>5. CASE ~UNCHANGED <<tree, given>>
  <2>1. /\ MayTake(k, IsFile(c.from)) /\ \A q \in Moved(c) : Image(c, q) \in Places
        /\ tree' = t /\ given' = given \cup Replaces(k)
    BY <1>5 DEF RenameLocal
  <2>2. /\ \A q \in Inside(c.to) : tree[q] = EmptyPlace
        /\ ParentThere(c.to) /\ (tree[c.to] > 0 => tree[c.to] \in Replaces(k))
    BY <1>1, <2>1, TargetTaken
  <2>3. \A p \in Places : t[p] = IF \E q \in Moved(c) : Image(c, q) = p
                     THEN tree[CHOOSE q \in Moved(c) : Image(c, q) = p]
                     ELSE IF Within(p, c.from) THEN EmptyPlace ELSE tree[p]
    OBVIOUS
  <2> HIDE DEF c, t
  <2>4. \A q \in Moved(c) : q \in Places /\ Within(q, c.from) /\ tree[q] # EmptyPlace
    BY DEF Moved
  <2>5. ASSUME NEW m \in Moved(c) PROVE Image(c, m) \in Places /\ t[Image(c, m)] = tree[m]
    <3> DEFINE a == CHOOSE q \in Moved(c) : Image(c, q) = Image(c, m)
    <3>1. a \in Moved(c) /\ Image(c, a) = Image(c, m)
      OBVIOUS
    <3>2. a = m
      BY <1>1, <2>4, <3>1, ImagesAreApart
    <3> QED BY <2>1, <2>3, <3>2
  <2>6. ASSUME NEW p \in Places, \A q \in Moved(c) : Image(c, q) # p
        PROVE  t[p] = IF Within(p, c.from) THEN EmptyPlace ELSE tree[p]
    BY <2>3, <2>6
  <2>7. \A m \in Moved(c) : Within(Image(c, m), c.to)
    BY <1>1, <2>4, ImageIsWithin
  <2>8. \A m \in Moved(c) : Image(c, m) = c.to \/ tree[Image(c, m)] = EmptyPlace
    BY <2>1, <2>2, <2>7 DEF Inside
  <2>9. \A p \in Places : p \in Seq(STRING) /\ Len(p) \in Nat
    BY PlacesArePaths
  <2>10. ASSUME NEW a \in Places, NEW q \in Inside(a), t[q] # EmptyPlace PROVE t[a] = FolderThere
    <3>1. q \in Places /\ Within(q, a) /\ q # a
      BY DEF Inside
    <3>2. CASE \E m \in Moved(c) : Image(c, m) = q
      <4>1. PICK m \in Moved(c) : Image(c, m) = q
        BY <3>2
      <4>2. m \in Places /\ Within(m, c.from) /\ tree[m] # EmptyPlace /\ Within(q, c.to)
        BY <2>4, <2>7, <4>1
      <4>3. CASE Len(c.to) <= Len(a)
        <5>1. PICK p \in Places : Within(p, c.from) /\ Within(m, p) /\ Image(c, p) = a
          BY <1>1, <3>1, <4>1, <4>2, <4>3, AboveImage
        <5>2. m \in Inside(p)
          BY <3>1, <4>1, <4>2, <5>1 DEF Inside
        <5>3. tree[p] = FolderThere
          BY <1>2, <4>2, <5>2 DEF Nested
        <5>4. p \in Moved(c)
          BY <5>1, <5>3 DEF Moved, FolderThere, EmptyPlace
        <5> QED BY <2>5, <5>1, <5>3, <5>4
      <4>4. CASE Len(a) < Len(c.to)
        <5>1. Within(c.to, a) /\ c.to # a
          BY <1>1, <2>9, <3>1, <4>2, <4>4, WithinIsOrder
        <5>2. c.to \in Inside(a)
          BY <1>1, <5>1 DEF Inside
        <5>3. Parent(c.to) \in Places /\ (Parent(c.to) = a \/ Parent(c.to) \in Inside(a))
          BY <5>2, ParentBetween
        <5>4. tree[a] = FolderThere
          BY <1>2, <2>2, <5>3 DEF ParentThere, Nested, FolderThere, EmptyPlace
        <5>5. \A n \in Moved(c) : Image(c, n) # a
          <6>1. ~Within(a, c.to)
            BY <4>4, <2>9, <1>1 DEF Within
          <6> QED BY <2>7, <6>1
        <5>6. ~Within(a, c.from)
          BY <1>1, <2>9, <5>1, WithinIsOrder
        <5> QED BY <2>6, <5>4, <5>5, <5>6
      <4> QED BY <1>1, <2>9, <4>3, <4>4
    <3>3. CASE \A m \in Moved(c) : Image(c, m) # q
      <4>1. ~Within(q, c.from) /\ tree[q] # EmptyPlace
        BY <2>6, <2>10, <3>1, <3>3
      <4>2. tree[a] = FolderThere
        BY <1>2, <4>1 DEF Nested
      <4>3. ~Within(a, c.from)
        BY <1>1, <2>9, <3>1, <4>1, WithinIsOrder
      <4>4. ~Within(a, c.to)
        <5>1. SUFFICES ASSUME Within(a, c.to) PROVE FALSE
          OBVIOUS
        <5>2. Within(q, c.to)
          BY <1>1, <2>9, <3>1, <5>1, WithinIsOrder
        <5>3. q # c.to
          BY <2>9, <3>1, <5>1, WithinIsOrder DEF Within
        <5>4. q \in Inside(c.to)
          BY <3>1, <5>2, <5>3 DEF Inside
        <5> QED BY <2>2, <4>1, <5>4
      <4>5. \A m \in Moved(c) : Image(c, m) # a
        BY <2>7, <4>4
      <4> QED BY <2>6, <4>2, <4>3, <4>5
    <3> QED BY <3>2, <3>3
  <2>11. Nested(t)
    BY <2>10 DEF Nested
  <2>12. \A p \in Places : t[p] \in Int /\ t[p] # Torn /\ (p \in Own <=> t[p] = 2)
    <3>1. ASSUME NEW m \in Moved(c)
          PROVE  /\ t[Image(c, m)] \in Int /\ t[Image(c, m)] # Torn
                 /\ Image(c, m) \notin Own /\ t[Image(c, m)] # 2
      <4>1. m \in Places /\ m \notin Own
        BY <1>1, <2>4
      <4>2. tree[m] \in Int /\ tree[m] # Torn /\ tree[m] # 2
        BY <1>2, <4>1 DEF OwnStays
      <4>3. Image(c, m) \notin Own
        BY <1>1, <1>2, <2>5, <2>8 DEF OwnStays, EmptyPlace
      <4> QED BY <2>5, <4>2, <4>3
    <3>2. ASSUME NEW p \in Places, \A q \in Moved(c) : Image(c, q) # p
          PROVE  t[p] \in Int /\ t[p] # Torn /\ (p \in Own <=> t[p] = 2)
      <4>1. tree[p] \in Int /\ tree[p] # Torn /\ (p \in Own <=> tree[p] = 2)
        BY <1>2 DEF OwnStays
      <4>2. Within(p, c.from) => p \notin Own
        BY <1>1
      <4> QED BY <2>6, <3>2, <4>1, <4>2 DEF EmptyPlace, Torn
    <3> QED BY <3>1, <3>2
  <2>13. t \in [Places -> Int] /\ OwnStays(t)
    <3>1. t = [p \in Places |-> t[p]]
      BY DEF t
    <3>2. t \in [Places -> Int]
      BY <2>12, <3>1
    <3> QED BY <2>12, <3>2 DEF OwnStays
  <2>14. ASSUME NEW p \in Places, tree[p] > 0
         PROVE  tree[p] \in given' \/ \E q \in Places : t[q] = tree[p]
    <3>1. CASE Within(p, c.from)
      <4>1. p \in Moved(c)
        BY <2>14, <3>1 DEF Moved, EmptyPlace
      <4> QED BY <2>5, <4>1
    <3>2. CASE \E m \in Moved(c) : Image(c, m) = p
      <4>1. p = c.to
        BY <2>8, <2>14, <3>2 DEF EmptyPlace
      <4> QED BY <2>1, <2>2, <2>14, <4>1
    <3>3. CASE ~Within(p, c.from) /\ \A m \in Moved(c) : Image(c, m) # p
      BY <2>6, <3>3
    <3> QED BY <3>1, <3>2, <3>3
  <2>15. NoneIsLost'
    <3>1. given \subseteq given' /\ bin \subseteq bin' /\ made' = made
      BY <1>2, <2>1
    <3> QED BY <2>1, <2>14, <3>1, VersionsStay
  <2> QED BY <1>2, <1>3, <2>1, <2>11, <2>13, <2>15, StepKeepsAll
<1> QED BY <1>4, <1>5

\* Another program saves, makes or removes a file.
LEMMA OthersKeep == ASSUME LocalInv, NEW p \in Places, OthersWrite(p) PROVE LocalInv'
<1>1. /\ tree \in [Places -> Int] /\ Nested(tree) /\ OwnStays(tree) /\ made \in Nat /\ made >= 2
      /\ p \notin Own /\ ParentThere(p) /\ tree[p] >= 0 /\ made' = made + 1
      /\ UNCHANGED <<bin, cmd>>
  BY DEF LocalInv, LocalTypes, OthersWrite
<1>2. \A q \in Inside(p) : tree[q] = EmptyPlace
  BY <1>1, NothingInside DEF FolderThere
<1>3. cmd' \in [Commands -> CommandRecords] /\ CommandsAreChecked'
  BY <1>1 DEF LocalInv, LocalTypes, CommandsAreChecked, Checked
<1>4. CASE tree' = [tree EXCEPT ![p] = made'] /\ given' = (given \cup {tree[p]}) \ {EmptyPlace}
  <2>1. made' \in Int /\ made' # 2 /\ made' # Torn
    BY <1>1 DEF Torn
  <2>2. Nested(tree')
    BY <1>1, <1>2, <1>4, <2>1, PlaceTaken
  <2>3. OwnStays(tree')
    BY <1>1, <1>4, <2>1, OwnUntouched
  <2>4. tree'[p] = made'
    BY <1>1, <1>4
  <2>5. \A q \in Places : tree[q] > 0 => tree[q] \in given' \/ tree'[q] = tree[q]
    BY <1>1, <1>4 DEF EmptyPlace
  <2>6. NoneIsLost'
    <3>1. ASSUME NEW v \in 1 .. made' PROVE v \in given' \cup bin'
                      \/ \E q \in Places : tree'[q] = v
      <4>1. CASE v = made'
        BY <2>4, <4>1
      <4>2. CASE v # made'
        <5>1. v \in 1 .. made /\ v # EmptyPlace /\ v > 0
          BY <1>1, <4>2 DEF EmptyPlace
        <5>2. v \in given \cup bin \/ \E q \in Places : tree[q] = v
          BY <5>1 DEF LocalInv, NoneIsLost
        <5> QED BY <1>1, <1>4, <2>5, <5>1, <5>2
      <4> QED BY <4>1, <4>2
    <3> QED BY <3>1 DEF NoneIsLost
  <2> QED BY <1>1, <1>3, <1>4, <2>1, <2>2, <2>3, <2>6, StepKeepsAll
<1>5. CASE tree' = [tree EXCEPT ![p] = EmptyPlace] /\ given' = given \cup {tree[p], made'}
  <2>1. EmptyPlace \in Int /\ EmptyPlace # 2 /\ EmptyPlace # Torn
    BY DEF EmptyPlace, Torn
  <2>2. Nested(tree')
    BY <1>1, <1>2, <1>5, PlaceEmptied
  <2>3. OwnStays(tree')
    BY <1>1, <1>5, <2>1, OwnUntouched
  <2>4. \A q \in Places : tree[q] > 0 => tree[q] \in given' \/ tree'[q] = tree[q]
    BY <1>1, <1>5
  <2>5. NoneIsLost'
    BY <1>1, <1>5, <2>4, VersionsStay
  <2> QED BY <1>1, <1>3, <1>5, <2>1, <2>2, <2>3, <2>5, StepKeepsAll
<1> QED BY <1>4, <1>5 DEF OthersWrite
-----------------------------------------------------------------------------
\* What stands there first.
LEMMA LocalInvInit == LocalInit => LocalInv
<1> SUFFICES ASSUME LocalInit PROVE LocalInv
  OBVIOUS
<1>1. LocalTypes
  <2>1. tree \in [Places -> Int]
    BY DEF LocalInit, EmptyPlace, FolderThere, LinkThere
  <2>2. /\ "none" \in CommandSteps /\ "mkdir" \in CommandKinds /\ <<>> \in Places \cup {<<>>}
        /\ 0 \in Nat /\ 0 \in Int /\ 0 \in 0 .. 1
    BY DEF CommandSteps, CommandKinds
  <2>3. NoCommand \in CommandRecords
    BY <2>2 DEF CommandRecords, NoCommand
  <2> QED BY <2>1, <2>3 DEF LocalTypes, LocalInit
<1>2. CommandsAreChecked
  BY DEF CommandsAreChecked, LocalInit, NoCommand, Checked, Copying
<1>3. Nested(tree) /\ NoneIsLost
  BY DEF LocalInit, NoneIsLost
<1>4. OwnStays(tree)
  BY DEF LocalInit, OwnStays, EmptyPlace, FolderThere, LinkThere, Torn
<1> QED BY <1>1, <1>2, <1>3, <1>4 DEF LocalInv

(* Every step of every command and of other programs keeps it. *)
LEMMA LocalInvStep == LocalInv /\ [LocalNext]_localVars => LocalInv'
<1> SUFFICES ASSUME LocalInv, [LocalNext]_localVars PROVE LocalInv'
  OBVIOUS
<1>1. ASSUME NEW k \in Commands, CommandNext(k) PROVE LocalInv'
  <2>1. CASE Call(k)
    BY <2>1, CallKeeps
  <2>2. CASE TakeGuard(k) \/ Refused(k) \/ CommandFails(k) \/ StartDelete(k) \/ DeleteBusy(k)
    BY <2>2, QuietSteps
  <2>3. CASE OpenSource(k) \/ ReadSource(k) \/ VerifyCopy(k)
    BY <2>3, ReadsKeep
  <2>4. CASE Create(k)
    BY <2>4, CreateKeeps
  <2>5. CASE RenameLocal(k)
    BY <2>5, RenameKeeps
  <2>6. CASE PublishCopy(k)
    BY <2>6, PublishKeeps
  <2>7. CASE RemoveMovedSource(k)
    BY <2>7, RemoveKeeps
  <2>8. CASE DeleteOne(k)
    BY <2>8, DeleteKeeps
  <2>9. CASE MoveToBin(k)
    BY <2>9, BinKeeps
  <2> QED BY <1>1, <2>1, <2>2, <2>3, <2>4, <2>5, <2>6, <2>7, <2>8, <2>9 DEF CommandNext
<1>2. ASSUME NEW p \in Places, OthersWrite(p) PROVE LocalInv'
  BY <1>2, OthersKeep
<1>3. CASE UNCHANGED localVars
  <2>1. UNCHANGED <<tree, bin, given, made, cmd>>
    BY <1>3 DEF localVars
  <2> QED BY <2>1 DEF LocalInv, LocalTypes, CommandsAreChecked, Checked, NoneIsLost, OwnStays,
      Nested
<1> QED BY <1>1, <1>2, <1>3 DEF LocalNext

(* Whatever commands, failures and other programs' saves interleave, a file's  *)
(* content is at some path or in the bin unless it was given up, no torn copy  *)
(* takes a name, and the program's own files stay: for any tree, any links in  *)
(* it, any commands and any number of saves (commands/fs.rs, local_fs/).       *)
THEOREM FilesAreKept == LocalSpec => []FilesSurvive
<1>1. LocalInv => FilesSurvive
  BY DEF LocalInv, NoneIsLost, OwnStays, FilesSurvive
<1> QED BY <1>1, LocalInvInit, LocalInvStep, PTL DEF LocalSpec
=============================================================================
