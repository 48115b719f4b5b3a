------------------------------ MODULE SetAside ------------------------------
(***************************************************************************)
(* Replacing a file on a server that will not rename over one              *)
(* (protocol/set_aside.rs).  The old file is renamed aside, the whole      *)
(* staging file takes its name, the old one is removed; it is put back     *)
(* when the second rename fails.  A reply may be lost with or without its  *)
(* effect, a Pause or a Stop drops the attempt while it waits for one, the *)
(* application may end at any moment.  A record says what to put back: in  *)
(* memory, and on disk once it is stranded.                                *)
(*                                                                         *)
(* One name on one server, and uploads to it over one session.             *)
(***************************************************************************)
EXTENDS Naturals

CONSTANTS
    Stagings,        \* the uploads, each with its staging file
    MaxReplacements, \* bound: attempts of each upload
    MaxCrashes,      \* bound: ends of the application
    SizesAnswered    \* bound: whether a question for a size is always answered

Asides == UNION {{s} \X (1 .. MaxReplacements[s]) : s \in Stagings}
Nothing == "nothing"
NoAside == <<>>
Versions == {"old", "foreign"} \cup Stagings
NoEntry == [aside |-> NoAside, stranded |-> FALSE]

ASSUME SetAsideAssumption ==
    /\ MaxReplacements \in [Stagings -> Nat] /\ MaxCrashes \in Nat
    /\ SizesAnswered \in BOOLEAN /\ Nothing \notin Stagings

VARIABLES
    nameHolds,    \* the version at the name
    partials,     \* the staging files on the server
    hidden,       \* the version under each hidden name
    setAside,     \* SET_ASIDE, by staging file
    keptStranded, \* stranded-replacements.json
    upPc,         \* where each attempt is
    upTry,        \* attempts of each upload
    doomed,       \* the hidden file an attempt is about to remove
    pane,         \* the session: down, restoring, up or closing
    stranding,    \* stranded_on's answer that put_back_stranded has left
    appUp,
    crashes,
    unrecorded,   \* history: hidden names whose record was cut off
    landed,       \* history: uploads that have taken the name
    lastHidden    \* history: the hidden name the name was last emptied for

setAsideVars == <<nameHolds, partials, hidden, setAside, keptStranded, upPc, upTry,
                  doomed, pane, stranding, appUp, crashes, unrecorded, landed, lastHidden>>
serverFiles == <<nameHolds, partials, hidden, landed, lastHidden>>
records == <<setAside, keptStranded, unrecorded>>
sessionVars == <<pane, stranding, appUp, crashes>>

Moving == {"move", "aside", "over", "restore"}
Working == Moving \cup {"clear", "lost", "cleanup", "strand"}

SetAsideTypeOK ==
    /\ nameHolds \in Versions \cup {Nothing}
    /\ partials \subseteq Stagings
    /\ hidden \in [Asides -> Versions \cup {Nothing}]
    /\ setAside \in [Stagings -> [aside : Asides \cup {NoAside}, stranded : BOOLEAN]]
    /\ keptStranded \in [Stagings -> Asides \cup {NoAside}]
    /\ upPc \in [Stagings -> Working \cup {"idle", "paused", "done"}]
    /\ \A s \in Stagings : upTry[s] \in 0 .. MaxReplacements[s]
    /\ doomed \in [Stagings -> Asides \cup {NoAside}]
    /\ pane \in {"down", "restoring", "up", "closing"} /\ stranding \subseteq Stagings
    /\ appUp \in BOOLEAN /\ crashes \in 0 .. MaxCrashes
    /\ unrecorded \subseteq Asides /\ landed \subseteq Stagings
    /\ lastHidden \in Asides \cup {NoAside}

SetAsideInit ==
    /\ nameHolds = "old" /\ partials = {} /\ hidden = [a \in Asides |-> Nothing]
    /\ setAside = [s \in Stagings |-> NoEntry]
    /\ keptStranded = [s \in Stagings |-> NoAside]
    /\ upPc = [s \in Stagings |-> "idle"] /\ upTry = [s \in Stagings |-> 0]
    /\ doomed = [s \in Stagings |-> NoAside]
    /\ pane = "up" /\ stranding = {} /\ appUp = TRUE /\ crashes = 0
    /\ unrecorded = {} /\ landed = {} /\ lastHidden = NoAside
-----------------------------------------------------------------------------
NewAside(s) == <<s, upTry[s]>>
Recorded(s) == setAside[s].aside # NoAside

\* settle: the record goes, and from disk too if it was stranded.
Settle(s) ==
    /\ setAside' = [setAside EXCEPT ![s] = NoEntry]
    /\ keptStranded' =
        IF setAside[s].stranded THEN [keptStranded EXCEPT ![s] = NoAside] ELSE keptStranded
    /\ UNCHANGED unrecorded

\* rename_no_replace on the server: refused when the new name is taken.
Publish(s) ==
    /\ nameHolds = Nothing /\ s \in partials
    /\ nameHolds' = s /\ partials' = partials \ {s} /\ landed' = landed \cup {s}
    /\ UNCHANGED <<hidden, lastHidden>>

HideOld(s) ==
    /\ nameHolds # Nothing
    /\ nameHolds' = Nothing /\ hidden' = [hidden EXCEPT ![NewAside(s)] = nameHolds]
    /\ lastHidden' = NewAside(s)
    /\ UNCHANGED <<partials, landed>>

PutBack(a) ==
    /\ nameHolds = Nothing /\ hidden[a] # Nothing
    /\ nameHolds' = hidden[a] /\ hidden' = [hidden EXCEPT ![a] = Nothing]
    /\ UNCHANGED <<partials, landed, lastHidden>>

RemoveHidden(a) ==
    /\ a # NoAside
    /\ hidden' = [hidden EXCEPT ![a] = Nothing]
    /\ UNCHANGED <<nameHolds, partials, landed, lastHidden>>

\* What the request an attempt waits for does on the server.
Request(s) ==
    CASE upPc[s] \in {"move", "over"} -> Publish(s)
      [] upPc[s] = "aside" -> HideOld(s)
      [] upPc[s] = "restore" -> PutBack(NewAside(s))
      [] upPc[s] = "clear" -> RemoveHidden(doomed[s])

Goto(s, to) == upPc' = [upPc EXCEPT ![s] = to]
-----------------------------------------------------------------------------
\* upload_staged up to its rename: the staging file is whole.
StageWhole(s) ==
    /\ appUp /\ pane = "up" /\ upPc[s] \in {"idle", "paused"} /\ upTry[s] < MaxReplacements[s]
    /\ upTry' = [upTry EXCEPT ![s] = @ + 1]
    /\ partials' = partials \cup {s}
    /\ Goto(s, "move")
    /\ UNCHANGED <<nameHolds, hidden, landed, lastHidden, records, doomed, sessionVars>>

\* backend.rename: it takes a free name, and remove_set_aside then takes the
\* record of an earlier attempt; a refusal over a file leads to setting aside.
Rename(s) ==
    /\ upPc[s] = "move"
    /\ \/ /\ Publish(s) /\ Settle(s)
          /\ doomed' = [doomed EXCEPT ![s] = setAside[s].aside] /\ Goto(s, "clear")
       \/ nameHolds # Nothing /\ Goto(s, "aside") /\ UNCHANGED <<serverFiles, records, doomed>>
    /\ UNCHANGED <<upTry, sessionVars>>

RenameAside(s) ==
    /\ upPc[s] = "aside"
    /\ \/ /\ HideOld(s) /\ Goto(s, "over")
          /\ setAside' = [setAside EXCEPT ![s] = [aside |-> NewAside(s), stranded |-> FALSE]]
          /\ UNCHANGED <<keptStranded, unrecorded>>
       \/ Goto(s, "cleanup") /\ UNCHANGED <<serverFiles, records>>
    /\ UNCHANGED <<upTry, doomed, sessionVars>>

RenameOver(s) ==
    /\ upPc[s] = "over"
    /\ \/ /\ Publish(s) /\ Settle(s)
          /\ doomed' = [doomed EXCEPT ![s] = NewAside(s)] /\ Goto(s, "clear")
       \/ Goto(s, "restore") /\ UNCHANGED <<serverFiles, records, doomed>>
    /\ UNCHANGED <<upTry, sessionVars>>

Restore(s) ==
    /\ upPc[s] = "restore" /\ Goto(s, "cleanup")
    /\ \/ PutBack(NewAside(s)) /\ Settle(s)
       \/ UNCHANGED <<serverFiles, records>>
    /\ UNCHANGED <<upTry, doomed, sessionVars>>

\* The new version is in: the old one goes, or stays behind with a warning.
RemoveOld(s) ==
    /\ upPc[s] = "clear" /\ Goto(s, "done")
    /\ RemoveHidden(doomed[s]) \/ UNCHANGED serverFiles
    /\ doomed' = [doomed EXCEPT ![s] = NoAside]
    /\ UNCHANGED <<records, upTry, sessionVars>>

\* A request ends without its reply, with or without its effect: the hidden
\* name a first rename made is then in no record.
Unanswered(s) ==
    /\ upPc[s] \in Moving \cup {"clear"}
    /\ \/ /\ Request(s)
          /\ unrecorded' =
                IF upPc[s] = "aside" THEN unrecorded \cup {NewAside(s)} ELSE unrecorded
       \/ UNCHANGED <<serverFiles, unrecorded>>
    /\ UNCHANGED <<setAside, keptStranded>>

LoseConnection(s) ==
    /\ Unanswered(s)
    /\ Goto(s, IF upPc[s] = "clear" THEN "done" ELSE "lost")
    /\ UNCHANGED <<upTry, doomed, sessionVars>>

\* A Pause keeps the attempt's staging file for the next one, a Stop cleans up.
DropAttempt(s) ==
    /\ Unanswered(s)
    /\ Goto(s, "paused") \/ Goto(s, "cleanup")
    /\ UNCHANGED <<upTry, doomed, sessionVars>>

\* Mutant: a file at the name is taken for the upload's own.
LookAtName(s) ==
    /\ upPc[s] = "lost"
    /\ \/ /\ pane = "up" /\ nameHolds # Nothing
          /\ doomed' = [doomed EXCEPT ![s] = setAside[s].aside]
          /\ Goto(s, "clear") /\ Settle(s)
       \/ nameHolds = Nothing /\ Goto(s, "cleanup") /\ UNCHANGED <<records, doomed>>
    /\ UNCHANGED <<serverFiles, upTry, sessionVars>>

\* published_anyway: the name holds a file of the right size and the staging
\* file has none.  A question nobody answers counts as no size.
LookAfterLoss(s) ==
    /\ upPc[s] = "lost"
    /\ \/ /\ pane = "up" /\ nameHolds # Nothing /\ (s \notin partials \/ ~SizesAnswered)
          /\ doomed' = [doomed EXCEPT ![s] = setAside[s].aside]
          /\ Goto(s, "clear") /\ Settle(s)
       \/ /\ ~(pane = "up" /\ nameHolds = s /\ s \notin partials)
          /\ Goto(s, "cleanup") /\ UNCHANGED <<records, doomed>>
    /\ UNCHANGED <<serverFiles, upTry, sessionVars>>
-----------------------------------------------------------------------------
\* Mutant: the record goes whether or not the old file came back.
ForgetAfterTrying(s) ==
    \/ /\ ~Recorded(s) /\ UNCHANGED <<nameHolds, hidden, landed, lastHidden, records>>
       /\ partials' \in {partials, partials \ {s}}
    \/ Recorded(s) /\ (PutBack(setAside[s].aside) \/ UNCHANGED serverFiles) /\ Settle(s)

\* put_back_set_aside, then the removal of the staging file, over the browsing
\* connection.  The staging file stays when the put-back failed.
PutBackThenRemove(s) ==
    \/ /\ ~Recorded(s) /\ UNCHANGED <<nameHolds, hidden, landed, lastHidden, records>>
       /\ partials' \in {partials, partials \ {s}}
    \/ /\ Recorded(s) /\ nameHolds = Nothing /\ hidden[setAside[s].aside] # Nothing
       /\ nameHolds' = hidden[setAside[s].aside]
       /\ hidden' = [hidden EXCEPT ![setAside[s].aside] = Nothing]
       /\ Settle(s) /\ partials' \in {partials, partials \ {s}}
       /\ UNCHANGED <<landed, lastHidden>>
    \/ /\ Recorded(s) /\ (nameHolds # Nothing \/ hidden[setAside[s].aside] = Nothing)
       /\ Settle(s) /\ UNCHANGED serverFiles
    \/ /\ Recorded(s)
       /\ PutBack(setAside[s].aside) \/ UNCHANGED serverFiles
       /\ UNCHANGED records

\* settle_upload's cleanup.  Without a session there is nothing to try with.
CleanUp(s) ==
    /\ upPc[s] = "cleanup" /\ Goto(s, "strand")
    /\ IF pane = "up" THEN PutBackThenRemove(s) ELSE UNCHANGED <<serverFiles, records>>
    /\ UNCHANGED <<upTry, doomed, sessionVars>>

\* strand_set_aside: a record still there is left for the next connection.
Strand(s) ==
    /\ upPc[s] = "strand" /\ Goto(s, "done")
    /\ IF Recorded(s)
       THEN /\ setAside' = [setAside EXCEPT ![s].stranded = TRUE]
            /\ keptStranded' = [keptStranded EXCEPT ![s] = setAside[s].aside]
       ELSE UNCHANGED <<setAside, keptStranded>>
    /\ UNCHANGED <<serverFiles, unrecorded, upTry, doomed, sessionVars>>

\* A connect puts back what is stranded before the session opens.
Connect ==
    /\ appUp /\ pane = "down" /\ pane' = "restoring"
    /\ stranding' = {s \in Stagings : setAside[s].stranded}
    /\ UNCHANGED <<serverFiles, records, upPc, upTry, doomed, appUp, crashes>>

PutBackStranded(s) ==
    /\ pane = "restoring" /\ s \in stranding
    /\ PutBackThenRemove(s) /\ stranding' = stranding \ {s}
    /\ UNCHANGED <<upPc, upTry, doomed, pane, appUp, crashes>>

OpenSession ==
    /\ pane = "restoring" /\ stranding = {} /\ pane' = "up"
    /\ UNCHANGED <<serverFiles, records, upPc, upTry, doomed, stranding, appUp, crashes>>

\* teardown_session: what is paused is discarded while the server can be
\* reached, and retained on it otherwise.
Disconnect ==
    /\ pane = "up" /\ pane' = "closing"
    /\ \A s \in Stagings : upPc[s] \notin Moving
    /\ UNCHANGED <<serverFiles, records, upPc, upTry, doomed, stranding, appUp, crashes>>

DiscardPaused(s) ==
    /\ pane = "closing" /\ upPc[s] = "paused" /\ Goto(s, "done")
    /\ PutBackThenRemove(s) \/ UNCHANGED <<serverFiles, records>>
    /\ UNCHANGED <<upTry, doomed, sessionVars>>

SessionClosed ==
    /\ pane = "closing" /\ \A s \in Stagings : upPc[s] # "paused"
    /\ pane' = "down"
    /\ UNCHANGED <<serverFiles, records, upPc, upTry, doomed, stranding, appUp, crashes>>
-----------------------------------------------------------------------------
\* The application ends: only what is on disk is left of the records.
Crash ==
    /\ appUp /\ crashes < MaxCrashes /\ crashes' = crashes + 1
    /\ appUp' = FALSE /\ pane' = "down" /\ stranding' = {}
    /\ \E done \in {s \in Stagings : upPc[s] \in Moving} \cup {NoAside} :
            IF done = NoAside THEN UNCHANGED serverFiles ELSE Request(done)
    /\ unrecorded' = {a \in Asides : hidden'[a] # Nothing
                                       /\ \A s \in Stagings : keptStranded[s] # a}
    /\ setAside' = [s \in Stagings |-> NoEntry]
    /\ upPc' = [s \in Stagings |-> IF upPc[s] = "idle" THEN "idle" ELSE "done"]
    /\ doomed' = [s \in Stagings |-> NoAside]
    /\ UNCHANGED <<keptStranded, upTry>>

\* load_stranded.
StartUp ==
    /\ ~appUp /\ appUp' = TRUE
    /\ setAside' = [s \in Stagings |->
            IF keptStranded[s] = NoAside THEN NoEntry
            ELSE [aside |-> keptStranded[s], stranded |-> TRUE]]
    /\ UNCHANGED <<serverFiles, keptStranded, unrecorded, upPc, upTry, doomed, pane, stranding,
                   crashes>>

\* Another client of the server takes a free name.
ForeignWrite ==
    /\ nameHolds = Nothing /\ \A a \in Asides : hidden[a] # "foreign"
    /\ nameHolds' = "foreign"
    /\ UNCHANGED <<partials, hidden, landed, lastHidden, records, upPc, upTry, doomed, sessionVars>>

SetAsideNext ==
    \/ \E s \in Stagings :
        \/ StageWhole(s) \/ Rename(s) \/ RenameAside(s) \/ RenameOver(s) \/ Restore(s)
        \/ RemoveOld(s) \/ LoseConnection(s) \/ DropAttempt(s) \/ LookAfterLoss(s)
        \/ CleanUp(s) \/ Strand(s) \/ PutBackStranded(s) \/ DiscardPaused(s)
    \/ Connect \/ OpenSession \/ Disconnect \/ SessionClosed
    \/ Crash \/ StartUp \/ ForeignWrite

SetAsideSpec == SetAsideInit /\ [][SetAsideNext]_setAsideVars
-----------------------------------------------------------------------------
(* A version hidden under another name is deleted only after the upload    *)
(* that hid it has taken the name (set_aside.rs: one version stands ...).  *)
PreviousVersionSurvives ==
    [][\A a \in Asides :
            hidden[a] # Nothing /\ hidden'[a] = Nothing /\ hidden[a] # nameHolds'
                => a[1] \in landed]_setAsideVars

(* While the name is empty and nobody is at work on it, a record leads to  *)
(* the version last taken off it, unless that rename itself was cut off.    *)
HiddenVersionIsRecorded ==
    nameHolds = Nothing /\ (\A s \in Stagings : upPc[s] \notin Working)
      => \/ lastHidden \in unrecorded
         \/ \E s \in Stagings : lastHidden \in {setAside[s].aside, keptStranded[s]}

(* "on disk once no connection is left to finish it" (set_aside.rs:3).     *)
CutReplacementIsRemembered ==
    pane = "down" /\ nameHolds = Nothing /\ (\A s \in Stagings : upPc[s] \notin Working)
      => \A s \in Stagings : Recorded(s) => keptStranded[s] = setAside[s].aside
=============================================================================
