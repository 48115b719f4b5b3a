---------------------------- MODULE SftpPipeline ----------------------------
(***************************************************************************)
(* A file over SFTP with several requests in flight                        *)
(* (protocol/sftp/pipeline.rs, protocol/sftp.rs), and an upload that is    *)
(* paused and resumed over it (application/upload_resume.rs).  Each write  *)
(* is a task of its own and names its offset; the server takes requests in *)
(* the order they are sent.  A file is Blocks blocks of CHUNK_SIZE, and a  *)
(* block's content is the edit it comes from.                              *)
(***************************************************************************)
EXTENDS Naturals, FiniteSets, Sequences

CONSTANTS
    Blocks,         \* length of the file
    Window,         \* WRITE_WINDOW, READ_WINDOW
    SendsInOrder,   \* the tasks' requests leave in the order they were spawned
    MaxPauses, MaxSourceEdits   \* bounds

ASSUME PipelineAssumption ==
    /\ {Blocks, Window} \subseteq Nat \ {0} /\ {MaxPauses, MaxSourceEdits} \subseteq Nat
    /\ SendsInOrder \in BOOLEAN

Hole == MaxSourceEdits + 1   \* a block that was never written
Block == 0 .. Blocks - 1

VARIABLES
    version, source,        \* the local file: its edits so far, its blocks
    staging, staged,        \* the staging file's blocks and its length
    uploadPc, pinned, pauses,   \* the upload; the version its record pins
    readTo,                 \* offset: the next block to read and spawn
    unsent, wire, replies, turned,   \* its tasks: not polled; sent; answered well; refused
    refusing,               \* the server refuses writes from now on
    acknowledged, upError, upEof,     \* of write_pipelined
    remoteLen, total,       \* a download's source, now and as STAT told
    downPc, answers, local   \* the download: its step, its window's answers, the file

fileVars == <<version, source, staging, staged, uploadPc, pinned, pauses>>
writeVars == <<readTo, unsent, wire, replies, turned, refusing, acknowledged, upError, upEof>>
readVars == <<remoteLen, total, downPc, answers, local>>
pipelineVars == <<fileVars, writeVars, readVars>>

PipelineTypeOK ==
    /\ version \in 0 .. MaxSourceEdits /\ pinned \in 0 .. MaxSourceEdits
    /\ source \in [Block -> 0 .. MaxSourceEdits]
    /\ staging \in [Block -> 0 .. Hole] /\ staged \in 0 .. Blocks /\ pauses \in 0 .. MaxPauses
    /\ uploadPc \in {"none", "writing", "paused", "published", "failed"}
    /\ readTo \in 0 .. Blocks /\ unsent \subseteq Block /\ wire \in Seq(Block)
    /\ replies \subseteq Block /\ turned \subseteq Block /\ acknowledged \in 0 .. Blocks
    /\ {refusing, upError, upEof} \subseteq BOOLEAN
    /\ remoteLen \in 0 .. Blocks /\ total \in 0 .. Blocks
    /\ downPc \in {"none", "reading", "done", "failed"}
    /\ answers \in Seq({"asked", "full", "short", "error"}) /\ local \in Seq(Block)

NoBlocks == [b \in Block |-> Hole]
PipelineInit ==
    /\ version = 0 /\ source = [b \in Block |-> 0] /\ staging = NoBlocks /\ staged = 0
    /\ uploadPc = "none" /\ pinned = 0 /\ pauses = 0
    /\ readTo = 0 /\ unsent = {} /\ wire = <<>> /\ replies = {} /\ turned = {}
    /\ refusing = FALSE /\ acknowledged = 0 /\ upError = FALSE /\ upEof = FALSE
    /\ remoteLen \in 0 .. Blocks /\ total = remoteLen
    /\ downPc = "none" /\ answers = <<>> /\ local = <<>>
-----------------------------------------------------------------------------
\* write_pipelined starts at a block: the tasks of the attempt before are gone.
StartAt(block) ==
    /\ uploadPc' = "writing" /\ readTo' = block /\ acknowledged' = block
    /\ unsent' = {} /\ wire' = <<>> /\ replies' = {} /\ turned' = {}
    /\ refusing' = FALSE /\ upError' = FALSE /\ upEof' = FALSE

\* A new staging file is created or truncated.
StartFresh == StartAt(0) /\ staging' = NoBlocks /\ staged' = 0 /\ pinned' = version

\* An upload and a download share nothing here: a behaviour has one of them.
StartUpload ==
    /\ uploadPc = "none" /\ downPc = "none" /\ StartFresh
    /\ UNCHANGED <<version, source, pauses, readVars>>

Pending == unsent \cup {wire[i] : i \in DOMAIN wire} \cup replies \cup turned

SpawnWrite ==
    /\ uploadPc = "writing" /\ ~upEof /\ readTo < Blocks /\ Cardinality(Pending) < Window
    /\ unsent' = unsent \cup {readTo} /\ readTo' = readTo + 1
    /\ UNCHANGED <<fileVars, wire, replies, turned, refusing, acknowledged, upError, upEof,
                 readVars>>

SourceEnds ==
    /\ uploadPc = "writing" /\ ~upEof /\ readTo = Blocks /\ upEof' = TRUE
    /\ UNCHANGED <<fileVars, readTo, unsent, wire, replies, turned, refusing, acknowledged,
                 upError, readVars>>

\* A task is polled for the first time.
SendWrite ==
    /\ uploadPc = "writing"
    /\ \E b \in unsent :
        /\ SendsInOrder => \A c \in unsent : b <= c
        /\ unsent' = unsent \ {b} /\ wire' = Append(wire, b)
    /\ UNCHANGED <<fileVars, readTo, replies, turned, refusing, acknowledged, upError, upEof,
                 readVars>>

\* What the server has after the first n requests on the wire.
Landed(n) == {wire[i] : i \in 1 .. n}
Lands(n) ==
    /\ staging' = [b \in Block |-> IF b \in Landed(n) THEN source[b] ELSE staging[b]]
    /\ staged' = CHOOSE l \in {staged} \cup {b + 1 : b \in Landed(n)} :
                    \A m \in {staged} \cup {b + 1 : b \in Landed(n)} : m <= l

ServerWrites ==
    /\ uploadPc = "writing" /\ wire # <<>> /\ ~refusing
    /\ Lands(1) /\ replies' = replies \cup {Head(wire)} /\ wire' = Tail(wire)
    /\ UNCHANGED <<version, source, uploadPc, pinned, pauses, readTo, unsent, turned, refusing,
                 acknowledged, upError, upEof, readVars>>

\* No room, no quota, no permission any more.
ServerRefuses ==
    /\ uploadPc = "writing" /\ wire # <<>>
    /\ refusing' = TRUE /\ turned' = turned \cup {Head(wire)} /\ wire' = Tail(wire)
    /\ UNCHANGED <<fileVars, readTo, unsent, replies, acknowledged, upError, upEof, readVars>>

\* The connection goes: of what was sent a beginning arrives, and every
\* request still waiting fails at its time limit.
ConnectionCut ==
    /\ uploadPc = "writing" /\ Pending # {} /\ ~refusing /\ refusing' = TRUE
    /\ \E n \in 0 .. Len(wire) : Lands(n)
    /\ turned' = Pending /\ unsent' = {} /\ wire' = <<>> /\ replies' = {}
    /\ UNCHANGED <<version, source, uploadPc, pinned, pauses, readTo, acknowledged, upError, upEof,
                 readVars>>

WriteReply ==
    /\ uploadPc = "writing"
    /\ \/ \E b \in replies : replies' = replies \ {b} /\ acknowledged' = acknowledged + 1
          /\ UNCHANGED <<turned, upError, upEof>>
       \/ \E b \in turned : turned' = turned \ {b} /\ upError' = TRUE /\ upEof' = TRUE
          /\ UNCHANGED <<replies, acknowledged>>
    /\ UNCHANGED <<fileVars, readTo, unsent, wire, refusing, readVars>>

\* Every submitted write has settled.  upload validates what was acknowledged
\* and upload_finish what the server says; then the file is renamed into
\* place.  A failed attempt's file is removed, or kept if a Pause came first.
Whole == acknowledged = Blocks /\ staged = Blocks
UploadEnds ==
    /\ uploadPc = "writing" /\ upEof /\ Pending = {}
    /\ \/ ~upError /\ Whole /\ uploadPc' = "published" /\ UNCHANGED pauses
       \/ (upError \/ ~Whole) /\ uploadPc' = "failed" /\ UNCHANGED pauses
       \/ /\ upError \/ ~Whole
          /\ pauses < MaxPauses /\ pauses' = pauses + 1 /\ uploadPc' = "paused"
    /\ UNCHANGED <<version, source, staging, staged, pinned, writeVars, readVars>>

\* The future is dropped, its JoinSet aborts the tasks that were not polled,
\* and the pool closes the connection.
PauseUpload ==
    /\ uploadPc = "writing" /\ pauses < MaxPauses /\ pauses' = pauses + 1 /\ uploadPc' = "paused"
    /\ IF refusing THEN UNCHANGED <<staging, staged>> ELSE \E n \in 0 .. Len(wire) : Lands(n)
    /\ unsent' = {} /\ wire' = <<>> /\ replies' = {} /\ turned' = {}
    /\ UNCHANGED <<version, source, pinned, readTo, refusing, acknowledged, upError, upEof,
                 readVars>>

EditLocal ==
    /\ uploadPc = "paused" /\ version < MaxSourceEdits /\ version' = version + 1
    /\ \E changed \in SUBSET Block \ {{}} :
          source' = [b \in Block |-> IF b \in changed THEN version + 1 ELSE source[b]]
    /\ UNCHANGED <<staging, staged, uploadPc, pinned, pauses, writeVars, readVars>>

\* resolve: the source is the one pinned, and the end of the staging file
\* (VERIFY_WINDOW) reads as the source's; its length is where to go on.
PinIgnored == TRUE
PinMatches == pinned = version
ResumeUpload ==
    /\ uploadPc = "paused"
    /\ IF PinMatches /\ staged > 0 /\ staging[staged - 1] = source[staged - 1]
       THEN StartAt(staged) /\ UNCHANGED <<staging, staged, pinned>>
       ELSE StartFresh
    /\ UNCHANGED <<version, source, pauses, readVars>>
-----------------------------------------------------------------------------
\* read_pipelined: a window of blocks is asked for at once.
AskWindow ==
    /\ downPc \in {"none", "reading"} /\ answers = <<>> /\ uploadPc = "none"
    /\ downPc' = "reading" /\ answers' = [i \in 1 .. Window |-> "asked"]
    /\ UNCHANGED <<fileVars, writeVars, remoteLen, total, local>>

\* The answers come in any order; a block behind the end is empty.
ReadReply ==
    /\ \E i \in DOMAIN answers :
        /\ answers[i] = "asked"
        /\ \E answer \in {IF Len(local) + i <= remoteLen THEN "full" ELSE "short", "error"} :
              answers' = [answers EXCEPT ![i] = answer]
    /\ UNCHANGED <<fileVars, writeVars, remoteLen, total, downPc, local>>

\* Another program appends to the file meanwhile, or cuts it.
RemoteChanges ==
    /\ downPc = "reading" /\ remoteLen' \in 0 .. Blocks
    /\ UNCHANGED <<fileVars, writeVars, total, downPc, answers, local>>

Replied(answer) == {i \in DOMAIN answers : answers[i] = answer}
\* A full block behind a short one: the file changed in between.
BeyondEofAccepted == FALSE
BeyondEof == \E i \in Replied("short"), j \in Replied("full") : i < j

\* All have answered: the blocks are written in the order of their offsets.
WriteWindow ==
    /\ answers # <<>> /\ Replied("asked") = {}
    /\ LET got == {Len(local) + i - 1 : i \in Replied("full")}
           reached == Len(local) + Cardinality(got)
           written == CHOOSE s \in [1 .. Cardinality(got) -> got] :
                         \A i, j \in DOMAIN s : i < j => s[i] < s[j]
           broken == Replied("error") # {} \/ BeyondEof \/ reached > total
       IN /\ local' = IF broken \/ reached > Blocks THEN local ELSE local \o written
          /\ downPc' = IF broken \/ (Replied("short") # {} /\ reached # total) THEN "failed"
                       ELSE IF Replied("short") # {} THEN "done" ELSE "reading"
    /\ answers' = <<>>
    /\ UNCHANGED <<fileVars, writeVars, remoteLen, total>>
-----------------------------------------------------------------------------
PipelineNext ==
    \/ StartUpload \/ SpawnWrite \/ SourceEnds \/ SendWrite \/ ServerWrites \/ ServerRefuses
    \/ ConnectionCut \/ WriteReply \/ UploadEnds \/ PauseUpload \/ EditLocal \/ ResumeUpload
    \/ AskWindow \/ ReadReply \/ RemoteChanges \/ WriteWindow

PipelineSpec == PipelineInit /\ [][PipelineNext]_pipelineVars
-----------------------------------------------------------------------------
\* A file that was put in place, or a download that ended well, holds every
\* block of its source at its offset, whatever order the requests left and
\* were answered in and wherever pauses, refusals and lost connections fell
\* ("everything below it is a prefix of what we sent", upload_resume.rs).
EveryBlockInItsPlace ==
    /\ uploadPc = "published" => staging = source
    /\ downPc = "done" => local = [i \in 1 .. total |-> i - 1]
=============================================================================
