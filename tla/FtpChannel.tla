----------------------------- MODULE FtpChannel -----------------------------
(***************************************************************************)
(* One FTP connection, used by one operation after another                 *)
(* (protocol/ftp.rs, ftp/data.rs, ftp/listing.rs, ftp/paths.rs).  A reply  *)
(* carries no name of the command it answers: an operation that leaves one *)
(* unread hands it to the next.  with_stream keeps the connection only     *)
(* when the whole operation completed or ended in the server's refusal.    *)
(* A keep-alive task shares the lock.  The server is external: it answers  *)
(* each command once, a transfer command it accepts twice, and remembers   *)
(* REST until the next transfer command.                                   *)
(***************************************************************************)
EXTENDS Naturals, Sequences

CONSTANTS
    MaxOperations, MaxConnections,   \* bounds
    PortAttempts,                    \* PASSIVE_PORT_ATTEMPTS
    SizeAnswered                     \* the server answers SIZE

ASSUME FtpAssumption ==
    /\ {MaxOperations, MaxConnections, PortAttempts} \subseteq Nat /\ PortAttempts > 0
    /\ SizeAnswered \in BOOLEAN

VARIABLES
    fSlot, fConnected,   \* stream is Some; the flag is_connected reads
    fWire,       \* replies not read yet, each by the operation it answers, 0 the NOOP
    fRest,       \* where the server would start the next transfer
    fLock, fBusy,   \* who holds the stream's lock; operations counted by BusyGuard
    fAlive,      \* the keep-alive task
    fNo, fKind, fOffset, fPc, fTries,   \* the operation: number, what, from where, step
    fHeld,       \* mkdir: the error that waits for the working directory
    fStart,      \* where its transfer really started
    fActive, fExtended, fMlsd,   \* active mode; EPSV for PASV; MLSD for LIST
    fConnections, fEnded         \* connections made; how the last operation ended

modeVars == <<fActive, fExtended, fMlsd>>
serverVars == <<fSlot, fConnected, fWire, fRest, fConnections>>
opVars == <<fNo, fKind, fOffset, fPc, fTries, fHeld, fStart, fEnded>>
ftpVars == <<serverVars, fLock, fBusy, fAlive, opVars, modeVars>>

OperationKinds == {"command", "probe", "mkdir", "list", "get", "put"}
Reading == {"answer", "inside", "restored", "port", "opened", "settled", "verdict"}
Outcomes == {"none", "ok", "refused", "wrong", "failed"}
Steps == Reading \cup {"none", "lock", "send", "restore", "connect", "data"}

FtpTypeOK ==
    /\ {fSlot, fConnected, fActive, fExtended, fMlsd} \subseteq BOOLEAN
    /\ fWire \in Seq(0 .. MaxOperations) /\ {fRest, fOffset, fStart, fBusy} \subseteq 0 .. 1
    /\ fLock \in {"none", "operation", "alive"}
    /\ fAlive \in {"off", "sleeping", "waiting", "noop"}
    /\ fNo \in 0 .. MaxOperations /\ fKind \in OperationKinds /\ fPc \in Steps
    /\ fTries \in 0 .. PortAttempts /\ fHeld \in Outcomes
    /\ fConnections \in 0 .. MaxConnections /\ fEnded \in Outcomes

FtpInit ==
    /\ fSlot = FALSE /\ fConnected = FALSE /\ fWire = <<>> /\ fRest = 0 /\ fConnections = 0
    /\ fLock = "none" /\ fBusy = 0 /\ fAlive = "off"
    /\ fNo = 0 /\ fKind = "command" /\ fOffset = 0 /\ fPc = "none" /\ fTries = 0
    /\ fHeld = "none" /\ fStart = 0 /\ fEnded = "none"
    /\ fActive = FALSE /\ fExtended = FALSE /\ fMlsd = FALSE
-----------------------------------------------------------------------------
\* disconnect, then open: the old keep-alive is aborted wherever it is, the
\* old stream taken.  Not while an operation runs (both take &mut self).
Open ==
    /\ fPc = "none" /\ fConnections < MaxConnections /\ fConnections' = fConnections + 1
    /\ fSlot' = TRUE /\ fConnected' = TRUE /\ fWire' = <<>> /\ fRest' = 0
    /\ fLock' = "none" /\ fAlive' = "sleeping"
    /\ fActive' \in BOOLEAN /\ fExtended' \in BOOLEAN /\ fMlsd' \in BOOLEAN
    /\ UNCHANGED <<fBusy, opVars>>

DisconnectFtp ==
    /\ fPc = "none" /\ fSlot
    /\ fSlot' = FALSE /\ fConnected' = FALSE /\ fWire' = <<>> /\ fRest' = 0
    /\ fLock' = "none" /\ fAlive' = "off"
    /\ UNCHANGED <<fConnections, fBusy, opVars, modeVars>>

\* A refusal is a complete reply, and a length that came out wrong is found
\* after the operation; any other failure may have left a reply on the way.
ReusableAlways(result) == TRUE
Reusable(result) == result \in {"ok", "refused", "wrong"}

\* Drop of StreamOperation and of BusyGuard.
EndOperation(result) ==
    /\ fLock' = "none" /\ fBusy' = 0 /\ fPc' = "none" /\ fEnded' = result
    /\ UNCHANGED <<fConnections, fAlive, fNo, fKind, fOffset, fTries, fHeld>>
    /\ IF Reusable(result) THEN UNCHANGED <<fSlot, fConnected>>
       ELSE fSlot' = FALSE /\ fConnected' = FALSE
AfterDrop(result, rest) == IF Reusable(result) THEN rest ELSE <<>>

\* The operation ends without reading anything more.
End(result) ==
    /\ EndOperation(result) /\ fWire' = AfterDrop(result, fWire)
    /\ fRest' = IF Reusable(result) THEN fRest ELSE 0
    /\ UNCHANGED <<fStart, modeVars>>

\* The head of the wire is read, and the operation ends.
ReadAndEnd(result) ==
    /\ fWire # <<>> /\ EndOperation(result) /\ fWire' = AfterDrop(result, Tail(fWire))
    /\ fRest' = IF Reusable(result) THEN fRest ELSE 0
    /\ UNCHANGED <<fStart, modeVars>>

\* The head is read, `more` further replies are on their way, and it goes on.
ReadAndGo(step, more) ==
    /\ fWire # <<>> /\ fWire' = Tail(fWire) \o more /\ fPc' = step
    /\ UNCHANGED <<fSlot, fConnected, fConnections, fLock, fBusy, fAlive, fNo, fKind, fOffset,
                 fEnded>>

\* A command goes out; the reply will come.
Send(step) ==
    /\ fWire' = Append(fWire, fNo) /\ fPc' = step
    /\ UNCHANGED <<fSlot, fConnected, fConnections, fLock, fBusy, fAlive, fNo, fKind, fOffset,
                 fEnded>>
-----------------------------------------------------------------------------
\* with_stream, download_to_writer, upload_from_reader: counted as busy
\* first, then the lock.
BeginOperation ==
    /\ fPc = "none" /\ fNo < MaxOperations /\ fConnections > 0
    /\ fNo' = fNo + 1 /\ fKind' \in OperationKinds /\ fOffset' \in 0 .. 1
    /\ fOffset' = 1 => fKind' = "get"
    /\ fPc' = "lock" /\ fBusy' = 1 /\ fTries' = PortAttempts /\ fHeld' = "none" /\ fStart' = 0
    /\ UNCHANGED <<serverVars, fLock, fAlive, fEnded, modeVars>>

TakeLock ==
    /\ fPc = "lock" /\ fLock = "none"
    /\ \/ /\ ~fSlot /\ End("failed")
       \/ /\ fSlot /\ fLock' = "operation" /\ fPc' = "send"
          /\ UNCHANGED <<serverVars, fBusy, fAlive, fNo, fKind, fOffset, fTries, fHeld, fStart,
                       fEnded, modeVars>>

Transfers == {"list", "get", "put"}

\* One command, or MKD; a transfer starts with REST, or its passive port, or
\* (active mode) PORT and the command itself.
FirstCommand ==
    /\ fPc = "send"
    /\ Send(IF fKind \notin Transfers \/ fOffset > 0 THEN "answer"
            ELSE IF fActive THEN "opened" ELSE "port")
    /\ UNCHANGED <<fRest, fTries, fHeld, fStart, modeVars>>

\* SIZE, MDTM, RNFR/RNTO: a refusal is an answer (optional_reply, exists,
\* rename_once).  DELE, RMD and the rest return it as an error.  A rename, the
\* removal of a tree and a creation are several commands.  A 550 to MKD has
\* ensure_dir enter the folders one by one.
CommandAnswered ==
    /\ fPc = "answer" /\ fKind # "get"
    /\ \/ ReadAndEnd("ok")
       \/ fKind \in {"command", "mkdir"} /\ ReadAndEnd("refused")
       \/ /\ fKind = "mkdir" /\ ReadAndGo("inside", <<fNo>>)
          /\ UNCHANGED <<fRest, fTries, fHeld, fStart, modeVars>>
       \/ /\ fKind \in {"command", "probe"} /\ ReadAndGo("send", <<>>)
          /\ UNCHANGED <<fRest, fTries, fHeld, fStart, modeVars>>

\* REST is answered, then the port is asked for.
Positioned ==
    /\ fPc = "answer" /\ fKind = "get"
    /\ \/ /\ ReadAndGo(IF fActive THEN "opened" ELSE "port", <<fNo>>)
          /\ fRest' = fOffset /\ UNCHANGED <<fTries, fHeld, fStart, modeVars>>
       \/ ReadAndEnd("refused")

\* ensure_dir_segments, then the working directory is put back whatever
\* happened; the folders' error is the one that is returned.
Entered ==
    /\ fPc = "inside" /\ fHeld' \in {"ok", "refused", "failed"}
    /\ ReadAndGo("restored", <<fNo>>) /\ UNCHANGED <<fRest, fTries, fStart, modeVars>>

Restored ==
    /\ fPc = "restored"
    /\ \E answer \in {"ok", "refused", "failed"} :
          ReadAndEnd(IF fHeld = "ok" THEN answer ELSE fHeld)

\* ask_passive_port, passive_port: PASV turned away as unknown is EPSV from
\* now on; a port the server could not open is asked for again.
PortAnswered ==
    /\ fPc = "port"
    /\ \/ /\ ReadAndGo("connect", <<>>)
          /\ UNCHANGED <<fRest, fTries, fHeld, fStart, modeVars>>
       \/ /\ ~fExtended /\ fExtended' = TRUE /\ ReadAndGo("port", <<fNo>>)
          /\ UNCHANGED <<fRest, fTries, fHeld, fStart, fActive, fMlsd>>
       \/ /\ fTries > 1 /\ fTries' = fTries - 1 /\ ReadAndGo("port", <<fNo>>)
          /\ UNCHANGED <<fRest, fHeld, fStart, modeVars>>
       \/ ReadAndEnd("refused")

\* The data connection is there, and the command that uses it goes out.
OpenData ==
    /\ fPc = "connect" /\ Send("opened")
    /\ UNCHANGED <<fRest, fTries, fHeld, fStart, modeVars>>

\* A preliminary reply promises a verdict; a refusal is the only reply.  MLSD
\* turned away is asked as LIST from now on.  PORT turned away is an error of
\* the client's own (ActiveModeFailed): that connection goes.
Opened ==
    /\ fPc = "opened"
    /\ \/ /\ ReadAndGo("data", <<fNo>>)
          /\ IF fKind = "list" THEN UNCHANGED <<fStart, fRest>>
             ELSE fStart' = fRest /\ fRest' = 0
          /\ UNCHANGED <<fTries, fHeld, modeVars>>
       \/ /\ fWire # <<>> /\ EndOperation("refused") /\ fWire' = Tail(fWire)
          /\ fRest' = IF fKind = "list" THEN fRest ELSE 0
          /\ fMlsd' \in IF fKind = "list" THEN {FALSE, fMlsd} ELSE {fMlsd}
          /\ UNCHANGED <<fStart, fActive, fExtended>>

\* Every byte read to the end, or written and the connection shut: the
\* verdict is next.  A write that fails has upload_refusal ask for the reason.
Transferred ==
    /\ fPc = "data"
    /\ fPc' \in {"settled"} \cup (IF fKind = "put" THEN {"verdict"} ELSE {})
    /\ UNCHANGED <<serverVars, fLock, fBusy, fAlive, fNo, fKind, fOffset, fTries, fHeld, fStart,
                 fEnded, modeVars>>

\* The file's length is looked at last, if the server tells it.
LengthIsWrongUnchecked == FALSE
LengthIsWrong == fKind # "list" /\ SizeAnswered /\ fStart # fOffset

\* settle, settle_download, finish.
Settled ==
    /\ fPc = "settled"
    /\ \/ ReadAndEnd(IF LengthIsWrong THEN "wrong" ELSE "ok")
       \/ ReadAndEnd("refused")

\* upload_refusal: only a refusal explains the broken write, and only then is
\* the connection in step.
Verdict ==
    /\ fPc = "verdict"
    /\ \/ ReadAndEnd("refused")
       \/ ReadAndEnd("failed")

\* A 421, a lost connection, a time limit, a local error.
Broken ==
    /\ fPc \in (Steps \ {"none", "lock"})
    /\ \/ End("failed")
       \/ fPc \in Reading /\ ReadAndEnd("failed")

\* The pool drops the operation's future: the guards drop with it.
Dropped ==
    \/ fPc \in (Steps \ {"none", "lock"}) /\ End("failed")
    \/ /\ fPc = "lock" /\ fPc' = "none" /\ fBusy' = 0 /\ fEnded' = "failed"
       /\ UNCHANGED <<serverVars, fLock, fAlive, fNo, fKind, fOffset, fTries, fHeld, fStart,
                    modeVars>>
-----------------------------------------------------------------------------
\* spawn_keep_alive: a tick passes over a busy connection; the NOOP waits for
\* the lock, and one that is not answered well gives the connection up.
AliveTicks ==
    /\ fAlive = "sleeping" /\ fBusy = 0 /\ fAlive' = "waiting"
    /\ UNCHANGED <<serverVars, fLock, fBusy, opVars, modeVars>>

AliveLocks ==
    /\ fAlive = "waiting" /\ fLock = "none"
    /\ IF fSlot THEN fLock' = "alive" /\ fAlive' = "noop" /\ fWire' = Append(fWire, 0)
       ELSE fAlive' = "off" /\ UNCHANGED <<fLock, fWire>>
    /\ UNCHANGED <<fSlot, fConnected, fRest, fConnections, fBusy, opVars, modeVars>>

AliveAnswered ==
    /\ fAlive = "noop" /\ fWire' = Tail(fWire) /\ fLock' = "none" /\ fAlive' = "sleeping"
    /\ UNCHANGED <<fSlot, fConnected, fRest, fConnections, fBusy, opVars, modeVars>>

AliveFails ==
    /\ fAlive = "noop" /\ fLock' = "none" /\ fAlive' = "off"
    /\ fSlot' = FALSE /\ fConnected' = FALSE /\ fWire' = <<>> /\ fRest' = 0
    /\ UNCHANGED <<fConnections, fBusy, opVars, modeVars>>
-----------------------------------------------------------------------------
FtpNext ==
    \/ Open \/ DisconnectFtp \/ BeginOperation \/ TakeLock \/ FirstCommand \/ CommandAnswered \/ Positioned
    \/ Entered \/ Restored \/ PortAnswered \/ OpenData \/ Opened \/ Transferred \/ Settled
    \/ Verdict \/ Broken \/ Dropped \/ AliveTicks \/ AliveLocks \/ AliveAnswered \/ AliveFails

FtpSpec == FtpInit /\ [][FtpNext]_ftpVars
-----------------------------------------------------------------------------
\* What an operation reads is the answer to what it asked, the NOOP's too,
\* and a transfer that reports success began at the offset it was given:
\* neither a reply nor a REST that an operation stopped or refused half-way
\* left behind passes for the next one's (StreamOperation's comment, ftp.rs).
OperationsStayApart ==
    /\ fPc \in Reading /\ fWire # <<>> => fWire[1] = fNo
    /\ fAlive = "noop" => fWire = <<0>>
    /\ fEnded = "ok" /\ fPc = "none" /\ fKind \in {"get", "put"} => fStart = fOffset
=============================================================================
