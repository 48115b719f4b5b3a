------------------------------ MODULE RelayCopy ------------------------------
(***************************************************************************)
(* A copy of a file from one server to another (transfer_remote_copy).     *)
(* Two tasks of two pools, joined by a bounded pipe and two one-shot       *)
(* answers: how long the source is, and whether it was read to its end.    *)
(* The target writes a staging file and renames it when both agree.  The   *)
(* legs are stopped by two calls, one after the other; either connection   *)
(* may be lost, and the target's may be closed under the copy.             *)
(*                                                                         *)
(* How the two legs get their workers is module TransferPool; how an       *)
(* existing file is replaced is module SetAside: the rename is one step.   *)
(***************************************************************************)
EXTENDS Naturals

CONSTANTS
    RelayBlocks,   \* the longest source
    PipeRoom,      \* RELAY_BUF_SIZE, in blocks
    RelayFaults    \* bound: losses, refusals, lost blocks and edits together

ASSUME RelayAssumption ==
    RelayBlocks \in Nat /\ PipeRoom \in Nat \ {0} /\ RelayFaults \in Nat

VARIABLES
    copy,       \* transfer_remote_copy: how far it is, and its answer
    sourceLeg,  \* the leg that reads
    targetLeg,  \* the leg that writes
    pipe,       \* the duplex stream: what it holds, which ends are open
    announced,  \* total_tx: what the source's server said of its size
    complete,   \* complete_tx
    server,     \* the files on the two servers
    record,     \* upload_staging still answers for the staging file
    session,    \* the target's connection
    stops,      \* the legs transfer_cancel_remote_copy has cancelled
    mishaps

streams == <<pipe, announced, complete>>
relayWorld == <<server, record, session, stops, mishaps>>
relayVars == <<copy, sourceLeg, targetLeg, streams, relayWorld>>

LegEnded == {"ok", "failed", "cancelled"}
Unknown == [is |-> "unknown", blocks |-> 0]
Faulty == mishaps < RelayFaults /\ mishaps' = mishaps + 1
-----------------------------------------------------------------------------
(* The source leg: relay_download.  What a task owns goes with it: its end  *)
(* of the pipe at its return, and the answers it has not given.             *)

SourceGone(how) ==
    /\ sourceLeg' = [sourceLeg EXCEPT !.at = how]
    /\ pipe' = [pipe EXCEPT !.writer = FALSE]
    /\ announced' = [announced EXCEPT !.is = IF @ = "asked" THEN "dropped" ELSE @]

SourceStarts ==
    /\ copy.at = "running" /\ sourceLeg.at = "queued"
    /\ sourceLeg' = [sourceLeg EXCEPT !.at = "asking"]
    /\ UNCHANGED <<copy, targetLeg, streams, relayWorld>>

\* known_size, None where the server does not say or cannot be asked.
SourceAsks ==
    /\ sourceLeg.at = "asking" /\ "source" \notin stops
    /\ announced' = IF server.sizes.source THEN [is |-> "known", blocks |-> server.length]
                    ELSE Unknown
    /\ sourceLeg' = [sourceLeg EXCEPT !.at = "reading"]
    /\ UNCHANGED <<copy, targetLeg, pipe, complete, relayWorld>>

\* download_to_writer: a block into the pipe, which waits when it is full.
SourceReads ==
    /\ sourceLeg.at = "reading" /\ "source" \notin stops
    /\ sourceLeg.read < server.length
    /\ IF pipe.reader
       THEN /\ pipe.held < PipeRoom
            /\ pipe' = [pipe EXCEPT !.held = @ + 1]
            /\ sourceLeg' = [sourceLeg EXCEPT !.read = @ + 1]
            /\ UNCHANGED announced
       ELSE SourceGone("partner")
    /\ UNCHANGED <<copy, targetLeg, complete, relayWorld>>

SourceIsRead ==
    /\ sourceLeg.at = "reading" /\ "source" \notin stops
    /\ sourceLeg.read >= server.length
    /\ SourceGone("read")
    /\ UNCHANGED <<copy, targetLeg, complete, relayWorld>>

SourceLost ==
    /\ sourceLeg.at \in {"asking", "reading"} /\ "source" \notin stops /\ Faulty
    /\ IF sourceLeg.at = "asking"
       THEN /\ sourceLeg' = [sourceLeg EXCEPT !.at = "reading"] /\ announced' = Unknown
            /\ UNCHANGED pipe
       ELSE SourceGone("lost")
    /\ UNCHANGED <<copy, targetLeg, complete, server, record, session, stops>>

\* The writing end is gone: only now the target hears whether that was the end.
SourceTells ==
    /\ sourceLeg.at \in {"read", "partner", "lost"}
    /\ complete' = IF sourceLeg.at = "read" THEN "yes" ELSE "no"
    /\ sourceLeg' = [sourceLeg EXCEPT !.at = IF sourceLeg.at = "read" THEN "ok" ELSE "failed",
                                !.blamed = sourceLeg.at = "lost"]
    /\ UNCHANGED <<copy, targetLeg, pipe, announced, relayWorld>>

\* The task is dropped, in the queue or while it waits.
SourceStopped ==
    /\ "source" \in stops /\ copy.at = "running"
    /\ sourceLeg.at \in {"queued", "asking", "reading"}
    /\ SourceGone("cancelled")
    /\ complete' = "dropped"
    /\ UNCHANGED <<copy, targetLeg, relayWorld>>
-----------------------------------------------------------------------------
(* The target leg: relay_staged.                                            *)

TargetGoes(to) == targetLeg' = [targetLeg EXCEPT !.at = to]
TargetFails ==
    /\ TargetGoes("failed")
    /\ pipe' = [pipe EXCEPT !.reader = FALSE]
TargetAt(at) == targetLeg.at = at /\ "target" \notin stops

TargetStarts ==
    /\ copy.at = "running" /\ targetLeg.at = "queued" /\ "target" \notin stops
    /\ targetLeg' = [at |-> "writing", started |-> TRUE]
    /\ server' = [server EXCEPT !.staged = [is |-> "copy", blocks |-> 0]]
    /\ UNCHANGED <<copy, sourceLeg, streams, record, session, stops, mishaps>>

\* upload_from_reader.  A server may lose what it took.
TargetWrites(kept) ==
    /\ TargetAt("writing") /\ pipe.held > 0
    /\ pipe' = [pipe EXCEPT !.held = @ - 1]
    /\ IF kept THEN server' = [server EXCEPT !.staged.blocks = @ + 1] /\ UNCHANGED mishaps
       ELSE Faulty /\ UNCHANGED server
    /\ UNCHANGED <<copy, sourceLeg, targetLeg, announced, complete, record, session, stops>>

\* The end of the stream, whatever ended it.
TargetReadsEnd ==
    /\ TargetAt("writing") /\ pipe.held = 0 /\ ~pipe.writer
    /\ TargetGoes("checking")
    /\ pipe' = [pipe EXCEPT !.reader = FALSE]
    /\ UNCHANGED <<copy, sourceLeg, announced, complete, relayWorld>>

\* The staging file against the source's size, where both servers say.
TargetChecks ==
    /\ TargetAt("checking") /\ announced.is # "asked"
    /\ LET short == announced.is = "known" /\ server.sizes.target
                    /\ server.staged.blocks # announced.blocks
       IN TargetGoes(IF announced.is = "dropped" \/ short THEN "failed" ELSE "waiting")
    /\ UNCHANGED <<copy, sourceLeg, streams, relayWorld>>

\* Mutant: the end of the stream is taken for the end of the source.
AwaitsNobody ==
    /\ TargetAt("waiting")
    /\ TargetGoes("renaming") /\ server' = [server EXCEPT !.renames = TRUE]
    /\ UNCHANGED <<copy, sourceLeg, streams, record, session, stops, mishaps>>

\* complete.await, then the rename is sent.
AwaitsSource ==
    /\ TargetAt("waiting") /\ complete # "open"
    /\ IF complete = "yes"
       THEN TargetGoes("renaming") /\ server' = [server EXCEPT !.renames = TRUE]
       ELSE TargetGoes("failed") /\ UNCHANGED server
    /\ UNCHANGED <<copy, sourceLeg, streams, record, session, stops, mishaps>>

\* The server performs it, even if nobody waits for its reply any more.
Renames ==
    /\ server.renames
    /\ server' = IF server.staged.is = "none" \/ (server.dest.is = "old" /\ ~server.overwrite)
                 THEN [server EXCEPT !.renames = FALSE]
                 ELSE [server EXCEPT !.renames = FALSE, !.dest = server.staged,
                                     !.staged = [is |-> "none", blocks |-> 0]]
    /\ UNCHANGED <<copy, sourceLeg, targetLeg, streams, record, session, stops, mishaps>>

TargetDone ==
    /\ TargetAt("renaming") /\ ~server.renames
    /\ TargetGoes(IF server.dest.is = "copy" THEN "ok" ELSE "failed")
    /\ UNCHANGED <<copy, sourceLeg, streams, relayWorld>>

\* The connection is lost, or the server refuses.
TargetLost ==
    /\ targetLeg.at \in {"writing", "renaming"} /\ "target" \notin stops /\ Faulty
    /\ TargetFails
    /\ UNCHANGED <<copy, sourceLeg, announced, complete, server, record, session, stops>>

TargetStopped ==
    /\ "target" \in stops /\ copy.at = "running"
    /\ targetLeg.at \in {"queued", "writing", "checking", "waiting", "renaming"}
    /\ TargetGoes("cancelled")
    /\ pipe' = [pipe EXCEPT !.reader = FALSE]
    /\ UNCHANGED <<copy, sourceLeg, announced, complete, relayWorld>>
-----------------------------------------------------------------------------
(* The command                                                              *)

BeginsCopy ==
    /\ copy.at = "new" /\ session # "closed"
    /\ record' = TRUE
    /\ copy' = [copy EXCEPT !.at = "waiting"]
    /\ UNCHANGED <<sourceLeg, targetLeg, streams, server, session, stops, mishaps>>

\* run_pair: both legs or none.
Admitted ==
    /\ copy.at = "waiting"
    /\ IF session # "open" \/ stops # {}
       THEN copy' = [copy EXCEPT !.at = "settling"]
       ELSE copy' = [copy EXCEPT !.at = "running"]
    /\ UNCHANGED <<sourceLeg, targetLeg, streams, relayWorld>>

\* Both answers are in; the source's error comes first.
Joined ==
    /\ copy.at = "running" /\ sourceLeg.at \in LegEnded /\ targetLeg.at \in LegEnded
    /\ copy' = [copy EXCEPT !.at = "settling", !.ok = sourceLeg.at = "ok" /\ targetLeg.at = "ok"]
    /\ UNCHANGED <<sourceLeg, targetLeg, streams, relayWorld>>

Finish(freed) ==
    /\ copy' = [copy EXCEPT !.at = "over"]
    /\ record' = IF freed THEN FALSE ELSE record

\* What the staging file needs: nothing, a removal, or the teardown.
SettlesCopy ==
    /\ copy.at = "settling"
    /\ IF copy.ok \/ ~targetLeg.started THEN Finish(TRUE)
       ELSE IF session = "open" THEN copy' = [copy EXCEPT !.at = "cleaning"] /\ UNCHANGED record
       ELSE Finish(FALSE)
    /\ UNCHANGED <<sourceLeg, targetLeg, streams, server, session, stops, mishaps>>

\* cleanup_remote_partial, on the browsing connection; without one the
\* record stays for the teardown.  A server may refuse: the log says so.
CleansUp ==
    /\ copy.at = "cleaning"
    /\ IF session # "open" THEN Finish(FALSE) /\ UNCHANGED <<server, mishaps>>
       ELSE /\ Finish(TRUE)
            /\ \/ server' = [server EXCEPT !.staged = [is |-> "none", blocks |-> 0]]
                  /\ UNCHANGED mishaps
               \/ server' = [server EXCEPT !.told = TRUE] /\ Faulty
    /\ UNCHANGED <<sourceLeg, targetLeg, streams, session, stops>>

\* transfer_cancel_remote_copy: the source's leg, then the target's.
StopsLeg(leg) ==
    /\ copy.at # "over" /\ leg \notin stops
    /\ leg = "target" => "source" \in stops
    /\ stops' = stops \cup {leg}
    /\ UNCHANGED <<copy, sourceLeg, targetLeg, streams, server, record, session, mishaps>>

\* The target's tab is closed: its pool stops its leg, and when that has
\* ended the teardown deletes what the records of the connection name.
Disconnects ==
    /\ session = "open" /\ session' = "closing"
    /\ stops' = IF copy.at = "running" THEN stops \cup {"target"} ELSE stops
    /\ UNCHANGED <<copy, sourceLeg, targetLeg, streams, server, record, mishaps>>

Sweeps ==
    /\ session = "closing" /\ session' = "closed"
    /\ copy.at # "running" \/ targetLeg.at \in LegEnded
    /\ record' = FALSE
    /\ IF record
       THEN \/ server' = [server EXCEPT !.staged = [is |-> "none", blocks |-> 0]]
               /\ UNCHANGED mishaps
            \/ server' = [server EXCEPT !.told = TRUE] /\ Faulty
       ELSE UNCHANGED <<server, mishaps>>
    /\ UNCHANGED <<copy, sourceLeg, targetLeg, streams, stops>>

\* Somebody else changes the source.
SourceEdited(n) ==
    /\ server.length # n /\ Faulty
    /\ server' = [server EXCEPT !.length = n]
    /\ UNCHANGED <<copy, sourceLeg, targetLeg, streams, record, session, stops>>
-----------------------------------------------------------------------------
RelayInit ==
    /\ copy = [at |-> "new", ok |-> FALSE]
    /\ sourceLeg = [at |-> "queued", read |-> 0, blamed |-> FALSE]
    /\ targetLeg = [at |-> "queued", started |-> FALSE]
    /\ pipe = [held |-> 0, writer |-> TRUE, reader |-> TRUE]
    /\ announced = [is |-> "asked", blocks |-> 0]
    /\ complete = "open"
    /\ \E says \in [source : BOOLEAN, target : BOOLEAN], over \in BOOLEAN,
          there \in {"none", "old"}, n \in 0..RelayBlocks :
          server = [length |-> n, sizes |-> says, overwrite |-> over,
                    dest |-> [is |-> there, blocks |-> 0],
                    staged |-> [is |-> "none", blocks |-> 0],
                    renames |-> FALSE, told |-> FALSE]
    /\ record = FALSE /\ session = "open" /\ stops = {} /\ mishaps = 0

RelayNext ==
    \/ SourceStarts \/ SourceAsks \/ SourceReads \/ SourceIsRead \/ SourceLost
    \/ SourceTells \/ SourceStopped
    \/ TargetStarts \/ TargetReadsEnd \/ TargetChecks \/ AwaitsSource \/ Renames
    \/ TargetDone \/ TargetLost \/ TargetStopped
    \/ \E kept \in BOOLEAN : TargetWrites(kept)
    \/ BeginsCopy \/ Admitted \/ Joined \/ SettlesCopy \/ CleansUp \/ Disconnects \/ Sweeps
    \/ \E leg \in {"source", "target"} : StopsLeg(leg)
    \/ \E n \in 0..RelayBlocks : SourceEdited(n)

RelaySpec == RelayInit /\ [][RelayNext]_relayVars

RelayTypeOK ==
    /\ copy.at \in {"new", "waiting", "running", "settling", "cleaning", "over"}
    /\ sourceLeg.read \in 0..RelayBlocks
    /\ pipe.held \in 0..PipeRoom
    /\ announced.is \in {"asked", "known", "unknown", "dropped"}
    /\ complete \in {"open", "yes", "no", "dropped"}
    /\ server.staged.blocks \in 0..RelayBlocks /\ server.dest.blocks \in 0..RelayBlocks
    /\ record \in BOOLEAN /\ session \in {"open", "closing", "closed"}
    /\ stops \subseteq {"source", "target"} /\ mishaps \in 0..RelayFaults

(* What stands at the destination is a copy of a source that was read to       *)
(* its end and, where both servers tell sizes, as long as it: a cut pipe,   *)
(* a dropped task or a truncating server never passes for the end of the    *)
(* file.  A copy reported as done is in place, and of one that ended        *)
(* otherwise a staging file still on the server is named by a record the    *)
(* teardown will find, or by the log (relay_staged, transfer_remote_copy).  *)
CopyIsWhole ==
    /\ server.dest.is = "copy" =>
          /\ complete = "yes"
          /\ announced.is = "known" /\ server.sizes.target => server.dest.blocks = announced.blocks
    /\ copy.ok => server.dest.is = "copy"
    /\ copy.at = "over" /\ server.staged.is = "copy" => record \/ server.told
=============================================================================
