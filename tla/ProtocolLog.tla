----------------------------- MODULE ProtocolLog -----------------------------
(***************************************************************************)
(* The protocol log: records are numbered, kept and queued under one lock; *)
(* a full queue drops a record and a notice tells of it later; one writer  *)
(* gathers batches for the panel; the flush at the end of the application  *)
(* sends barriers through the same queue.  The panel combines the history  *)
(* it asks for with the live batches.                                      *)
(***************************************************************************)
EXTENDS Naturals, Sequences, SequencesExt

CONSTANTS
    WriterCapacity,    \* WRITER_CAPACITY
    BatchCapacity,     \* BATCH_CAPACITY
    MaxSeq,            \* no record is pushed past this number
    PanelOpens         \* how often the panel opens

\* 128 of 512 in the code: a batch never empties a full queue.
ASSUME LogAssumption ==
    /\ WriterCapacity \in Nat \ {0} /\ BatchCapacity \in Nat \ {0}
    /\ BatchCapacity <= WriterCapacity
    /\ MaxSeq \in Nat /\ PanelOpens \in Nat

VARIABLES
    recent,        \* Recent: next_seq, records, dropped, and the channel
    writer,        \* run_writer: where it stands, its batch, an ack it owes
    barrier,       \* flush(): where it stands, its round, what was there before
    reserved,      \* flush's send owns a place of the channel not yet filled
    told,          \* history: the numbers published or told of in a notice
    ordered,       \* history: the published numbers only grew
    newest,        \* history: the last number published
    events,        \* batches on their way to the panel
    reply,         \* the answer to log_recent on its way, or none
    panel          \* useLogLines

logVars == <<recent, writer, barrier, reserved, told, ordered, newest, events, reply, panel>>
-----------------------------------------------------------------------------
(* Recording *)

\* A record with the numbers a dropped-records notice counts; number 0 is the
\* barrier of a flush.
Barrier == [n |-> 0, lost |-> {}]

Capacity(s) == WriterCapacity - Len(s.queue) - (IF reserved THEN 1 ELSE 0)

\* report_dropped: with something dropped and a free place, a notice of it.
Reported(s) ==
    IF s.dropped = {} \/ Capacity(s) = 0 THEN s
    ELSE LET notice == [n |-> s.next, lost |-> s.dropped]
         IN  [next |-> s.next + 1, dropped |-> {},
              records |-> Append(s.records, notice), queue |-> Append(s.queue, notice)]

\* push: numbered, kept and queued under the lock.
Pushed(s) ==
    LET record == [n |-> s.next, lost |-> {}]
        room == Capacity(s) > 0
    IN  [next |-> s.next + 1,
         dropped |-> IF room THEN s.dropped ELSE s.dropped \cup {s.next},
         records |-> Append(s.records, record),
         queue |-> IF room THEN Append(s.queue, record) ELSE s.queue]

Push ==
    /\ recent.next <= MaxSeq
    /\ recent' = Pushed(Reported(recent))
    /\ UNCHANGED <<writer, barrier, reserved, told, ordered, newest, events, reply, panel>>
-----------------------------------------------------------------------------
(* The writer *)

\* recv() gives the place it frees to a send that waits for one.
Received ==
    /\ recent.queue # <<>>
    /\ recent' = [recent EXCEPT !.queue = Tail(@)]
    /\ IF barrier.at = "sending"
       THEN reserved' = TRUE /\ barrier' = [barrier EXCEPT !.at = "placed"]
       ELSE UNCHANGED <<reserved, barrier>>

TakeFirst ==
    /\ writer.at = "recv"
    /\ Received
    /\ writer' = [writer EXCEPT !.at = "report", !.batch = <<Head(recent.queue)>>]
    /\ UNCHANGED <<told, ordered, newest, events, reply, panel>>

Acknowledged ==
    barrier' = IF barrier.at = "waiting" THEN [barrier EXCEPT !.at = "acked"] ELSE barrier

\* The notice of what was dropped, then the barrier or the first of a batch.
ReportDropped ==
    /\ writer.at = "report"
    /\ recent' = Reported(recent)
    /\ IF writer.batch = <<Barrier>>
       THEN Acknowledged /\ writer' = [writer EXCEPT !.at = "recv", !.batch = <<>>]
       ELSE UNCHANGED barrier /\ writer' = [writer EXCEPT !.at = "gather"]
    /\ UNCHANGED <<reserved, told, ordered, newest, events, reply, panel>>

Gather ==
    /\ writer.at = "gather"
    /\ Len(writer.batch) < BatchCapacity
    /\ Received
    /\ writer' = IF Head(recent.queue) = Barrier
                 THEN [writer EXCEPT !.at = "publish", !.ack = TRUE]
                 ELSE [writer EXCEPT !.batch = Append(@, Head(recent.queue))]
    /\ UNCHANGED <<told, ordered, newest, events, reply, panel>>

\* FLUSH_INTERVAL passed, or the batch is full.
GatherEnds ==
    /\ writer.at = "gather"
    /\ writer' = [writer EXCEPT !.at = "publish"]
    /\ UNCHANGED <<recent, barrier, reserved, told, ordered, newest, events, reply, panel>>

Listening == panel.at \in {"loading", "following"}

LogPublish ==
    /\ writer.at = "publish"
    /\ writer' = [writer EXCEPT !.at = "append"]
    /\ events' = IF Listening THEN Append(events, writer.batch) ELSE events
    /\ told' = told \cup UNION {{r.n} \cup r.lost : r \in ToSet(writer.batch)}
    /\ ordered' = (ordered /\ \A i \in DOMAIN writer.batch :
                        writer.batch[i].n > IF i = 1 THEN newest ELSE writer.batch[i-1].n)
    /\ newest' = Last(writer.batch).n
    /\ UNCHANGED <<recent, barrier, reserved, reply, panel>>

\* The daily file has the batch; the flush it carried is answered.
Appended ==
    /\ writer.at = "append"
    /\ IF writer.ack THEN Acknowledged ELSE UNCHANGED barrier
    /\ writer' = [at |-> "recv", batch |-> <<>>, ack |-> FALSE]
    /\ UNCHANGED <<recent, reserved, told, ordered, newest, events, reply, panel>>
-----------------------------------------------------------------------------
(* flush(): two barriers, each sent when the channel has a place *)

SendBarrier(from, round) ==
    /\ barrier.at = from
    /\ IF Capacity(recent) > 0
       THEN /\ recent' = [recent EXCEPT !.queue = Append(@, Barrier)]
            /\ barrier' = [barrier EXCEPT !.at = "waiting", !.round = round]
       ELSE /\ barrier' = [barrier EXCEPT !.at = "sending", !.round = round]
            /\ UNCHANGED recent
    /\ UNCHANGED <<writer, reserved, told, ordered, newest, events, reply, panel>>

Flush ==
    \/ /\ barrier.at = "idle"
       /\ barrier' = [at |-> "begun", round |-> 1, before |-> 1..(recent.next - 1)]
       /\ UNCHANGED <<recent, writer, reserved, told, ordered, newest, events, reply, panel>>
    \/ SendBarrier("begun", 1)
    \/ barrier.round = 1 /\ SendBarrier("acked", 2)
    \/ /\ barrier.at = "acked" /\ barrier.round = 2
       /\ barrier' = [barrier EXCEPT !.at = "done"]
       /\ UNCHANGED <<recent, writer, reserved, told, ordered, newest, events, reply, panel>>

\* The waiting send was given a place and fills it.
FillPlace ==
    /\ barrier.at = "placed"
    /\ recent' = [recent EXCEPT !.queue = Append(@, Barrier)]
    /\ reserved' = FALSE
    /\ barrier' = [barrier EXCEPT !.at = "waiting"]
    /\ UNCHANGED <<writer, told, ordered, newest, events, reply, panel>>

\* Two seconds passed: the place goes back, a barrier in the queue stays.
FlushTimesOut ==
    /\ barrier.at \in {"sending", "placed", "waiting"}
    /\ barrier' = [barrier EXCEPT !.at = "timedOut"]
    /\ reserved' = FALSE
    /\ UNCHANGED <<recent, writer, told, ordered, newest, events, reply, panel>>
-----------------------------------------------------------------------------
(* The panel *)

\* mergeLogBatch: from the first entry numbered past after.
Merge(previous, batch, after) ==
    IF \E i \in DOMAIN batch : batch[i].n > after
    THEN LET first == CHOOSE i \in DOMAIN batch :
                        /\ batch[i].n > after
                        /\ \A j \in 1..(i - 1) : batch[j].n <= after
         IN  previous \o SubSeq(batch, first, Len(batch))
    ELSE previous

LastSeq(s, otherwise) == IF s = <<>> THEN otherwise ELSE Last(s).n
Later(m, n) == IF m > n THEN m ELSE n

\* apply
Applied(p, batch) ==
    [p EXCEPT !.lines = Merge(@, batch, p.last),
              !.last = Later(@, LastSeq(batch, @))]

NoReply == [at |-> "none", history |-> <<>>]
Asked == [at |-> "asked", history |-> <<>>]

OpenPanel ==
    /\ panel.at = "closed" /\ panel.opens < PanelOpens
    /\ panel' = [panel EXCEPT !.at = "subscribing", !.opens = @ + 1]
    /\ UNCHANGED <<recent, writer, barrier, reserved, told, ordered, newest, events, reply>>

\* Mutant: the history is asked for before the listener is in place.
ListenAfterHistory ==
    /\ \/ /\ panel.at = "subscribing" /\ reply = NoReply
          /\ reply' = Asked /\ UNCHANGED panel
       \/ /\ panel.at = "subscribing" /\ reply # NoReply
          /\ panel' = [panel EXCEPT !.at = "loading"]
          /\ UNCHANGED reply
    /\ UNCHANGED <<recent, writer, barrier, reserved, told, ordered, newest, events>>

\* unsubscribe.ready: the listener is in place, and the history is asked for.
Listen ==
    /\ panel.at = "subscribing"
    /\ panel' = [panel EXCEPT !.at = "loading"]
    /\ reply' = Asked
    /\ UNCHANGED <<recent, writer, barrier, reserved, told, ordered, newest, events>>

\* log_recent
ReadRecent ==
    /\ reply = Asked
    /\ reply' = [at |-> "sent", history |-> recent.records]
    /\ UNCHANGED <<recent, writer, barrier, reserved, told, ordered, newest, events, panel>>

HistoryArrives ==
    /\ panel.at = "loading" /\ reply.at = "sent"
    /\ panel' = Applied([panel EXCEPT !.at = "following", !.pending = <<>>,
                            !.last = Later(LastSeq(reply.history, 0), panel.cleared),
                            !.lines = Merge(<<>>, reply.history, panel.cleared)],
                        panel.pending)
    /\ reply' = NoReply
    /\ UNCHANGED <<recent, writer, barrier, reserved, told, ordered, newest, events>>

\* hasLogGap
HasGap(batch) == Head(batch).n > panel.last + 1

BatchArrives ==
    /\ Listening /\ events # <<>>
    /\ events' = Tail(events)
    /\ LET batch == Head(events)
       IN  \/ /\ panel.at = "loading"
              /\ panel' = [panel EXCEPT !.pending = Merge(@, batch, LastSeq(@, 0))]
              /\ UNCHANGED reply
           \/ /\ panel.at = "following" /\ HasGap(batch)
              /\ panel' = [panel EXCEPT !.at = "loading", !.pending = batch]
              /\ reply' = Asked
           \/ /\ panel.at = "following" /\ ~HasGap(batch)
              /\ panel' = Applied(panel, batch)
              /\ UNCHANGED reply
    /\ UNCHANGED <<recent, writer, barrier, reserved, told, ordered, newest>>

ClearPanel ==
    /\ panel.at = "following"
    /\ panel.cleared < panel.last
    /\ panel' = [panel EXCEPT !.cleared = panel.last, !.lines = <<>>]
    /\ UNCHANGED <<recent, writer, barrier, reserved, told, ordered, newest, events, reply>>

\* What is under way finds the panel gone.
ClosePanel ==
    /\ Listening
    /\ panel' = [panel EXCEPT !.at = "closed", !.pending = <<>>, !.lines = <<>>]
    /\ events' = <<>> /\ reply' = NoReply
    /\ UNCHANGED <<recent, writer, barrier, reserved, told, ordered, newest>>
-----------------------------------------------------------------------------
LogInit ==
    /\ recent = [next |-> 1, dropped |-> {}, records |-> <<>>, queue |-> <<>>]
    /\ writer = [at |-> "recv", batch |-> <<>>, ack |-> FALSE]
    /\ barrier = [at |-> "idle", round |-> 0, before |-> {}]
    /\ reserved = FALSE
    /\ told = {} /\ ordered = TRUE /\ newest = 0
    /\ events = <<>> /\ reply = NoReply
    /\ panel = [at |-> "closed", pending |-> <<>>, lines |-> <<>>, last |-> 0,
                cleared |-> 0, opens |-> 0]

LogNext ==
    \/ Push
    \/ TakeFirst \/ ReportDropped \/ Gather \/ GatherEnds \/ LogPublish \/ Appended
    \/ Flush \/ FillPlace \/ FlushTimesOut
    \/ OpenPanel \/ Listen \/ ReadRecent \/ HistoryArrives \/ BatchArrives
    \/ ClearPanel \/ ClosePanel

LogSpec == LogInit /\ [][LogNext]_logVars
-----------------------------------------------------------------------------
LogTypeOK ==
    /\ recent.next \in 1..(2 * MaxSeq + 2)
    /\ Len(recent.queue) + (IF reserved THEN 1 ELSE 0) <= WriterCapacity
    /\ writer.at \in {"recv", "report", "gather", "publish", "append"}
    /\ Len(writer.batch) <= BatchCapacity
    /\ barrier.round \in 0..2
    /\ panel.at \in {"closed", "subscribing", "loading", "following"}

\* A flush that finished drained every record pushed before it, published or
\* counted in a published notice, however full the queue was; and batches
\* leave in the order of their numbers.
\*
\* The panel that follows shows each record once and in order, from what the
\* user cleared to the newest it took in, or a notice that counts it; once
\* nothing is under way the newest published is among them.
EveryRecordIsTold ==
    /\ barrier.at = "done" => barrier.before \subseteq told
    /\ ordered
    /\ panel.at = "following" =>
        /\ \A i \in 1..(Len(panel.lines) - 1) : panel.lines[i].n < panel.lines[i+1].n
        /\ (panel.cleared + 1)..panel.last
             \subseteq UNION {{r.n} \cup r.lost : r \in ToSet(panel.lines)}
        /\ events = <<>> => newest <= panel.last
=============================================================================
