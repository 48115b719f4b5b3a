----------------------------- MODULE TransferRows -----------------------------
(***************************************************************************)
(* What the transfer list shows.  The backend batches the notices of an    *)
(* attempt and sends them from timers; the answer of the command that runs *)
(* the attempt goes another way and may overtake them.  The window's row   *)
(* is settled by the answer of the attempt that is still its own.          *)
(***************************************************************************)
EXTENDS Naturals, FiniteSets, Sequences

CONSTANTS
    RowStarts,    \* how often the row is started
    RowNotices    \* notices sent altogether, the last ones apart

ASSUME RowsAssumption == RowStarts \in Nat \ {0} /\ RowNotices \in Nat

VARIABLES
    emitter,   \* ProgressEmitter: pending, queued_after and its timers
    command,   \* per attempt, the command in the backend
    said,      \* notices sent so far, bounded by RowNotices
    arriving,  \* payloads on their way to the window, in order
    row        \* the row, with cancelIntentRef

rowVars == <<emitter, command, said, arriving, row>>

RowAttempts == 1..RowStarts
SettledStatuses == {"done", "error", "stopped", "paused"}
-----------------------------------------------------------------------------
(* ProgressEmitter *)

\* A number no value of a set has: the least, so that a wait or a timer that
\* is over leaves no trace.
Unused(taken) == CHOOSE n \in 1..(Cardinality(taken) + 1) :
                    n \notin taken /\ \A m \in 1..(n - 1) : m \in taken

\* One timer per time an attempt's place in pending is taken anew.
Timer(e, a) == [of |-> a, nr |-> Unused({t.nr : t \in e.timers}),
                at |-> "sleeping", word |-> "none", since |-> 0]

\* Instant::now: an instant no timer has looked at.
Now(e, a) == Unused({t.since : t \in {t \in e.timers : t.of = a}} \ {0})

\* enqueue, of a notice that the attempt is queued or at work.  A wait that
\* follows work in the same window is shown only if it lasts.
Enqueued(e, a, word) ==
    LET worked == word = "progress"
        e1 == IF worked THEN [e EXCEPT !.since[a] = 0] ELSE e
        waits == ~worked /\ e.pending[a] = "progress"
    IN  IF e.pending[a] = "none"
        THEN [e1 EXCEPT !.pending[a] = word, !.timers = @ \cup {Timer(e, a)}]
        ELSE [e1 EXCEPT !.pending[a] = IF waits THEN "progress" ELSE word,
                        !.since[a] = IF waits THEN Now(e, a) ELSE @]

\* enqueue, of a last notice: what still waits is folded into it.
LastNotice(e, a) == [e EXCEPT !.pending[a] = "none", !.since[a] = 0]

Replaced(e, t, new) == [e EXCEPT !.timers = (@ \ {t}) \cup new]

\* The window of 100 ms ended: the timer takes what waits.
FlushTakes(t) ==
    /\ t.at = "sleeping"
    /\ LET word == emitter.pending[t.of]
           e == [emitter EXCEPT !.pending[t.of] = "none"]
       IN emitter' = Replaced(e, t, IF word = "none" THEN {}
                                    ELSE {[t EXCEPT !.at = "holding", !.word = word]})
    /\ UNCHANGED <<said, command, arriving, row>>

\* It sends it, the lock long released.
FlushEmits(t) ==
    /\ t.at = "holding"
    /\ arriving' = Append(arriving, [of |-> t.of, word |-> t.word])
    /\ emitter' = Replaced(emitter, t, {[t EXCEPT !.at = "looking", !.word = "none"]})
    /\ UNCHANGED <<said, command, row>>

\* A wait after work, if there is one, is given a second more.
LooksForWait(t) ==
    /\ t.at = "looking"
    /\ LET since == emitter.since[t.of]
       IN emitter' = Replaced(emitter, t, IF since = 0 THEN {}
                                          ELSE {[t EXCEPT !.at = "waiting", !.since = since]})
    /\ UNCHANGED <<said, command, arriving, row>>

WaitLasted(t) ==
    /\ t.at = "waiting"
    /\ emitter' = IF emitter.since[t.of] = t.since
                  THEN Replaced([emitter EXCEPT !.since[t.of] = 0], t, {[t EXCEPT !.at = "queueing"]})
                  ELSE Replaced(emitter, t, {})
    /\ UNCHANGED <<said, command, arriving, row>>

SaysQueued(t) ==
    /\ t.at = "queueing"
    /\ emitter' = Enqueued(Replaced(emitter, t, {}), t.of, "queued")
    /\ UNCHANGED <<said, command, arriving, row>>
-----------------------------------------------------------------------------
(* An attempt in the backend *)

\* make_progress_sink, dispatch_notifier, a child rolled up into its walk.
Reports(a, word) ==
    /\ command[a] = "running" /\ said < RowNotices
    /\ said' = said + 1
    /\ emitter' = Enqueued(emitter, a, word)
    /\ UNCHANGED <<command, arriving, row>>

\* The task ended, with a last notice or, dropped by a cancel, without one.
\* Then the command answers.
AttemptEnds(a, told) ==
    /\ command[a] = "running"
    /\ \E ok \in BOOLEAN : command' = [command EXCEPT ![a] = IF ok THEN "well" ELSE "badly"]
    /\ emitter' = IF told THEN LastNotice(emitter, a) ELSE emitter
    /\ arriving' = IF told THEN Append(arriving, [of |-> a, word |-> "last"]) ELSE arriving
    /\ UNCHANGED <<said, row>>
-----------------------------------------------------------------------------
(* The window *)

\* A progress notice, as applied to a row that has the attempt.  A straggler
\* does not wake a settled row; a row being cancelled waits for the answer; a
\* last notice brings numbers only.  Mutant: stragglers are applied.
AppliedLate(r, word) ==
    IF r.status = "cancelling" \/ word = "last" THEN r
    ELSE [r EXCEPT !.status = IF r.intent # "none" THEN r.intent ELSE word]

AppliedNotice(r, word) ==
    IF word = "last" \/ r.status \in SettledStatuses \cup {"cancelling"} THEN r
    ELSE [r EXCEPT !.status = IF r.intent # "none" THEN r.intent ELSE word]

\* transferForAttempt: only the row's own attempt finds it.
TakeNotice ==
    /\ arriving # <<>> /\ arriving' = Tail(arriving)
    /\ row' = IF Head(arriving).of = row.attempt THEN AppliedNotice(row, Head(arriving).word) ELSE row
    /\ UNCHANGED <<said, emitter, command>>

\* settleTransferResult: the answer of the attempt that is still the row's.
TakeAnswer(a) ==
    /\ command[a] \in {"well", "badly"}
    /\ command' = [command EXCEPT ![a] = "answered"]
    /\ row' = IF row.attempt # a THEN row
              ELSE [row EXCEPT !.status = CASE command[a] = "well" -> "done"
                                            [] row.intent # "none" -> row.intent
                                            [] OTHER -> "error"]
    /\ UNCHANGED <<said, emitter, arriving>>

\* startTransfer and beginAttempt, or requeueAttempt: a fresh attempt, the
\* old intent dropped.
StartAttempt ==
    /\ row.attempt < RowStarts /\ row.status \in {"none", "error", "stopped", "paused"}
    /\ row' = [attempt |-> row.attempt + 1, status |-> "queued", intent |-> "none"]
    /\ command' = [command EXCEPT ![row.attempt + 1] = "running"]
    /\ UNCHANGED <<said, emitter, arriving>>

\* requestCancel: a row at work waits for its attempt, a paused one is
\* stopped at once.
RequestCancel(intent) ==
    /\ row.status \in {"queued", "progress", "paused", "cancelling"}
    /\ intent = "paused" => row.status # "paused"
    /\ row' = [row EXCEPT !.intent = intent,
                          !.status = CASE row.status \in {"queued", "progress"} -> "cancelling"
                                       [] row.status = "paused" -> intent
                                       [] OTHER -> @]
    /\ UNCHANGED <<said, emitter, command, arriving>>
-----------------------------------------------------------------------------
RowsInit ==
    /\ emitter = [pending |-> [a \in RowAttempts |-> "none"],
                  since |-> [a \in RowAttempts |-> 0],
                  timers |-> {}]
    /\ command = [a \in RowAttempts |-> "idle"]
    /\ said = 0
    /\ arriving = <<>>
    /\ row = [attempt |-> 0, status |-> "none", intent |-> "none"]

RowsNext ==
    \/ \E t \in emitter.timers :
          FlushTakes(t) \/ FlushEmits(t) \/ LooksForWait(t) \/ WaitLasted(t) \/ SaysQueued(t)
    \/ \E a \in RowAttempts :
          \/ \E word \in {"queued", "progress"} : Reports(a, word)
          \/ \E told \in BOOLEAN : AttemptEnds(a, told)
          \/ TakeAnswer(a)
    \/ TakeNotice \/ StartAttempt
    \/ \E intent \in {"paused", "stopped"} : RequestCancel(intent)

RowsSpec == RowsInit /\ [][RowsNext]_rowVars

RowsTypeOK ==
    /\ emitter.pending \in [RowAttempts -> {"none", "queued", "progress"}]
    /\ emitter.since \in [RowAttempts -> Nat]
    /\ \A t \in emitter.timers : t.of \in RowAttempts /\ t.nr \in Nat \ {0}
    /\ said \in 0..RowNotices
    /\ \A a \in RowAttempts :
          command[a] \in {"idle", "running", "well", "badly", "answered"}
    /\ \A i \in DOMAIN arriving : arriving[i].of \in RowAttempts
    /\ row.status \in SettledStatuses \cup {"none", "queued", "progress", "cancelling"}
    /\ row.intent \in {"none", "paused", "stopped"}

(* A row is settled exactly when its own attempt has answered: no late     *)
(* notice of a timer puts a settled row back to work, where nothing is     *)
(* left to finish it or to answer a Stop, and nothing settles a row while  *)
(* its attempt runs (useTransferProgressAdapter, settleTransferResult).    *)
RowFollowsItsAttempt ==
    row.attempt # 0 =>
        (row.status \in SettledStatuses <=> command[row.attempt] = "answered")
=============================================================================
