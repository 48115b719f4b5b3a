-------------------------- MODULE Desktop_proofs ----------------------------
(***************************************************************************)
(* What the program keeps for its user: the rows of the transfer queue,    *)
(* the sleep inhibitor, the updates, the grants, the saved passwords, the  *)
(* stored documents, the last word about quitting, the protocol log and the *)
(* import of settings.                                                     *)
(***************************************************************************)
EXTENDS TransferRows, SleepGuard, Updater, SensitiveGrants, VaultSecrets,
        StoredDocument, Quit, ProtocolLog, SitesTransfer, Integers, FiniteSetTheorems,
        SequenceTheorems, WellFoundedInduction, TLAPS
-----------------------------------------------------------------------------
(* TransferRows: a row follows its attempt *)
Words == {"none", "queued", "progress"}
Notices == [of : RowAttempts, word : Words \cup {"last"}]

TimerFits(t) ==
    /\ t = [of |-> t.of, nr |-> t.nr, at |-> t.at, word |-> t.word, since |-> t.since]
    /\ t.of \in RowAttempts /\ t.word \in Words

\* What waits in the backend and what is on its way says no more than that an
\* attempt waits, works or has ended.
NoticesSayLittle ==
    /\ emitter = [pending |-> emitter.pending, since |-> emitter.since, timers |-> emitter.timers]
    /\ emitter.pending \in [RowAttempts -> Words]
    /\ \A t \in emitter.timers : TimerFits(t)
    /\ arriving \in Seq(Notices)

\* Attempts begin in order, and the row's is the last that has begun.
AttemptsInOrder ==
    /\ row \in [attempt : 0..RowStarts, intent : {"none", "paused", "stopped"},
                status : SettledStatuses \cup Words \cup {"cancelling"}]
    /\ command \in [RowAttempts -> {"idle", "running", "well", "badly", "answered"}]
    /\ \A a \in RowAttempts : command[a] = "idle" <=> a > row.attempt

\* An intent is kept by a row that is being cancelled or is settled: no notice
\* can turn it into a status.
IntentIsHeld == row.intent # "none" => row.status \in SettledStatuses \cup {"cancelling"}

RowsInv == NoticesSayLittle /\ AttemptsInOrder /\ IntentIsHeld /\ RowFollowsItsAttempt
-----------------------------------------------------------------------------
(* A row begins without an attempt. *)
LEMMA RowsInvInit == RowsInit => RowsInv
<1> SUFFICES ASSUME RowsInit PROVE RowsInv
  OBVIOUS
<1> USE RowsAssumption DEF RowsInit, RowAttempts
<1>1. NoticesSayLittle
  BY DEF NoticesSayLittle, Words
<1>2. AttemptsInOrder
  BY DEF AttemptsInOrder, Words
<1>3. IntentIsHeld /\ RowFollowsItsAttempt
  BY DEF IntentIsHeld, RowFollowsItsAttempt
<1> QED
  BY <1>1, <1>2, <1>3 DEF RowsInv

(* A timer goes on as a timer of its attempt. *)
LEMMA TimerMoves ==
  ASSUME NEW t, TimerFits(t), NEW to, NEW word \in Words, NEW since
  PROVE  /\ TimerFits([t EXCEPT !.at = to, !.word = word])
         /\ TimerFits([t EXCEPT !.at = to, !.since = since])
         /\ TimerFits([t EXCEPT !.at = to])
<1> DEFINE moved == [of |-> t.of, nr |-> t.nr, at |-> to, word |-> t.word, since |-> t.since]
<1>1. t.of \in RowAttempts /\ t.word \in Words
  BY DEF TimerFits
<1>2. [t EXCEPT !.at = to] = moved
  BY DEF TimerFits
<1>3. /\ TimerFits(moved)
      /\ TimerFits([moved EXCEPT !.word = word]) /\ TimerFits([moved EXCEPT !.since = since])
  <2>1. [moved EXCEPT !.word = word]
            = [of |-> t.of, nr |-> t.nr, at |-> to, word |-> word, since |-> t.since]
    OBVIOUS
  <2>2. [moved EXCEPT !.since = since]
            = [of |-> t.of, nr |-> t.nr, at |-> to, word |-> t.word, since |-> since]
    OBVIOUS
  <2>3. ASSUME NEW other \in Words, NEW any
        PROVE  TimerFits([of |-> t.of, nr |-> t.nr, at |-> to, word |-> other, since |-> any])
    BY <1>1 DEF TimerFits
  <2> QED
    BY <1>1, <2>1, <2>2, <2>3
<1>4. /\ [t EXCEPT !.at = to, !.word = word] = [[t EXCEPT !.at = to] EXCEPT !.word = word]
      /\ [t EXCEPT !.at = to, !.since = since] = [[t EXCEPT !.at = to] EXCEPT !.since = since]
  OBVIOUS
<1> HIDE DEF moved
<1> QED
  BY <1>2, <1>3, <1>4, Zenon

(* A step of the emitter that adds fitting timers says no more than before. *)
LEMMA EmitterKeeps ==
  ASSUME NoticesSayLittle, NEW heard \in [RowAttempts -> Words], NEW since, NEW timers,
         \A t \in timers : t \in emitter.timers \/ TimerFits(t),
         emitter' = [pending |-> heard, since |-> since, timers |-> timers],
         arriving' \in Seq(Notices)
  PROVE  NoticesSayLittle'
<1>1. emitter'.pending = heard /\ emitter'.since = since /\ emitter'.timers = timers
  OBVIOUS
<1>2. \A t \in emitter'.timers : TimerFits(t)
  BY <1>1 DEF NoticesSayLittle
<1>3. (\A t \in emitter.timers : TimerFits(t))'
  BY <1>2 DEF TimerFits, RowAttempts, Words
<1> QED
  BY <1>1, <1>3 DEF NoticesSayLittle, Notices, RowAttempts, Words

(* enqueue changes what waits, and may start a timer. *)
LEMMA EnqueuedKeeps ==
  ASSUME NoticesSayLittle, NEW a \in RowAttempts, NEW word \in {"queued", "progress"},
         NEW timers, timers \subseteq emitter.timers,
         emitter' = Enqueued([emitter EXCEPT !.timers = timers], a, word), UNCHANGED arriving
  PROVE  NoticesSayLittle'
<1> DEFINE e == [emitter EXCEPT !.timers = timers]
           e1 == IF word = "progress" THEN [e EXCEPT !.since[a] = 0] ELSE e
           since == IF word = "progress" THEN [e.since EXCEPT ![a] = 0] ELSE e.since
<1>1. e = [pending |-> emitter.pending, since |-> emitter.since, timers |-> timers]
  BY DEF NoticesSayLittle
<1>2. e.pending = emitter.pending /\ e.timers = timers
  BY <1>1
<1>3. e1 = [pending |-> emitter.pending, since |-> since, timers |-> timers]
  BY <1>1
<1>4. TimerFits(Timer(e, a))
  BY DEF Timer, TimerFits, Words
<1>5. arriving' \in Seq(Notices)
  BY DEF NoticesSayLittle
<1>6. CASE emitter.pending[a] = "none"
  <2> DEFINE heard == [emitter.pending EXCEPT ![a] = word]
             more == timers \cup {Timer(e, a)}
  <2>1. emitter' = [[pending |-> emitter.pending, since |-> since, timers |-> timers] EXCEPT
                        !.pending[a] = word, !.timers = @ \cup {Timer(e, a)}]
    BY <1>2, <1>3, <1>6 DEF Enqueued
  <2>2. heard \in [RowAttempts -> Words]
    BY DEF NoticesSayLittle, Words
  <2>3. \A t \in more : t \in emitter.timers \/ TimerFits(t)
    BY <1>4
  <2> HIDE DEF e, e1, since
  <2>4. emitter' = [pending |-> heard, since |-> since, timers |-> more]
    BY <2>1
  <2> HIDE DEF heard, more
  <2> QED
    BY <2>2, <2>3, <2>4, <1>5, EmitterKeeps
<1>7. CASE emitter.pending[a] # "none"
  <2> DEFINE waits == word # "progress" /\ emitter.pending[a] = "progress"
             heard == [emitter.pending EXCEPT ![a] = IF waits THEN "progress" ELSE word]
             later == [since EXCEPT ![a] = IF waits THEN Now(e, a) ELSE @]
  <2>1. emitter' = [e1 EXCEPT !.pending[a] = IF waits THEN "progress" ELSE word,
                              !.since[a] = IF waits THEN Now(e, a) ELSE @]
    BY <1>2, <1>7 DEF Enqueued
  <2>2. heard \in [RowAttempts -> Words]
    BY DEF NoticesSayLittle, Words
  <2> HIDE DEF e, e1, since, waits
  <2>3. emitter' = [pending |-> heard, since |-> later, timers |-> timers]
    BY <1>3, <2>1
  <2> HIDE DEF heard, later
  <2> QED
    BY <2>2, <2>3, <1>5, EmitterKeeps
<1> QED
  BY <1>6, <1>7

(* The emitter's own steps bring nothing new. *)
LEMMA TimersKeep ==
  ASSUME NoticesSayLittle, NEW t \in emitter.timers,
         FlushTakes(t) \/ FlushEmits(t) \/ LooksForWait(t) \/ WaitLasted(t) \/ SaysQueued(t)
  PROVE  NoticesSayLittle'
<1> DEFINE record == [pending |-> emitter.pending, since |-> emitter.since,
                      timers |-> emitter.timers]
           others == emitter.timers \ {t}
<1>1. /\ emitter = record /\ emitter.pending \in [RowAttempts -> Words]
      /\ TimerFits(t) /\ t.of \in RowAttempts /\ arriving \in Seq(Notices)
  BY DEF NoticesSayLittle, TimerFits
<1>2. CASE FlushTakes(t)
  <2> DEFINE word == emitter.pending[t.of]
             heard == [emitter.pending EXCEPT ![t.of] = "none"]
             new == IF word = "none" THEN {} ELSE {[t EXCEPT !.at = "holding", !.word = word]}
             timers == others \cup new
  <2>1. emitter' = [[record EXCEPT !.pending[t.of] = "none"] EXCEPT !.timers = (@ \ {t}) \cup new]
    BY <1>1, <1>2 DEF FlushTakes, Replaced
  <2>2. emitter' = [pending |-> heard, since |-> emitter.since, timers |-> timers]
    BY <2>1
  <2>3. heard \in [RowAttempts -> Words] /\ word \in Words
    BY <1>1 DEF Words
  <2>4. TimerFits([t EXCEPT !.at = "holding", !.word = word])
    BY <1>1, <2>3, TimerMoves
  <2>5. \A u \in timers : u \in emitter.timers \/ TimerFits(u)
    BY <2>4
  <2>6. arriving' \in Seq(Notices)
    BY <1>1, <1>2 DEF FlushTakes
  <2> HIDE DEF heard, timers
  <2> QED
    BY <2>2, <2>3, <2>5, <2>6, EmitterKeeps
<1>3. CASE FlushEmits(t)
  <2> DEFINE new == [t EXCEPT !.at = "looking", !.word = "none"]
             timers == others \cup {new}
  <2>1. emitter' = [record EXCEPT !.timers = (@ \ {t}) \cup {new}]
    BY <1>1, <1>3 DEF FlushEmits, Replaced
  <2>2. emitter' = [pending |-> emitter.pending, since |-> emitter.since, timers |-> timers]
    BY <2>1
  <2>3. TimerFits(new)
    BY <1>1, TimerMoves DEF Words
  <2>4. \A u \in timers : u \in emitter.timers \/ TimerFits(u)
    BY <2>3
  <2>5. arriving' \in Seq(Notices)
    <3>1. [of |-> t.of, word |-> t.word] \in Notices
      BY <1>1 DEF TimerFits, Notices
    <3> QED
      BY <1>1, <1>3, <3>1 DEF FlushEmits
  <2> HIDE DEF timers
  <2> QED
    BY <1>1, <2>2, <2>4, <2>5, EmitterKeeps
<1>4. CASE LooksForWait(t)
  <2> DEFINE onHold == [t EXCEPT !.at = "waiting", !.since = emitter.since[t.of]]
             new == IF emitter.since[t.of] = 0 THEN {} ELSE {onHold}
             timers == others \cup new
  <2>1. emitter' = [record EXCEPT !.timers = (@ \ {t}) \cup new]
    BY <1>1, <1>4 DEF LooksForWait, Replaced
  <2>2. emitter' = [pending |-> emitter.pending, since |-> emitter.since, timers |-> timers]
    BY <2>1
  <2>3. TimerFits(onHold)
    BY <1>1, TimerMoves
  <2>4. \A u \in timers : u \in emitter.timers \/ TimerFits(u)
    BY <2>3
  <2>5. arriving' \in Seq(Notices)
    BY <1>1, <1>4 DEF LooksForWait
  <2> HIDE DEF timers
  <2> QED
    BY <1>1, <2>2, <2>4, <2>5, EmitterKeeps
<1>5. CASE WaitLasted(t)
  <2> DEFINE queueing == [t EXCEPT !.at = "queueing"]
             lasted == emitter.since[t.of] = t.since
             since == IF lasted THEN [emitter.since EXCEPT ![t.of] = 0] ELSE emitter.since
             timers == others \cup IF lasted THEN {queueing} ELSE {}
  <2>1. emitter' = IF lasted
          THEN [[record EXCEPT !.since[t.of] = 0] EXCEPT !.timers = (@ \ {t}) \cup {queueing}]
          ELSE [record EXCEPT !.timers = (@ \ {t}) \cup {}]
    BY <1>1, <1>5 DEF WaitLasted, Replaced
  <2>2. emitter' = [pending |-> emitter.pending, since |-> since, timers |-> timers]
    BY <2>1
  <2>3. TimerFits(queueing)
    BY <1>1, TimerMoves
  <2>4. \A u \in timers : u \in emitter.timers \/ TimerFits(u)
    BY <2>3
  <2>5. arriving' \in Seq(Notices)
    BY <1>1, <1>5 DEF WaitLasted
  <2> HIDE DEF since, timers
  <2> QED
    BY <1>1, <2>2, <2>4, <2>5, EmitterKeeps
<1>6. CASE SaysQueued(t)
  <2>1. Replaced(emitter, t, {}) = [emitter EXCEPT !.timers = others]
    BY <1>1 DEF Replaced
  <2> QED
    BY <1>1, <1>6, <2>1, EnqueuedKeeps DEF SaysQueued
<1> QED
  BY <1>2, <1>3, <1>4, <1>5, <1>6

(* Every step keeps the invariant. *)
LEMMA RowsInvStep ==
  ASSUME RowsInv, [RowsNext]_rowVars
  PROVE  RowsInv'
<1> USE RowsAssumption DEF RowsInv
<1> DEFINE Holds == NoticesSayLittle' => RowsInv'
<1>1. CASE UNCHANGED rowVars
  BY <1>1 DEF rowVars, NoticesSayLittle, AttemptsInOrder, IntentIsHeld, RowFollowsItsAttempt
<1>2. ASSUME UNCHANGED <<command, row>> PROVE Holds
  BY <1>2 DEF AttemptsInOrder, IntentIsHeld, RowFollowsItsAttempt
<1>3. ASSUME NEW t \in emitter.timers,
             FlushTakes(t) \/ FlushEmits(t) \/ LooksForWait(t) \/ WaitLasted(t) \/ SaysQueued(t)
      PROVE  RowsInv'
  <2>1. UNCHANGED <<command, row>>
    BY <1>3 DEF FlushTakes, FlushEmits, LooksForWait, WaitLasted, SaysQueued
  <2> QED
    BY <2>1, <1>2, <1>3, TimersKeep
<1>4. ASSUME NEW a \in RowAttempts, NEW word \in {"queued", "progress"}, Reports(a, word)
      PROVE  RowsInv'
  <2>1. emitter = [emitter EXCEPT !.timers = emitter.timers]
    BY DEF NoticesSayLittle
  <2>2. NoticesSayLittle'
    BY <1>4, <2>1, EnqueuedKeeps DEF Reports
  <2> QED
    BY <1>4, <2>2, <1>2 DEF Reports
<1>5. ASSUME NEW a \in RowAttempts, NEW spoken \in BOOLEAN, AttemptEnds(a, spoken)
      PROVE  RowsInv'
  <2>1. NoticesSayLittle'
    <3> DEFINE heard == [emitter.pending EXCEPT ![a] = "none"]
               since == [emitter.since EXCEPT ![a] = 0]
    <3>1. heard \in [RowAttempts -> Words] /\ arriving' \in Seq(Notices)
      <4>1. [of |-> a, word |-> "last"] \in Notices
        BY DEF Notices
      <4> QED
        BY <1>5, <4>1 DEF AttemptEnds, NoticesSayLittle, Words
    <3>2. CASE spoken
      <4>1. emitter' = [pending |-> heard, since |-> since, timers |-> emitter.timers]
        BY <1>5, <3>2 DEF AttemptEnds, LastNotice, NoticesSayLittle
      <4> HIDE DEF heard, since
      <4> QED
        BY <3>1, <4>1, EmitterKeeps
    <3>3. CASE ~spoken
      BY <1>5, <3>3 DEF AttemptEnds, NoticesSayLittle, TimerFits, Notices
    <3> QED
      BY <3>2, <3>3
  <2>2. AttemptsInOrder'
    BY <1>5 DEF AttemptEnds, AttemptsInOrder
  <2>3. IntentIsHeld' /\ RowFollowsItsAttempt'
    BY <1>5 DEF AttemptEnds, IntentIsHeld, RowFollowsItsAttempt, AttemptsInOrder, RowAttempts
  <2> QED
    BY <2>1, <2>2, <2>3
<1>6. ASSUME NEW a \in RowAttempts, TakeAnswer(a)
      PROVE  RowsInv'
  <2>1. NoticesSayLittle'
    BY <1>6 DEF TakeAnswer, NoticesSayLittle
  <2>2. AttemptsInOrder'
    BY <1>6 DEF TakeAnswer, AttemptsInOrder, SettledStatuses
  <2>3. IntentIsHeld' /\ RowFollowsItsAttempt'
    BY <1>6 DEF TakeAnswer, IntentIsHeld, RowFollowsItsAttempt, AttemptsInOrder, RowAttempts,
                SettledStatuses
  <2> QED
    BY <2>1, <2>2, <2>3
<1>7. CASE TakeNotice
  <2>1. Head(arriving) \in Notices /\ Tail(arriving) \in Seq(Notices)
    BY <1>7 DEF TakeNotice, NoticesSayLittle
  <2>2. NoticesSayLittle'
    BY <1>7, <2>1 DEF TakeNotice, NoticesSayLittle
  <2>3. AttemptsInOrder' /\ IntentIsHeld' /\ RowFollowsItsAttempt'
    BY <1>7, <2>1 DEF TakeNotice, AppliedNotice, AttemptsInOrder, IntentIsHeld,
                      RowFollowsItsAttempt, Notices, Words, SettledStatuses
  <2> QED
    BY <2>2, <2>3
<1>8. CASE StartAttempt
  <2>1. NoticesSayLittle'
    BY <1>8 DEF StartAttempt, NoticesSayLittle
  <2>2. row.attempt + 1 \in RowAttempts
    BY <1>8 DEF StartAttempt, AttemptsInOrder, RowAttempts
  <2>3. AttemptsInOrder'
    BY <1>8, <2>2 DEF StartAttempt, AttemptsInOrder, RowAttempts, Words
  <2>4. IntentIsHeld' /\ RowFollowsItsAttempt'
    BY <1>8, <2>2 DEF StartAttempt, IntentIsHeld, RowFollowsItsAttempt, AttemptsInOrder,
                      SettledStatuses
  <2> QED
    BY <2>1, <2>3, <2>4
<1>9. ASSUME NEW intent \in {"paused", "stopped"}, RequestCancel(intent)
      PROVE  RowsInv'
  <2>1. NoticesSayLittle'
    BY <1>9 DEF RequestCancel, NoticesSayLittle
  <2>2. AttemptsInOrder' /\ IntentIsHeld' /\ RowFollowsItsAttempt'
    BY <1>9 DEF RequestCancel, AttemptsInOrder, IntentIsHeld, RowFollowsItsAttempt,
                SettledStatuses, Words
  <2> QED
    BY <2>1, <2>2
<1> QED
  BY <1>1, <1>3, <1>4, <1>5, <1>6, <1>7, <1>8, <1>9 DEF RowsNext

(* However notices, timers and answers overtake each other, a row is       *)
(* settled exactly when the command of its own attempt has answered        *)
(* (useTransferProgressAdapter, settleTransferResult).                     *)
THEOREM RowsFollowTheirAttempts == RowsSpec => []RowFollowsItsAttempt
<1>1. RowsInv => RowFollowsItsAttempt
  BY DEF RowsInv
<1>2. RowsInv /\ [RowsNext]_rowVars => RowsInv'
  BY RowsInvStep
<1> QED
  BY <1>1, <1>2, RowsInvInit, PTL DEF RowsSpec
-----------------------------------------------------------------------------
(* SleepGuard: the inhibitor follows the transfers *)
(* The guard starts with nothing wanted and nothing held. *)
LEMMA SleepInvInit == SleepInit => SleepInv
<1> SUFFICES ASSUME SleepInit PROVE SleepInv
  OBVIOUS
<1>1. SleepTypeOK
  BY DEF SleepInit, SleepTypeOK
<1>2. FlagIsCurrent /\ Settling
  BY DEF SleepInit, FlagIsCurrent, Settling, Wanted
<1>3. OldReading
  BY DEF SleepInit, OldReading
<1> QED
  BY <1>1, <1>2, <1>3 DEF SleepInv

(* Every call and every step of the thread keeps the invariant. *)
LEMMA SleepInvStep ==
  ASSUME SleepInv, [SleepNext]_sleepVars
  PROVE  SleepInv'
<1> USE DEF SleepInv, SleepTypeOK, FlagIsCurrent, Settling, OldReading, Wanted, NobodyAsks
<1>1. CASE UNCHANGED sleepVars
  BY <1>1 DEF sleepVars
<1>2. ASSUME NEW t \in Sleepers, TransferStarted(t)
      PROVE  SleepInv'
  BY <1>2 DEF TransferStarted
<1>3. ASSUME NEW t \in Sleepers, TransferFinished(t)
      PROVE  SleepInv'
  <2>1. CASE atWork = {t}
    <3>1. atWork' = {}
      BY <1>3, <2>1 DEF TransferFinished
    <3> QED
      BY <1>3, <2>1, <3>1 DEF TransferFinished
  <2>2. CASE atWork # {t}
    <3>1. atWork' # {} /\ atWork # {}
      BY <1>3, <2>2 DEF TransferFinished
    <3> QED
      BY <1>3, <2>2, <3>1 DEF TransferFinished
  <2> QED
    BY <2>1, <2>2
<1>4. CASE SetEnabled
  <2>1. atWork' = atWork /\ required' = required /\ wakeup' = wakeup
        /\ worker' = worker /\ inhibitor' = inhibitor /\ refused' = refused
    BY <1>4 DEF SetEnabled
  <2>2. asking = "no" /\ asking' \in {"no", "stores"}
    BY <1>4 DEF SetEnabled
  <2>3. enabled' \in BOOLEAN
    BY <1>4 DEF SetEnabled
  <2>4. SleepTypeOK'
    BY <2>1, <2>2, <2>3
  <2>5. asking' = "no" => atWork' = {}
    BY <1>4, <2>1 DEF SetEnabled
  <2>6. asking' = "no" => required = FALSE
    BY <2>1, <2>2, <2>5
  <2>7. FlagIsCurrent'
    BY <2>1, <2>2, <2>5, <2>6
  <2>8. Settling' /\ OldReading'
    BY <2>1, <2>2
  <2> QED
    BY <2>4, <2>7, <2>8
<1>5. CASE RequestSleep
  <2>1. CASE asking = "stores"
    <3>1. /\ asking' = "wakes" /\ required' = Wanted
          /\ UNCHANGED <<atWork, enabled, wakeup, worker, inhibitor, refused>>
      BY <1>5, <2>1 DEF RequestSleep
    <3>2. Wanted \in BOOLEAN
      OBVIOUS
    <3>3. SleepTypeOK'
      BY <3>1, <3>2
    <3>4. Wanted' = Wanted
      BY <3>1
    <3>5. FlagIsCurrent'
      BY <3>1, <3>4
    <3>6. Settling' /\ OldReading'
      BY <3>1
    <3> QED
      BY <3>3, <3>5, <3>6
  <2>2. CASE asking = "wakes"
    BY <1>5, <2>2 DEF RequestSleep
  <2> QED
    BY <1>5, <2>1, <2>2 DEF RequestSleep
<1>6. CASE WorkerWakes
  BY <1>6 DEF WorkerWakes
<1>7. CASE WorkerReads
  BY <1>7 DEF WorkerReads
<1>8. ASSUME NEW granted \in BOOLEAN, WorkerActs(granted)
      PROVE  SleepInv'
  BY <1>8 DEF WorkerActs
<1> QED
  BY <1>1, <1>2, <1>3, <1>4, <1>5, <1>6, <1>7, <1>8 DEF SleepNext

(* At rest the machine is kept awake exactly for a running transfer whose  *)
(* user wants that, unless the system refused: for any set of transfers.    *)
THEOREM InhibitorIsRight == SleepSpec => []InhibitorFollowsTransfers
<1>1. SleepInit => SleepInv
  BY SleepInvInit
<1>2. SleepInv /\ [SleepNext]_sleepVars => SleepInv'
  BY SleepInvStep
<1>3. SleepInv => InhibitorFollowsTransfers
  BY DEF SleepInv, SleepTypeOK, FlagIsCurrent, Settling, InhibitorFollowsTransfers, NobodyAsks
<1> QED
  BY <1>1, <1>2, <1>3, PTL DEF SleepSpec
-----------------------------------------------------------------------------
(* Updater: a version that failed waits for the user *)
\* The types of the variables, in five parts.
ProgramTypes ==
    /\ program \in 0 .. MaxVersion /\ running \in 0 .. MaxVersion
    /\ replaced \in 0 .. MaxVersion /\ installing \in 0 .. MaxVersion
StagedTypes ==
    /\ artifact \in 0 .. MaxVersion /\ failedRec \in 0 .. MaxVersion
    /\ upManifest \in [version : 0 .. MaxVersion, attempted : BOOLEAN]
    /\ lastFailed \in 0 .. MaxVersion
UpdaterPlaces ==
    /\ uKind \in {"installer", "portable", "unix"} /\ byUser \in BOOLEAN
    /\ uPc \in {"off", "startup", "idle", "found", "written", "leaving", "marked", "swapping"}
OfferTypes ==
    /\ available \in [version : 0 .. MaxVersion, carries : 0 .. MaxVersion]
    /\ feed \in [version : 0 .. MaxVersion, carries : 0 .. MaxVersion]
    /\ downloaded \in 0 .. MaxVersion
CountTypes == offers \in 0 .. MaxOffers /\ faults \in 0 .. MaxFaults

\* The process runs the program on disk, but for the moment of a swap, and an
\* installer runs by itself only after the process has left.
RunsWhatIsInstalled ==
    /\ uPc = "off" => running = 0
    /\ uPc \notin {"off", "swapping"} => running = program
    /\ uPc = "swapping" => replaced = running
    /\ installing # 0 => uPc = "off" /\ program < installing

\* From the mark on, the manifest tells what is being installed.
MarkedInstallation ==
    /\ uPc \in {"marked", "swapping"} =>
          upManifest.attempted /\ artifact = upManifest.version /\ running < artifact
    /\ installing # 0 => upManifest.attempted /\ installing = upManifest.version
    /\ upManifest.attempted => lastFailed \in {0, upManifest.version}
    /\ upManifest.attempted => upManifest.version # 0

\* A version that failed is remembered, in the record or by the mark that the
\* next launch reads, until the program has passed it.
FailureIsRemembered ==
    lastFailed # 0 =>
        \/ failedRec = lastFailed
        \/ uPc \in {"off", "startup"} /\ upManifest.attempted /\ upManifest.version = lastFailed
        \/ uPc = "off" /\ (lastFailed <= program \/ program = 0)
        \/ uPc # "off" /\ lastFailed <= running

\* An installation on its way that nobody asked for is of another version.
LeavesUnasked == uPc = "leaving" /\ ~byUser => upManifest.version # lastFailed

(* The inductive invariant: the failure that counts is written down, or its  *)
(* mark waits for the next launch.                                          *)
UpdaterInv ==
    /\ ProgramTypes /\ StagedTypes /\ UpdaterPlaces /\ OfferTypes /\ CountTypes
    /\ RunsWhatIsInstalled /\ MarkedInstallation /\ FailureIsRemembered /\ LeavesUnasked

(* The bounds are numbers, and there is a version to begin with. *)
LEMMA UpdaterBounds ==
  /\ MaxVersion \in Nat /\ MaxOffers \in Nat /\ MaxFaults \in Nat /\ MaxVersion >= 1
BY UpdaterAssumption

(* An empty manifest is a manifest, and a mark keeps the version. *)
LEMMA ManifestShape ==
  /\ NoManifest \in [version : 0 .. MaxVersion, attempted : BOOLEAN]
  /\ \A m \in [version : 0 .. MaxVersion, attempted : BOOLEAN] :
        /\ m.version \in 0 .. MaxVersion
        /\ [m EXCEPT !.attempted = TRUE] \in [version : 0 .. MaxVersion, attempted : BOOLEAN]
<1>1. 0 \in 0 .. MaxVersion /\ FALSE \in BOOLEAN /\ TRUE \in BOOLEAN
  BY UpdaterBounds
<1> QED
  BY <1>1, Zenon DEF NoManifest

(* Every step of the updater, its installer and the feed keeps it. *)
LEMMA UpdaterInvStep ==
  ASSUME UpdaterInv, [UpdaterNext]_updaterVars
  PROVE  UpdaterInv'
<1> USE DEF UpdaterInv
<1> USE UpdaterBounds
<1>1. CASE UNCHANGED updaterVars
  <2>1. ProgramTypes'
    BY <1>1 DEF updaterVars, diskVars, memVars, ProgramTypes
  <2>2. StagedTypes'
    BY <1>1 DEF updaterVars, diskVars, StagedTypes
  <2>3. UpdaterPlaces'
    BY <1>1 DEF updaterVars, UpdaterPlaces
  <2>4. OfferTypes'
    BY <1>1 DEF updaterVars, memVars, envVars, OfferTypes
  <2>5. CountTypes'
    BY <1>1 DEF updaterVars, envVars, CountTypes
  <2>6. RunsWhatIsInstalled'
    BY <1>1 DEF updaterVars, diskVars, memVars, RunsWhatIsInstalled, ProgramTypes,
         UpdaterPlaces
  <2>7. MarkedInstallation'
    BY <1>1 DEF updaterVars, diskVars, memVars, MarkedInstallation, ProgramTypes,
         StagedTypes, UpdaterPlaces
  <2>8. FailureIsRemembered'
    BY <1>1 DEF updaterVars, diskVars, memVars, FailureIsRemembered, ProgramTypes,
         StagedTypes, UpdaterPlaces
  <2>9. LeavesUnasked'
    BY <1>1 DEF updaterVars, diskVars, LeavesUnasked, StagedTypes, UpdaterPlaces
  <2> QED
    BY <2>1, <2>2, <2>3, <2>4, <2>5, <2>6, <2>7, <2>8, <2>9 DEF UpdaterInv
<1>2. CASE LaunchProgram
  <2>1. ProgramTypes'
    BY <1>2 DEF LaunchProgram, ProgramTypes
  <2>2. StagedTypes'
    BY <1>2 DEF LaunchProgram, StagedTypes
  <2>3. UpdaterPlaces'
    BY <1>2 DEF LaunchProgram, UpdaterPlaces
  <2>4. OfferTypes'
    BY <1>2 DEF LaunchProgram, envVars, OfferTypes
  <2>5. CountTypes'
    BY <1>2 DEF LaunchProgram, envVars, CountTypes
  <2>6. RunsWhatIsInstalled'
    BY <1>2 DEF LaunchProgram, RunsWhatIsInstalled, ProgramTypes, UpdaterPlaces
  <2>7. MarkedInstallation'
    BY <1>2 DEF LaunchProgram, MarkedInstallation, ProgramTypes, StagedTypes,
         UpdaterPlaces
  <2>8. FailureIsRemembered'
    BY <1>2 DEF LaunchProgram, FailureIsRemembered, ProgramTypes, StagedTypes,
         UpdaterPlaces
  <2>9. LeavesUnasked'
    BY <1>2 DEF LaunchProgram, LeavesUnasked, StagedTypes, UpdaterPlaces
  <2> QED
    BY <2>1, <2>2, <2>3, <2>4, <2>5, <2>6, <2>7, <2>8, <2>9 DEF UpdaterInv
<1>3. CASE InstallAtStartup
  <2>1. ProgramTypes'
    BY <1>3 DEF InstallAtStartup, Ready, Clear, FailedVersion, memVars, Newer,
         ProgramTypes
  <2>2. StagedTypes'
    <3>1. upManifest' \in {NoManifest, upManifest, [upManifest EXCEPT !.attempted = TRUE]}
      BY <1>3 DEF InstallAtStartup, Clear, Emptied, MarkAttempted
    <3>2. upManifest' \in [version : 0 .. MaxVersion, attempted : BOOLEAN]
      BY <3>1, ManifestShape, Zenon DEF StagedTypes
    <3>3. artifact' \in 0 .. MaxVersion
      BY <1>3 DEF InstallAtStartup, Clear, Emptied, MarkAttempted, StagedTypes, OfferTypes
    <3>4. failedRec' \in 0 .. MaxVersion
      BY <1>3, ManifestShape DEF InstallAtStartup, Clear, Emptied, MarkAttempted, StagedTypes
    <3>5. lastFailed' \in 0 .. MaxVersion
      BY <1>3, ManifestShape DEF InstallAtStartup, Clear, Emptied, MarkAttempted, StagedTypes
    <3> QED
      BY <3>2, <3>3, <3>4, <3>5 DEF StagedTypes
  <2>3. UpdaterPlaces'
    BY <1>3 DEF InstallAtStartup, MarkAttempted, UpdaterPlaces
  <2>4. OfferTypes'
    BY <1>3 DEF InstallAtStartup, memVars, envVars, OfferTypes
  <2>5. CountTypes'
    BY <1>3 DEF InstallAtStartup, envVars, CountTypes
  <2>6. RunsWhatIsInstalled'
    BY <1>3 DEF InstallAtStartup, Ready, Clear, FailedVersion, MarkAttempted, memVars,
         Newer, RunsWhatIsInstalled, ProgramTypes, UpdaterPlaces
  <2>7. MarkedInstallation'
    BY <1>3 DEF InstallAtStartup, Ready, Clear, FailedVersion, MarkAttempted, memVars,
         envVars, Newer, PassesChecks, Emptied, NoManifest, MarkedInstallation,
         ProgramTypes, StagedTypes, UpdaterPlaces, OfferTypes, CountTypes,
         RunsWhatIsInstalled, FailureIsRemembered, LeavesUnasked
  <2>8. FailureIsRemembered'
    BY <1>3 DEF InstallAtStartup, Ready, Clear, FailedVersion, MarkAttempted, memVars,
         envVars, Newer, PassesChecks, Emptied, NoManifest, FailureIsRemembered,
         ProgramTypes, StagedTypes, UpdaterPlaces, OfferTypes, CountTypes,
         RunsWhatIsInstalled, MarkedInstallation, LeavesUnasked
  <2>9. LeavesUnasked'
    BY <1>3 DEF InstallAtStartup, Ready, Clear, MarkAttempted, Newer, PassesChecks,
         Emptied, NoManifest, LeavesUnasked, StagedTypes, UpdaterPlaces
  <2> QED
    BY <2>1, <2>2, <2>3, <2>4, <2>5, <2>6, <2>7, <2>8, <2>9 DEF UpdaterInv
<1>4. CASE ResumeAtStartup
  <2>1. ProgramTypes'
    BY <1>4 DEF ResumeAtStartup, Ready, Clear, FailedVersion, Withdrawn, Newer, NoOffer,
         ProgramTypes
  <2>2. StagedTypes'
    <3>1. upManifest' \in {NoManifest, upManifest}
      BY <1>4 DEF ResumeAtStartup, Clear, Emptied, Withdrawn
    <3>2. upManifest' \in [version : 0 .. MaxVersion, attempted : BOOLEAN]
      BY <3>1, ManifestShape, Zenon DEF StagedTypes
    <3>3. artifact' \in 0 .. MaxVersion
      BY <1>4 DEF ResumeAtStartup, Clear, Emptied, Withdrawn, StagedTypes, OfferTypes
    <3>4. failedRec' \in 0 .. MaxVersion
      BY <1>4, ManifestShape DEF ResumeAtStartup, Clear, Emptied, Withdrawn, StagedTypes
    <3>5. lastFailed' \in 0 .. MaxVersion
      BY <1>4, ManifestShape DEF ResumeAtStartup, Clear, Emptied, Withdrawn, StagedTypes
    <3> QED
      BY <3>2, <3>3, <3>4, <3>5 DEF StagedTypes
  <2>3. UpdaterPlaces'
    BY <1>4 DEF ResumeAtStartup, Withdrawn, NoOffer, UpdaterPlaces
  <2>4. OfferTypes'
    BY <1>4 DEF ResumeAtStartup, Ready, Clear, FailedVersion, Withdrawn, envVars, Newer,
         PassesChecks, Emptied, NoOffer, NoManifest, OfferTypes, ProgramTypes,
         StagedTypes, UpdaterPlaces, CountTypes
  <2>5. CountTypes'
    BY <1>4 DEF ResumeAtStartup, envVars, CountTypes
  <2>6. RunsWhatIsInstalled'
    BY <1>4 DEF ResumeAtStartup, Ready, Clear, FailedVersion, Withdrawn, Newer, NoOffer,
         RunsWhatIsInstalled, ProgramTypes, UpdaterPlaces
  <2>7. MarkedInstallation'
    BY <1>4 DEF ResumeAtStartup, Ready, Clear, FailedVersion, Withdrawn, envVars, Newer,
         PassesChecks, Emptied, NoOffer, NoManifest, MarkedInstallation, ProgramTypes,
         StagedTypes, UpdaterPlaces, OfferTypes, CountTypes, RunsWhatIsInstalled,
         FailureIsRemembered, LeavesUnasked
  <2>8. FailureIsRemembered'
    BY <1>4 DEF ResumeAtStartup, Ready, Clear, FailedVersion, Withdrawn, envVars, Newer,
         PassesChecks, Emptied, NoOffer, NoManifest, FailureIsRemembered, ProgramTypes,
         StagedTypes, UpdaterPlaces, OfferTypes, CountTypes, RunsWhatIsInstalled,
         MarkedInstallation, LeavesUnasked
  <2>9. LeavesUnasked'
    BY <1>4 DEF ResumeAtStartup, Ready, Clear, FailedVersion, Withdrawn, envVars, Newer,
         PassesChecks, Emptied, NoOffer, NoManifest, LeavesUnasked, ProgramTypes,
         StagedTypes, UpdaterPlaces, OfferTypes, CountTypes, RunsWhatIsInstalled,
         MarkedInstallation, FailureIsRemembered
  <2> QED
    BY <2>1, <2>2, <2>3, <2>4, <2>5, <2>6, <2>7, <2>8, <2>9 DEF UpdaterInv
<1>5. CASE Check
  <2>1. ProgramTypes'
    BY <1>5 DEF Check, NoOffer, FailedVersion, ProgramTypes
  <2>2. StagedTypes'
    BY <1>5 DEF Check, NoOffer, FailedVersion, StagedTypes
  <2>3. UpdaterPlaces'
    BY <1>5 DEF Check, NoOffer, UpdaterPlaces
  <2>4. OfferTypes'
    BY <1>5 DEF Check, NoOffer, envVars, OfferTypes
  <2>5. CountTypes'
    BY <1>5 DEF Check, NoOffer, envVars, CountTypes
  <2>6. RunsWhatIsInstalled'
    BY <1>5 DEF Check, NoOffer, FailedVersion, RunsWhatIsInstalled, ProgramTypes,
         UpdaterPlaces
  <2>7. MarkedInstallation'
    BY <1>5 DEF Check, NoOffer, FailedVersion, MarkedInstallation, ProgramTypes,
         StagedTypes, UpdaterPlaces
  <2>8. FailureIsRemembered'
    BY <1>5 DEF Check, NoOffer, FailedVersion, FailureIsRemembered, ProgramTypes,
         StagedTypes, UpdaterPlaces
  <2>9. LeavesUnasked'
    BY <1>5 DEF Check, NoOffer, LeavesUnasked, StagedTypes, UpdaterPlaces
  <2> QED
    BY <2>1, <2>2, <2>3, <2>4, <2>5, <2>6, <2>7, <2>8, <2>9 DEF UpdaterInv
<1>6. CASE Download
  <2>1. ProgramTypes'
    BY <1>6 DEF Download, NoOffer, diskVars, memVars, ProgramTypes
  <2>2. StagedTypes'
    BY <1>6 DEF Download, NoOffer, diskVars, StagedTypes
  <2>3. UpdaterPlaces'
    BY <1>6 DEF Download, NoOffer, UpdaterPlaces
  <2>4. OfferTypes'
    BY <1>6 DEF Download, NoOffer, memVars, envVars, OfferTypes
  <2>5. CountTypes'
    BY <1>6 DEF Download, NoOffer, envVars, CountTypes
  <2>6. RunsWhatIsInstalled'
    BY <1>6 DEF Download, NoOffer, diskVars, memVars, RunsWhatIsInstalled, ProgramTypes,
         UpdaterPlaces
  <2>7. MarkedInstallation'
    BY <1>6 DEF Download, NoOffer, diskVars, memVars, MarkedInstallation, ProgramTypes,
         StagedTypes, UpdaterPlaces
  <2>8. FailureIsRemembered'
    BY <1>6 DEF Download, NoOffer, diskVars, memVars, FailureIsRemembered, ProgramTypes,
         StagedTypes, UpdaterPlaces
  <2>9. LeavesUnasked'
    BY <1>6 DEF Download, NoOffer, diskVars, LeavesUnasked, StagedTypes, UpdaterPlaces
  <2> QED
    BY <2>1, <2>2, <2>3, <2>4, <2>5, <2>6, <2>7, <2>8, <2>9 DEF UpdaterInv
<1>7. CASE WriteArtifact
  <2>1. ProgramTypes'
    BY <1>7 DEF WriteArtifact, NoManifest, memVars, ProgramTypes
  <2>2. StagedTypes'
    <3>1. upManifest' \in {NoManifest, upManifest}
      BY <1>7 DEF WriteArtifact
    <3>2. upManifest' \in [version : 0 .. MaxVersion, attempted : BOOLEAN]
      BY <3>1, ManifestShape, Zenon DEF StagedTypes
    <3>3. artifact' \in 0 .. MaxVersion
      BY <1>7 DEF WriteArtifact, StagedTypes, OfferTypes
    <3>4. failedRec' \in 0 .. MaxVersion
      BY <1>7, ManifestShape DEF WriteArtifact, StagedTypes
    <3>5. lastFailed' \in 0 .. MaxVersion
      BY <1>7, ManifestShape DEF WriteArtifact, StagedTypes
    <3> QED
      BY <3>2, <3>3, <3>4, <3>5 DEF StagedTypes
  <2>3. UpdaterPlaces'
    BY <1>7 DEF WriteArtifact, NoManifest, UpdaterPlaces
  <2>4. OfferTypes'
    BY <1>7 DEF WriteArtifact, NoManifest, memVars, envVars, OfferTypes
  <2>5. CountTypes'
    BY <1>7 DEF WriteArtifact, NoManifest, envVars, CountTypes
  <2>6. RunsWhatIsInstalled'
    BY <1>7 DEF WriteArtifact, NoManifest, memVars, RunsWhatIsInstalled, ProgramTypes,
         UpdaterPlaces
  <2>7. MarkedInstallation'
    BY <1>7 DEF WriteArtifact, NoManifest, memVars, envVars, MarkedInstallation,
         ProgramTypes, StagedTypes, UpdaterPlaces, OfferTypes, CountTypes,
         RunsWhatIsInstalled, FailureIsRemembered, LeavesUnasked
  <2>8. FailureIsRemembered'
    BY <1>7 DEF WriteArtifact, NoManifest, memVars, FailureIsRemembered, ProgramTypes,
         StagedTypes, UpdaterPlaces
  <2>9. LeavesUnasked'
    BY <1>7 DEF WriteArtifact, NoManifest, LeavesUnasked, StagedTypes, UpdaterPlaces
  <2> QED
    BY <2>1, <2>2, <2>3, <2>4, <2>5, <2>6, <2>7, <2>8, <2>9 DEF UpdaterInv
<1>8. CASE WriteManifest
  <2>1. ProgramTypes'
    BY <1>8 DEF WriteManifest, NoOffer, ProgramTypes
  <2>2. StagedTypes'
    BY <1>8 DEF WriteManifest, NoOffer, envVars, StagedTypes, ProgramTypes, UpdaterPlaces,
         OfferTypes, CountTypes
  <2>3. UpdaterPlaces'
    BY <1>8 DEF WriteManifest, NoOffer, UpdaterPlaces
  <2>4. OfferTypes'
    BY <1>8 DEF WriteManifest, NoOffer, envVars, OfferTypes
  <2>5. CountTypes'
    BY <1>8 DEF WriteManifest, NoOffer, envVars, CountTypes
  <2>6. RunsWhatIsInstalled'
    BY <1>8 DEF WriteManifest, NoOffer, RunsWhatIsInstalled, ProgramTypes, UpdaterPlaces
  <2>7. MarkedInstallation'
    BY <1>8 DEF WriteManifest, NoOffer, envVars, MarkedInstallation, ProgramTypes,
         StagedTypes, UpdaterPlaces, OfferTypes, CountTypes, RunsWhatIsInstalled,
         FailureIsRemembered, LeavesUnasked
  <2>8. FailureIsRemembered'
    BY <1>8 DEF WriteManifest, NoOffer, FailureIsRemembered, ProgramTypes, StagedTypes,
         UpdaterPlaces
  <2>9. LeavesUnasked'
    BY <1>8 DEF WriteManifest, NoOffer, LeavesUnasked, StagedTypes, UpdaterPlaces
  <2> QED
    BY <2>1, <2>2, <2>3, <2>4, <2>5, <2>6, <2>7, <2>8, <2>9 DEF UpdaterInv
<1>9. CASE InstallNow
  <2>1. ProgramTypes'
    BY <1>9 DEF InstallNow, Ready, Clear, Withdrawn, Newer, NoOffer, ProgramTypes
  <2>2. StagedTypes'
    <3>1. upManifest' \in {NoManifest, upManifest}
      BY <1>9 DEF InstallNow, Clear, Emptied, Withdrawn
    <3>2. upManifest' \in [version : 0 .. MaxVersion, attempted : BOOLEAN]
      BY <3>1, ManifestShape, Zenon DEF StagedTypes
    <3>3. artifact' \in 0 .. MaxVersion
      BY <1>9 DEF InstallNow, Clear, Emptied, Withdrawn, StagedTypes, OfferTypes
    <3>4. failedRec' \in 0 .. MaxVersion
      BY <1>9, ManifestShape DEF InstallNow, Clear, Emptied, Withdrawn, StagedTypes
    <3>5. lastFailed' \in 0 .. MaxVersion
      BY <1>9, ManifestShape DEF InstallNow, Clear, Emptied, Withdrawn, StagedTypes
    <3> QED
      BY <3>2, <3>3, <3>4, <3>5 DEF StagedTypes
  <2>3. UpdaterPlaces'
    BY <1>9 DEF InstallNow, Withdrawn, NoOffer, UpdaterPlaces
  <2>4. OfferTypes'
    BY <1>9 DEF InstallNow, Withdrawn, envVars, NoOffer, OfferTypes
  <2>5. CountTypes'
    BY <1>9 DEF InstallNow, envVars, CountTypes
  <2>6. RunsWhatIsInstalled'
    BY <1>9 DEF InstallNow, Ready, Clear, Withdrawn, Newer, NoOffer, RunsWhatIsInstalled,
         ProgramTypes, UpdaterPlaces
  <2>7. MarkedInstallation'
    BY <1>9 DEF InstallNow, Ready, Clear, Withdrawn, envVars, Newer, PassesChecks,
         Emptied, NoOffer, NoManifest, MarkedInstallation, ProgramTypes, StagedTypes,
         UpdaterPlaces, OfferTypes, CountTypes, RunsWhatIsInstalled, FailureIsRemembered,
         LeavesUnasked
  <2>8. FailureIsRemembered'
    BY <1>9 DEF InstallNow, Ready, Clear, Withdrawn, envVars, Newer, PassesChecks,
         Emptied, NoOffer, NoManifest, FailureIsRemembered, ProgramTypes, StagedTypes,
         UpdaterPlaces, OfferTypes, CountTypes, RunsWhatIsInstalled, MarkedInstallation,
         LeavesUnasked
  <2>9. LeavesUnasked'
    BY <1>9 DEF InstallNow, Ready, Clear, Withdrawn, Newer, PassesChecks, Emptied,
         NoOffer, NoManifest, LeavesUnasked, StagedTypes, UpdaterPlaces
  <2> QED
    BY <2>1, <2>2, <2>3, <2>4, <2>5, <2>6, <2>7, <2>8, <2>9 DEF UpdaterInv
<1>10. CASE MarkNow
  <2>1. ProgramTypes'
    BY <1>10 DEF MarkNow, Ready, memVars, Newer, ProgramTypes
  <2>2. StagedTypes'
    BY <1>10 DEF MarkNow, Ready, MarkAttempted, memVars, envVars, Newer, PassesChecks,
         StagedTypes, ProgramTypes, UpdaterPlaces, OfferTypes, CountTypes,
         RunsWhatIsInstalled, MarkedInstallation, FailureIsRemembered, LeavesUnasked
  <2>3. UpdaterPlaces'
    BY <1>10 DEF MarkNow, MarkAttempted, UpdaterPlaces
  <2>4. OfferTypes'
    BY <1>10 DEF MarkNow, memVars, envVars, OfferTypes
  <2>5. CountTypes'
    BY <1>10 DEF MarkNow, envVars, CountTypes
  <2>6. RunsWhatIsInstalled'
    BY <1>10 DEF MarkNow, Ready, MarkAttempted, memVars, Newer, RunsWhatIsInstalled,
         ProgramTypes, UpdaterPlaces
  <2>7. MarkedInstallation'
    BY <1>10 DEF MarkNow, Ready, MarkAttempted, memVars, Newer, PassesChecks,
         MarkedInstallation, ProgramTypes, StagedTypes, UpdaterPlaces
  <2>8. FailureIsRemembered'
    BY <1>10 DEF MarkNow, Ready, MarkAttempted, memVars, Newer, PassesChecks,
         FailureIsRemembered, ProgramTypes, StagedTypes, UpdaterPlaces
  <2>9. LeavesUnasked'
    BY <1>10 DEF MarkNow, Ready, MarkAttempted, Newer, PassesChecks, LeavesUnasked,
         StagedTypes, UpdaterPlaces
  <2> QED
    BY <2>1, <2>2, <2>3, <2>4, <2>5, <2>6, <2>7, <2>8, <2>9 DEF UpdaterInv
<1>11. CASE StartInstaller
  <2>1. ProgramTypes'
    BY <1>11 DEF StartInstaller, Leave, envVars, Fault, NotStarted, NoOffer, memVars,
         ProgramTypes, StagedTypes, UpdaterPlaces, OfferTypes, CountTypes
  <2>2. StagedTypes'
    BY <1>11 DEF StartInstaller, NotStarted, StagedTypes
  <2>3. UpdaterPlaces'
    BY <1>11 DEF StartInstaller, Leave, NotStarted, NoOffer, UpdaterPlaces
  <2>4. OfferTypes'
    BY <1>11 DEF StartInstaller, Leave, envVars, NotStarted, NoOffer, memVars, OfferTypes
  <2>5. CountTypes'
    BY <1>11 DEF StartInstaller, envVars, Fault, NotStarted, CountTypes
  <2>6. RunsWhatIsInstalled'
    BY <1>11 DEF StartInstaller, Leave, envVars, Fault, NotStarted, NoOffer, memVars,
         RunsWhatIsInstalled, ProgramTypes, StagedTypes, UpdaterPlaces, OfferTypes,
         CountTypes, MarkedInstallation, FailureIsRemembered, LeavesUnasked
  <2>7. MarkedInstallation'
    BY <1>11 DEF StartInstaller, Leave, NotStarted, NoOffer, memVars, MarkedInstallation,
         ProgramTypes, StagedTypes, UpdaterPlaces
  <2>8. FailureIsRemembered'
    BY <1>11 DEF StartInstaller, Leave, envVars, Fault, NotStarted, NoOffer, memVars,
         FailureIsRemembered, ProgramTypes, StagedTypes, UpdaterPlaces, OfferTypes,
         CountTypes, RunsWhatIsInstalled, MarkedInstallation, LeavesUnasked
  <2>9. LeavesUnasked'
    BY <1>11 DEF StartInstaller, Leave, NotStarted, NoOffer, LeavesUnasked, StagedTypes,
         UpdaterPlaces
  <2> QED
    BY <2>1, <2>2, <2>3, <2>4, <2>5, <2>6, <2>7, <2>8, <2>9 DEF UpdaterInv
<1>12. CASE InstallerEnds
  <2>1. ProgramTypes'
    BY <1>12 DEF InstallerEnds, memVars, ProgramTypes
  <2>2. StagedTypes'
    BY <1>12 DEF InstallerEnds, Fault, memVars, StagedTypes, ProgramTypes, UpdaterPlaces,
         OfferTypes, CountTypes
  <2>3. UpdaterPlaces'
    BY <1>12 DEF InstallerEnds, UpdaterPlaces
  <2>4. OfferTypes'
    BY <1>12 DEF InstallerEnds, memVars, OfferTypes
  <2>5. CountTypes'
    BY <1>12 DEF InstallerEnds, Fault, CountTypes
  <2>6. RunsWhatIsInstalled'
    BY <1>12 DEF InstallerEnds, memVars, RunsWhatIsInstalled, ProgramTypes, UpdaterPlaces
  <2>7. MarkedInstallation'
    BY <1>12 DEF InstallerEnds, memVars, MarkedInstallation, ProgramTypes, StagedTypes,
         UpdaterPlaces
  <2>8. FailureIsRemembered'
    BY <1>12 DEF InstallerEnds, Fault, memVars, FailureIsRemembered, ProgramTypes,
         StagedTypes, UpdaterPlaces, OfferTypes, CountTypes, RunsWhatIsInstalled,
         MarkedInstallation, LeavesUnasked
  <2>9. LeavesUnasked'
    BY <1>12 DEF InstallerEnds, Fault, memVars, LeavesUnasked, ProgramTypes, StagedTypes,
         UpdaterPlaces, OfferTypes, CountTypes, RunsWhatIsInstalled, MarkedInstallation,
         FailureIsRemembered
  <2> QED
    BY <2>1, <2>2, <2>3, <2>4, <2>5, <2>6, <2>7, <2>8, <2>9 DEF UpdaterInv
<1>13. CASE SwapOut
  <2>1. ProgramTypes'
    BY <1>13 DEF SwapOut, memVars, NotStarted, Leave, NoOffer, ProgramTypes
  <2>2. StagedTypes'
    BY <1>13 DEF SwapOut, NotStarted, StagedTypes
  <2>3. UpdaterPlaces'
    BY <1>13 DEF SwapOut, NotStarted, Leave, NoOffer, UpdaterPlaces
  <2>4. OfferTypes'
    BY <1>13 DEF SwapOut, memVars, envVars, NotStarted, Leave, NoOffer, OfferTypes
  <2>5. CountTypes'
    BY <1>13 DEF SwapOut, envVars, Fault, NotStarted, CountTypes
  <2>6. RunsWhatIsInstalled'
    BY <1>13 DEF SwapOut, memVars, NotStarted, Leave, NoOffer, RunsWhatIsInstalled,
         ProgramTypes, UpdaterPlaces
  <2>7. MarkedInstallation'
    BY <1>13 DEF SwapOut, memVars, NotStarted, Leave, NoOffer, MarkedInstallation,
         ProgramTypes, StagedTypes, UpdaterPlaces
  <2>8. FailureIsRemembered'
    BY <1>13 DEF SwapOut, memVars, envVars, Fault, NotStarted, Leave, NoOffer,
         FailureIsRemembered, ProgramTypes, StagedTypes, UpdaterPlaces, OfferTypes,
         CountTypes, RunsWhatIsInstalled, MarkedInstallation, LeavesUnasked
  <2>9. LeavesUnasked'
    BY <1>13 DEF SwapOut, NotStarted, Leave, NoOffer, LeavesUnasked, StagedTypes,
         UpdaterPlaces
  <2> QED
    BY <2>1, <2>2, <2>3, <2>4, <2>5, <2>6, <2>7, <2>8, <2>9 DEF UpdaterInv
<1>14. CASE SwapIn
  <2>1. ProgramTypes'
    BY <1>14 DEF SwapIn, Leave, envVars, Fault, NotStarted, NoOffer, memVars,
         ProgramTypes, StagedTypes, UpdaterPlaces, OfferTypes, CountTypes
  <2>2. StagedTypes'
    BY <1>14 DEF SwapIn, NotStarted, StagedTypes
  <2>3. UpdaterPlaces'
    BY <1>14 DEF SwapIn, Leave, NotStarted, NoOffer, UpdaterPlaces
  <2>4. OfferTypes'
    BY <1>14 DEF SwapIn, Leave, envVars, NotStarted, NoOffer, memVars, OfferTypes
  <2>5. CountTypes'
    BY <1>14 DEF SwapIn, envVars, Fault, NotStarted, CountTypes
  <2>6. RunsWhatIsInstalled'
    BY <1>14 DEF SwapIn, Leave, NotStarted, NoOffer, memVars, RunsWhatIsInstalled,
         ProgramTypes, UpdaterPlaces
  <2>7. MarkedInstallation'
    BY <1>14 DEF SwapIn, Leave, NotStarted, NoOffer, memVars, MarkedInstallation,
         ProgramTypes, StagedTypes, UpdaterPlaces
  <2>8. FailureIsRemembered'
    BY <1>14 DEF SwapIn, Leave, envVars, Fault, NotStarted, NoOffer, memVars,
         FailureIsRemembered, ProgramTypes, StagedTypes, UpdaterPlaces, OfferTypes,
         CountTypes, RunsWhatIsInstalled, MarkedInstallation, LeavesUnasked
  <2>9. LeavesUnasked'
    BY <1>14 DEF SwapIn, Leave, NotStarted, NoOffer, LeavesUnasked, StagedTypes,
         UpdaterPlaces
  <2> QED
    BY <2>1, <2>2, <2>3, <2>4, <2>5, <2>6, <2>7, <2>8, <2>9 DEF UpdaterInv
<1>15. CASE InstallUnix
  <2>1. ProgramTypes'
    BY <1>15 DEF InstallUnix, Leave, Fault, NoOffer, ProgramTypes, StagedTypes,
         UpdaterPlaces, OfferTypes, CountTypes
  <2>2. StagedTypes'
    BY <1>15 DEF InstallUnix, StagedTypes
  <2>3. UpdaterPlaces'
    BY <1>15 DEF InstallUnix, Leave, NoOffer, UpdaterPlaces
  <2>4. OfferTypes'
    BY <1>15 DEF InstallUnix, Leave, NoOffer, OfferTypes
  <2>5. CountTypes'
    BY <1>15 DEF InstallUnix, Fault, CountTypes
  <2>6. RunsWhatIsInstalled'
    BY <1>15 DEF InstallUnix, Leave, NoOffer, RunsWhatIsInstalled, ProgramTypes,
         UpdaterPlaces
  <2>7. MarkedInstallation'
    BY <1>15 DEF InstallUnix, Leave, NoOffer, MarkedInstallation, ProgramTypes,
         StagedTypes, UpdaterPlaces
  <2>8. FailureIsRemembered'
    BY <1>15 DEF InstallUnix, Leave, Fault, NoOffer, FailureIsRemembered, ProgramTypes,
         StagedTypes, UpdaterPlaces, OfferTypes, CountTypes, RunsWhatIsInstalled,
         MarkedInstallation, LeavesUnasked
  <2>9. LeavesUnasked'
    BY <1>15 DEF InstallUnix, Leave, NoOffer, LeavesUnasked, StagedTypes, UpdaterPlaces
  <2> QED
    BY <2>1, <2>2, <2>3, <2>4, <2>5, <2>6, <2>7, <2>8, <2>9 DEF UpdaterInv
<1>16. CASE Exit
  <2>1. ProgramTypes'
    BY <1>16 DEF Exit, Leave, diskVars, NoOffer, ProgramTypes
  <2>2. StagedTypes'
    BY <1>16 DEF Exit, diskVars, StagedTypes
  <2>3. UpdaterPlaces'
    BY <1>16 DEF Exit, Leave, NoOffer, UpdaterPlaces
  <2>4. OfferTypes'
    BY <1>16 DEF Exit, Leave, envVars, NoOffer, OfferTypes
  <2>5. CountTypes'
    BY <1>16 DEF Exit, envVars, CountTypes
  <2>6. RunsWhatIsInstalled'
    BY <1>16 DEF Exit, Leave, diskVars, NoOffer, RunsWhatIsInstalled, ProgramTypes,
         UpdaterPlaces
  <2>7. MarkedInstallation'
    BY <1>16 DEF Exit, Leave, diskVars, NoOffer, MarkedInstallation, ProgramTypes,
         StagedTypes, UpdaterPlaces
  <2>8. FailureIsRemembered'
    BY <1>16 DEF Exit, Leave, diskVars, envVars, NoOffer, FailureIsRemembered,
         ProgramTypes, StagedTypes, UpdaterPlaces, OfferTypes, CountTypes,
         RunsWhatIsInstalled, MarkedInstallation, LeavesUnasked
  <2>9. LeavesUnasked'
    BY <1>16 DEF Exit, Leave, diskVars, NoOffer, LeavesUnasked, StagedTypes, UpdaterPlaces
  <2> QED
    BY <2>1, <2>2, <2>3, <2>4, <2>5, <2>6, <2>7, <2>8, <2>9 DEF UpdaterInv
<1>17. CASE FeedChanges
  <2>1. ProgramTypes'
    BY <1>17 DEF FeedChanges, UVersions, diskVars, memVars, ProgramTypes
  <2>2. StagedTypes'
    BY <1>17 DEF FeedChanges, UVersions, diskVars, StagedTypes
  <2>3. UpdaterPlaces'
    BY <1>17 DEF FeedChanges, UVersions, UpdaterPlaces
  <2>4. OfferTypes'
    BY <1>17 DEF FeedChanges, UVersions, memVars, OfferTypes
  <2>5. CountTypes'
    BY <1>17 DEF FeedChanges, UVersions, CountTypes
  <2>6. RunsWhatIsInstalled'
    BY <1>17 DEF FeedChanges, UVersions, diskVars, memVars, RunsWhatIsInstalled,
         ProgramTypes, UpdaterPlaces
  <2>7. MarkedInstallation'
    BY <1>17 DEF FeedChanges, UVersions, diskVars, memVars, MarkedInstallation,
         ProgramTypes, StagedTypes, UpdaterPlaces
  <2>8. FailureIsRemembered'
    BY <1>17 DEF FeedChanges, UVersions, diskVars, memVars, FailureIsRemembered,
         ProgramTypes, StagedTypes, UpdaterPlaces
  <2>9. LeavesUnasked'
    BY <1>17 DEF FeedChanges, UVersions, diskVars, LeavesUnasked, StagedTypes,
         UpdaterPlaces
  <2> QED
    BY <2>1, <2>2, <2>3, <2>4, <2>5, <2>6, <2>7, <2>8, <2>9 DEF UpdaterInv
<1> QED
  BY <1>1, <1>2, <1>3, <1>4, <1>5, <1>6, <1>7, <1>8, <1>9, <1>10, <1>11, <1>12, <1>13,
       <1>14, <1>15, <1>16, <1>17 DEF UpdaterNext

(* The first launch has nothing staged. *)
LEMMA UpdaterInvInit ==
  ASSUME UpdaterInit
  PROVE  UpdaterInv
<1>1. ProgramTypes /\ CountTypes /\ RunsWhatIsInstalled
  BY UpdaterBounds DEF UpdaterInit, ProgramTypes, CountTypes, RunsWhatIsInstalled
<1>2. UpdaterPlaces
  BY Zenon DEF UpdaterInit, UpdaterPlaces
<1>3. OfferTypes
  BY UpdaterBounds DEF UpdaterInit, OfferTypes, NoOffer
<1>4. StagedTypes
  BY UpdaterBounds, ManifestShape DEF UpdaterInit, StagedTypes
<1>5. MarkedInstallation /\ FailureIsRemembered /\ LeavesUnasked
  BY UpdaterBounds DEF UpdaterInit, NoManifest, MarkedInstallation, FailureIsRemembered,
     LeavesUnasked
<1> QED
  BY <1>1, <1>2, <1>3, <1>4, <1>5 DEF UpdaterInv

(* Every state of the updater has the type the model gives it. *)
THEOREM UpdaterIsTyped == UpdaterSpec => []UpdaterTypeOK
<1>1. UpdaterInit => UpdaterInv
  BY UpdaterInvInit
<1>2. UpdaterInv /\ [UpdaterNext]_updaterVars => UpdaterInv'
  BY UpdaterInvStep
<1>3. UpdaterInv => UpdaterTypeOK
  BY DEF UpdaterInv, UpdaterTypeOK, ProgramTypes, StagedTypes, UpdaterPlaces, OfferTypes,
     CountTypes
<1> QED
  BY <1>1, <1>2, <1>3, PTL DEF UpdaterSpec

(* FailedVersionWaitsForTheUser: an installation nobody asked for is never of *)
(* the version whose installer was started and did not install it, in any      *)
(* order of launches, failures, downloads and changes of the feed.             *)
THEOREM FailedVersionWaits == UpdaterSpec => FailedVersionWaitsForTheUser
<1>1. UpdaterInit => UpdaterInv
  BY UpdaterInvInit
<1>2. UpdaterInv /\ [UpdaterNext]_updaterVars => UpdaterInv'
  BY UpdaterInvStep
<1>3. UpdaterInv /\ [UpdaterNext]_updaterVars
        => [uPc' = "marked" /\ uPc # "marked" /\ ~byUser'
              => upManifest'.version # lastFailed]_updaterVars
  <2> SUFFICES ASSUME UpdaterInv, UpdaterNext, uPc' = "marked", uPc # "marked", ~byUser'
               PROVE  upManifest'.version # lastFailed
    BY DEF updaterVars, diskVars, memVars, envVars
  <2>1. InstallAtStartup \/ MarkNow
    BY DEF UpdaterNext, LaunchProgram, ResumeAtStartup, Check, Download, WriteArtifact,
       WriteManifest, InstallNow, StartInstaller, NotStarted, Leave, Withdrawn, InstallerEnds,
       SwapOut, SwapIn, InstallUnix, Exit, FeedChanges
  <2>2. upManifest \in [version : 0 .. MaxVersion, attempted : BOOLEAN]
    BY DEF UpdaterInv, StagedTypes
  <2>3. upManifest' = [upManifest EXCEPT !.attempted = TRUE]
    BY <2>1 DEF InstallAtStartup, MarkNow, MarkAttempted
  <2>4. upManifest'.version = upManifest.version
    BY <2>2, <2>3
  <2>5. CASE InstallAtStartup
    <3>1. Ready /\ FailedVersion # upManifest.version /\ uPc = "startup"
      BY <2>5 DEF InstallAtStartup
    <3>2. ~upManifest.attempted /\ upManifest.version > running
      BY <3>1 DEF Ready, Newer
    <3>3. lastFailed # 0 => failedRec = lastFailed \/ lastFailed <= running
      BY <3>1, <3>2 DEF UpdaterInv, FailureIsRemembered
    <3>4. upManifest.version # lastFailed
      BY <3>1, <3>2, <3>3, UpdaterBounds
         DEF UpdaterInv, ProgramTypes, StagedTypes, FailedVersion
    <3> QED
      BY <3>4, <2>4
  <2>6. CASE MarkNow
    BY <2>4, <2>6 DEF MarkNow, MarkAttempted, UpdaterInv, LeavesUnasked
  <2> QED
    BY <2>1, <2>5, <2>6
<1> QED
  BY <1>1, <1>2, <1>3, PTL DEF UpdaterSpec, FailedVersionWaitsForTheUser
-----------------------------------------------------------------------------
(* SensitiveGrants: a grant dies with its session *)
\* Where a request can be.
GrantStages == {"new", "planned", "asked", "checking", "answered", "confirmed", "issued",
                "reveal", "delete", "protect", "withdraw", "reset", "remove", "over"}
\* Once a request is past its grant it never has another.
PastGrant == GrantOps \cup {"issued", "withdraw", "remove", "over"}

\* The types of the variables, in four parts.
VaultTypes ==
    /\ vault \in {"none", "locked", "open"} /\ lockEpoch \in 0 .. MaxLocks
    /\ guarded \in BOOLEAN /\ locking \in {"no", "bumped", "taken"} /\ setups \in 0 .. MaxSetups
RequestTypes ==
    /\ wants \in [Requests -> [op : GrantOps, weakens : BOOLEAN, asks : BOOLEAN,
                               proof : BOOLEAN]]
    /\ stage \in [Requests -> GrantStages]
    /\ pending \subseteq Requests /\ proved \subseteq Requests /\ outlived \subseteq Requests
GrantTypes == grants \in [Requests -> 0 .. NoEpoch] /\ expired \subseteq Requests
GuardTypes == kdfSlot \in Requests \cup {NoRequest} /\ refusals \in 0 .. MaxAttempts

\* The caps on windows and on grants hold.
CapsHold == Cardinality(pending) <= MaxPendingConfirmations /\ Cardinality(Live) <= MaxGrants

\* Whoever checks a password, or resets the vault, holds the guard's one slot,
\* and a check had one of the allowed attempts left.
SlotIsExclusive ==
    \A r \in Requests :
        /\ stage[r] \in {"checking", "remove"} => kdfSlot = r
        /\ stage[r] = "checking" => refusals < MaxAttempts

\* A grant is in the map only for an issued request, under an epoch the vault has
\* reached; one the vault was locked after bears an older epoch, or is gone.
OutlivedIsOld ==
    \A r \in Requests :
        /\ grants[r] # NoEpoch => stage[r] = "issued" /\ grants[r] <= lockEpoch
        /\ r \in outlived => stage[r] \in PastGrant /\ grants[r] # lockEpoch

\* A request whose window asks for the password is past that window only with it.
ProofIsGiven ==
    \A r \in Requests :
        wants[r].proof =>
            /\ wants[r].asks
            /\ stage[r] \in (PastGrant \ {"over"}) \cup {"answered", "confirmed"} => r \in proved

(* The inductive invariant: a grant is of its epoch, a check has its slot.   *)
GrantsInv ==
    /\ VaultTypes /\ RequestTypes /\ GrantTypes /\ GuardTypes /\ CapsHold
    /\ SlotIsExclusive /\ OutlivedIsOld /\ ProofIsGiven

(* The bounds are numbers, and the mark of no grant is beyond every epoch. *)
LEMMA EpochsAreNumbers ==
  /\ MaxGrants \in Nat /\ MaxPendingConfirmations \in Nat /\ MaxAttempts \in Nat
  /\ MaxLocks \in Nat /\ MaxSetups \in Nat
  /\ NoEpoch \in Nat /\ \A e \in 0 .. MaxLocks : e # NoEpoch /\ e \in 0 .. NoEpoch
  /\ NoRequest \notin Requests
<1>1. MaxLocks \in Nat
  BY GrantsAssumption
<1>2. NoEpoch = MaxLocks + 1
  BY DEF NoEpoch
<1> QED
  BY <1>1, <1>2, GrantsAssumption

(* Some of a few are few. *)
LEMMA FewerAreFew ==
  ASSUME NEW S \in SUBSET Requests, NEW T \in SUBSET S, NEW n \in Nat, Cardinality(S) <= n
  PROVE  Cardinality(T) <= n
<1>1. IsFiniteSet(S) /\ IsFiniteSet(T)
  BY GrantsAssumption, FS_Subset
<1>2. Cardinality(T) <= Cardinality(S)
  BY <1>1, FS_Subset
<1>3. Cardinality(S) \in Nat /\ Cardinality(T) \in Nat
  BY <1>1, FS_CardinalityType
<1> QED
  BY <1>2, <1>3

(* One more than fewer than the cap is within the cap. *)
LEMMA OneMoreIsWithinCap ==
  ASSUME NEW S \in SUBSET Requests, NEW r, NEW n \in Nat, Cardinality(S) < n
  PROVE  Cardinality(S \cup {r}) <= n
<1>1. IsFiniteSet(S)
  BY GrantsAssumption, FS_Subset
<1>2. Cardinality(S) \in Nat
  BY <1>1, FS_CardinalityType
<1>3. Cardinality(S \cup {r}) = IF r \in S THEN Cardinality(S) ELSE Cardinality(S) + 1
  BY <1>1, FS_AddElement
<1> QED
  BY <1>2, <1>3

(* Every step of a request, of the vault and of time keeps it. *)
LEMMA GrantsInvStep ==
  ASSUME GrantsInv, [GrantsNext]_grantVars
  PROVE  GrantsInv'
<1> USE DEF GrantsInv
<1> USE EpochsAreNumbers
<1>1. CASE UNCHANGED grantVars
  <2>1. VaultTypes'
    BY <1>1 DEF grantVars, VaultTypes
  <2>2. RequestTypes'
    BY <1>1 DEF grantVars, RequestTypes, GrantOps, GrantStages
  <2>3. GrantTypes'
    BY <1>1 DEF grantVars, GrantTypes
  <2>4. GuardTypes'
    BY <1>1 DEF grantVars, GuardTypes, NoRequest
  <2>5. CapsHold'
    BY <1>1 DEF grantVars, CapsHold, Live, RequestTypes, GrantOps, GrantStages, GrantTypes
  <2>6. SlotIsExclusive'
    BY <1>1 DEF grantVars, SlotIsExclusive, RequestTypes, GrantOps, GrantStages,
         GuardTypes, NoRequest
  <2>7. OutlivedIsOld'
    BY <1>1 DEF grantVars, OutlivedIsOld, PastGrant, GrantOps, VaultTypes, RequestTypes,
         GrantStages, GrantTypes
  <2>8. ProofIsGiven'
    BY <1>1 DEF grantVars, ProofIsGiven, PastGrant, GrantOps, RequestTypes, GrantStages
  <2> QED
    BY <2>1, <2>2, <2>3, <2>4, <2>5, <2>6, <2>7, <2>8 DEF GrantsInv
<1>2. ASSUME NEW r \in Requests, NEW op \in GrantOps, NEW weaken \in BOOLEAN,
             PlanRequest(r, op, weaken)
      PROVE  GrantsInv'
  <2>1. VaultTypes'
    BY <1>2 DEF PlanRequest, world, VaultTypes
  <2>2. RequestTypes'
    BY <1>2 DEF PlanRequest, Enter, world, RequestTypes, GrantOps, GrantStages
  <2>3. GrantTypes'
    BY <1>2 DEF PlanRequest, GrantTypes
  <2>4. GuardTypes'
    BY <1>2 DEF PlanRequest, guardVars, GuardTypes, NoRequest
  <2>5. CapsHold'
    BY <1>2 DEF PlanRequest, CapsHold, Live, RequestTypes, GrantOps, GrantStages,
         GrantTypes
  <2>6. SlotIsExclusive'
    BY <1>2 DEF PlanRequest, Enter, guardVars, SlotIsExclusive, RequestTypes, GrantOps,
         GrantStages, GuardTypes, NoRequest
  <2>7. OutlivedIsOld'
    BY <1>2 DEF PlanRequest, Enter, world, OutlivedIsOld, PastGrant, GrantOps, VaultTypes,
         RequestTypes, GrantStages, GrantTypes
  <2>8. ProofIsGiven'
    BY <1>2 DEF PlanRequest, Enter, ProofIsGiven, PastGrant, GrantOps, RequestTypes,
         GrantStages
  <2> QED
    BY <2>1, <2>2, <2>3, <2>4, <2>5, <2>6, <2>7, <2>8 DEF GrantsInv
<1>3. ASSUME NEW r \in Requests, Ask(r) PROVE GrantsInv'
  <2>1. VaultTypes'
    BY <1>3 DEF Ask, world, VaultTypes
  <2>2. RequestTypes'
    BY <1>3 DEF Ask, Enter, world, RequestTypes, GrantOps, GrantStages
  <2>3. GrantTypes'
    BY <1>3 DEF Ask, GrantTypes
  <2>4. GuardTypes'
    BY <1>3 DEF Ask, guardVars, GuardTypes, NoRequest
  <2>5. CapsHold'
    <3>1. Cardinality(pending') <= MaxPendingConfirmations
      <4>1. CASE Cardinality(pending) < MaxPendingConfirmations
        BY <1>3, <4>1, OneMoreIsWithinCap DEF Ask, RequestTypes
      <4>2. CASE ~(Cardinality(pending) < MaxPendingConfirmations)
        BY <1>3, <4>2 DEF Ask, CapsHold
      <4> QED
        BY <4>1, <4>2
    <3>2. Live' = Live
      BY <1>3 DEF Ask, Live
    <3> QED
      BY <3>1, <3>2 DEF CapsHold
  <2>6. SlotIsExclusive'
    BY <1>3 DEF Ask, Enter, guardVars, SlotIsExclusive, RequestTypes, GrantOps,
         GrantStages, GuardTypes, NoRequest
  <2>7. OutlivedIsOld'
    BY <1>3 DEF Ask, Enter, world, OutlivedIsOld, PastGrant, GrantOps, VaultTypes,
         RequestTypes, GrantStages, GrantTypes
  <2>8. ProofIsGiven'
    BY <1>3 DEF Ask, Enter, ProofIsGiven, PastGrant, GrantOps, RequestTypes, GrantStages
  <2> QED
    BY <2>1, <2>2, <2>3, <2>4, <2>5, <2>6, <2>7, <2>8 DEF GrantsInv
<1>4. ASSUME NEW r \in Requests, StartCheck(r) PROVE GrantsInv'
  <2>1. VaultTypes'
    BY <1>4 DEF StartCheck, NoRequest, world, VaultTypes
  <2>2. RequestTypes'
    BY <1>4 DEF StartCheck, NoRequest, Enter, world, RequestTypes, GrantOps, GrantStages
  <2>3. GrantTypes'
    BY <1>4 DEF StartCheck, NoRequest, GrantTypes
  <2>4. GuardTypes'
    BY <1>4 DEF StartCheck, NoRequest, GuardTypes
  <2>5. CapsHold'
    BY <1>4 DEF StartCheck, NoRequest, CapsHold, Live, RequestTypes, GrantOps,
         GrantStages, GrantTypes
  <2>6. SlotIsExclusive'
    BY <1>4 DEF StartCheck, NoRequest, Enter, SlotIsExclusive, RequestTypes, GrantOps,
         GrantStages, GuardTypes
  <2>7. OutlivedIsOld'
    BY <1>4 DEF StartCheck, NoRequest, Enter, world, OutlivedIsOld, PastGrant, GrantOps,
         VaultTypes, RequestTypes, GrantStages, GrantTypes
  <2>8. ProofIsGiven'
    BY <1>4 DEF StartCheck, NoRequest, Enter, ProofIsGiven, PastGrant, GrantOps,
         RequestTypes, GrantStages
  <2> QED
    BY <2>1, <2>2, <2>3, <2>4, <2>5, <2>6, <2>7, <2>8 DEF GrantsInv
<1>5. ASSUME NEW r \in Requests, CheckPassword(r) PROVE GrantsInv'
  <2>1. VaultTypes'
    BY <1>5 DEF CheckPassword, NoRequest, world, VaultTypes
  <2>2. RequestTypes'
    BY <1>5 DEF CheckPassword, NoRequest, Enter, world, RequestTypes, GrantOps,
         GrantStages
  <2>3. GrantTypes'
    BY <1>5 DEF CheckPassword, NoRequest, GrantTypes
  <2>4. GuardTypes'
    BY <1>5 DEF CheckPassword, NoRequest, Enter, world, GuardTypes, VaultTypes,
         RequestTypes, GrantOps, GrantStages, GrantTypes, CapsHold, Live, SlotIsExclusive,
         OutlivedIsOld, PastGrant, ProofIsGiven
  <2>5. CapsHold'
    BY <1>5 DEF CheckPassword, NoRequest, CapsHold, Live, RequestTypes, GrantOps,
         GrantStages, GrantTypes
  <2>6. SlotIsExclusive'
    BY <1>5 DEF CheckPassword, NoRequest, Enter, SlotIsExclusive, RequestTypes, GrantOps,
         GrantStages, GuardTypes
  <2>7. OutlivedIsOld'
    BY <1>5 DEF CheckPassword, NoRequest, Enter, world, OutlivedIsOld, PastGrant,
         GrantOps, VaultTypes, RequestTypes, GrantStages, GrantTypes
  <2>8. ProofIsGiven'
    BY <1>5 DEF CheckPassword, NoRequest, Enter, ProofIsGiven, PastGrant, GrantOps,
         RequestTypes, GrantStages
  <2> QED
    BY <2>1, <2>2, <2>3, <2>4, <2>5, <2>6, <2>7, <2>8 DEF GrantsInv
<1>6. ASSUME NEW r \in Requests, Approve(r) PROVE GrantsInv'
  <2>1. VaultTypes'
    BY <1>6 DEF Approve, world, VaultTypes
  <2>2. RequestTypes'
    BY <1>6 DEF Approve, Enter, world, RequestTypes, GrantOps, GrantStages
  <2>3. GrantTypes'
    BY <1>6 DEF Approve, GrantTypes
  <2>4. GuardTypes'
    BY <1>6 DEF Approve, guardVars, GuardTypes, NoRequest
  <2>5. CapsHold'
    <3>1. pending' \subseteq pending /\ Live' = Live
      BY <1>6 DEF Approve, Live
    <3> QED
      BY <3>1, FewerAreFew DEF CapsHold, RequestTypes
  <2>6. SlotIsExclusive'
    BY <1>6 DEF Approve, Enter, guardVars, SlotIsExclusive, RequestTypes, GrantOps,
         GrantStages, GuardTypes, NoRequest
  <2>7. OutlivedIsOld'
    BY <1>6 DEF Approve, Enter, world, OutlivedIsOld, PastGrant, GrantOps, VaultTypes,
         RequestTypes, GrantStages, GrantTypes
  <2>8. ProofIsGiven'
    BY <1>6 DEF Approve, Enter, ProofIsGiven, PastGrant, GrantOps, RequestTypes,
         GrantStages
  <2> QED
    BY <2>1, <2>2, <2>3, <2>4, <2>5, <2>6, <2>7, <2>8 DEF GrantsInv
<1>7. ASSUME NEW r \in Requests, RejectPending(r) PROVE GrantsInv'
  <2>1. VaultTypes'
    BY <1>7 DEF RejectPending, world, VaultTypes
  <2>2. RequestTypes'
    BY <1>7 DEF RejectPending, world, RequestTypes, GrantOps, GrantStages
  <2>3. GrantTypes'
    BY <1>7 DEF RejectPending, GrantTypes
  <2>4. GuardTypes'
    BY <1>7 DEF RejectPending, guardVars, GuardTypes, NoRequest
  <2>5. CapsHold'
    <3>1. pending' \subseteq pending /\ Live' = Live
      BY <1>7 DEF RejectPending, Live
    <3> QED
      BY <3>1, FewerAreFew DEF CapsHold, RequestTypes
  <2>6. SlotIsExclusive'
    BY <1>7 DEF RejectPending, guardVars, SlotIsExclusive, RequestTypes, GrantOps,
         GrantStages, GuardTypes, NoRequest
  <2>7. OutlivedIsOld'
    BY <1>7 DEF RejectPending, world, OutlivedIsOld, PastGrant, GrantOps, VaultTypes,
         RequestTypes, GrantStages, GrantTypes
  <2>8. ProofIsGiven'
    BY <1>7 DEF RejectPending, ProofIsGiven, PastGrant, GrantOps, RequestTypes,
         GrantStages
  <2> QED
    BY <2>1, <2>2, <2>3, <2>4, <2>5, <2>6, <2>7, <2>8 DEF GrantsInv
<1>8. ASSUME NEW r \in Requests, Cancelled(r) PROVE GrantsInv'
  <2>1. VaultTypes'
    BY <1>8 DEF Cancelled, world, VaultTypes
  <2>2. RequestTypes'
    BY <1>8 DEF Cancelled, Enter, world, RequestTypes, GrantOps, GrantStages
  <2>3. GrantTypes'
    BY <1>8 DEF Cancelled, GrantTypes
  <2>4. GuardTypes'
    BY <1>8 DEF Cancelled, guardVars, GuardTypes, NoRequest
  <2>5. CapsHold'
    BY <1>8 DEF Cancelled, CapsHold, Live, RequestTypes, GrantOps, GrantStages, GrantTypes
  <2>6. SlotIsExclusive'
    BY <1>8 DEF Cancelled, Enter, guardVars, SlotIsExclusive, RequestTypes, GrantOps,
         GrantStages, GuardTypes, NoRequest
  <2>7. OutlivedIsOld'
    BY <1>8 DEF Cancelled, Enter, world, OutlivedIsOld, PastGrant, GrantOps, VaultTypes,
         RequestTypes, GrantStages, GrantTypes
  <2>8. ProofIsGiven'
    BY <1>8 DEF Cancelled, Enter, ProofIsGiven, PastGrant, GrantOps, RequestTypes,
         GrantStages
  <2> QED
    BY <2>1, <2>2, <2>3, <2>4, <2>5, <2>6, <2>7, <2>8 DEF GrantsInv
<1>9. ASSUME NEW r \in Requests, Issue(r) PROVE GrantsInv'
  <2>1. VaultTypes'
    BY <1>9 DEF Issue, RoomForGrant, world, VaultTypes
  <2>2. RequestTypes'
    BY <1>9 DEF Issue, RoomForGrant, Enter, world, RequestTypes, GrantOps, GrantStages
  <2>3. GrantTypes'
    BY <1>9 DEF Issue, GrantTypes, VaultTypes
  <2>4. GuardTypes'
    BY <1>9 DEF Issue, RoomForGrant, guardVars, GuardTypes, NoRequest
  <2>5. CapsHold'
    <3>1. pending' = pending
      BY <1>9 DEF Issue
    <3>2. Live \ expired \subseteq Requests /\ Cardinality(Live \ expired) <= MaxGrants
      BY FewerAreFew DEF Live, CapsHold
    <3>3. CASE RoomForGrant(Live \ expired)
      <4>1. Cardinality((Live \ expired) \cup {r}) <= MaxGrants
        BY <3>2, <3>3, OneMoreIsWithinCap DEF RoomForGrant
      <4>2. (Live \ expired) \cup {r} \subseteq Requests
        BY <3>2
      <4>3. Live' \subseteq (Live \ expired) \cup {r}
        BY <1>9, <3>3 DEF Issue, Live
      <4> QED
        BY <3>1, <4>1, <4>2, <4>3, FewerAreFew DEF CapsHold
    <3>4. CASE ~RoomForGrant(Live \ expired)
      <4>1. Live' \subseteq Live \ expired
        BY <1>9, <3>4 DEF Issue, Live
      <4> QED
        BY <3>1, <3>2, <4>1, FewerAreFew DEF CapsHold
    <3> QED
      BY <3>3, <3>4
  <2>6. SlotIsExclusive'
    BY <1>9 DEF Issue, RoomForGrant, Enter, guardVars, SlotIsExclusive, RequestTypes,
         GrantOps, GrantStages, GuardTypes, NoRequest
  <2>7. OutlivedIsOld'
    BY <1>9 DEF Issue, Live, RoomForGrant, Enter, guardVars, world, OutlivedIsOld,
         PastGrant, GrantOps, VaultTypes, RequestTypes, GrantStages, GrantTypes,
         GuardTypes, NoRequest, CapsHold, SlotIsExclusive, ProofIsGiven
  <2>8. ProofIsGiven'
    BY <1>9 DEF Issue, RoomForGrant, Enter, ProofIsGiven, PastGrant, GrantOps,
         RequestTypes, GrantStages
  <2> QED
    BY <2>1, <2>2, <2>3, <2>4, <2>5, <2>6, <2>7, <2>8 DEF GrantsInv
<1>10. ASSUME NEW r \in Requests, Expire(r) PROVE GrantsInv'
  <2>1. VaultTypes'
    BY <1>10 DEF Expire, world, VaultTypes
  <2>2. RequestTypes'
    BY <1>10 DEF Expire, world, RequestTypes, GrantOps, GrantStages
  <2>3. GrantTypes'
    BY <1>10 DEF Expire, Live, GrantTypes
  <2>4. GuardTypes'
    BY <1>10 DEF Expire, guardVars, GuardTypes, NoRequest
  <2>5. CapsHold'
    BY <1>10 DEF Expire, Live, CapsHold, RequestTypes, GrantOps, GrantStages, GrantTypes
  <2>6. SlotIsExclusive'
    BY <1>10 DEF Expire, guardVars, SlotIsExclusive, RequestTypes, GrantOps, GrantStages,
         GuardTypes, NoRequest
  <2>7. OutlivedIsOld'
    BY <1>10 DEF Expire, Live, world, OutlivedIsOld, PastGrant, GrantOps, VaultTypes,
         RequestTypes, GrantStages, GrantTypes
  <2>8. ProofIsGiven'
    BY <1>10 DEF Expire, ProofIsGiven, PastGrant, GrantOps, RequestTypes, GrantStages
  <2> QED
    BY <2>1, <2>2, <2>3, <2>4, <2>5, <2>6, <2>7, <2>8 DEF GrantsInv
<1>11. ASSUME NEW r \in Requests, Spend(r) PROVE GrantsInv'
  <2>1. VaultTypes'
    BY <1>11 DEF Spend, Accepts, world, VaultTypes
  <2>2. RequestTypes'
    BY <1>11 DEF Spend, Enter, world, RequestTypes, GrantOps, GrantStages
  <2>3. GrantTypes'
    BY <1>11 DEF Spend, Accepts, Live, GrantTypes
  <2>4. GuardTypes'
    BY <1>11 DEF Spend, guardVars, GuardTypes, NoRequest
  <2>5. CapsHold'
    <3>1. pending' = pending
      BY <1>11 DEF Spend
    <3>2. Live \subseteq Requests /\ Live' \subseteq Live
      BY <1>11 DEF Spend, Live, GrantTypes
    <3> QED
      BY <3>1, <3>2, FewerAreFew DEF CapsHold
  <2>6. SlotIsExclusive'
    BY <1>11 DEF Spend, Enter, guardVars, SlotIsExclusive, RequestTypes, GrantOps,
         GrantStages, GuardTypes, NoRequest
  <2>7. OutlivedIsOld'
    BY <1>11 DEF Spend, Enter, Accepts, world, Live, OutlivedIsOld, PastGrant, GrantOps,
         VaultTypes, RequestTypes, GrantStages, GrantTypes
  <2>8. ProofIsGiven'
    BY <1>11 DEF Spend, Enter, ProofIsGiven, PastGrant, GrantOps, RequestTypes,
         GrantStages
  <2> QED
    BY <2>1, <2>2, <2>3, <2>4, <2>5, <2>6, <2>7, <2>8 DEF GrantsInv
<1>12. ASSUME NEW r \in Requests, RunCommand(r) PROVE GrantsInv'
  <2>1. VaultTypes'
    BY <1>12 DEF RunCommand, world, VaultTypes
  <2>2. RequestTypes'
    BY <1>12 DEF RunCommand, Enter, world, RequestTypes, GrantOps, GrantStages
  <2>3. GrantTypes'
    BY <1>12 DEF RunCommand, GrantTypes
  <2>4. GuardTypes'
    BY <1>12 DEF RunCommand, guardVars, GuardTypes, NoRequest
  <2>5. CapsHold'
    BY <1>12 DEF RunCommand, CapsHold, Live, RequestTypes, GrantOps, GrantStages,
         GrantTypes
  <2>6. SlotIsExclusive'
    BY <1>12 DEF RunCommand, Enter, guardVars, SlotIsExclusive, RequestTypes, GrantOps,
         GrantStages, GuardTypes, NoRequest
  <2>7. OutlivedIsOld'
    BY <1>12 DEF RunCommand, Enter, world, OutlivedIsOld, PastGrant, GrantOps, VaultTypes,
         RequestTypes, GrantStages, GrantTypes
  <2>8. ProofIsGiven'
    BY <1>12 DEF RunCommand, Enter, ProofIsGiven, PastGrant, GrantOps, RequestTypes,
         GrantStages
  <2> QED
    BY <2>1, <2>2, <2>3, <2>4, <2>5, <2>6, <2>7, <2>8 DEF GrantsInv
<1>13. ASSUME NEW r \in Requests, WriteProtection(r) PROVE GrantsInv'
  <2>1. VaultTypes'
    BY <1>13 DEF WriteProtection, world, VaultTypes
  <2>2. RequestTypes'
    BY <1>13 DEF WriteProtection, Enter, world, RequestTypes, GrantOps, GrantStages
  <2>3. GrantTypes'
    BY <1>13 DEF WriteProtection, GrantTypes
  <2>4. GuardTypes'
    BY <1>13 DEF WriteProtection, guardVars, GuardTypes, NoRequest
  <2>5. CapsHold'
    BY <1>13 DEF WriteProtection, CapsHold, Live, RequestTypes, GrantOps, GrantStages,
         GrantTypes
  <2>6. SlotIsExclusive'
    BY <1>13 DEF WriteProtection, Enter, guardVars, SlotIsExclusive, RequestTypes,
         GrantOps, GrantStages, GuardTypes, NoRequest
  <2>7. OutlivedIsOld'
    BY <1>13 DEF WriteProtection, Enter, world, OutlivedIsOld, PastGrant, GrantOps,
         VaultTypes, RequestTypes, GrantStages, GrantTypes
  <2>8. ProofIsGiven'
    BY <1>13 DEF WriteProtection, Enter, ProofIsGiven, PastGrant, GrantOps, RequestTypes,
         GrantStages
  <2> QED
    BY <2>1, <2>2, <2>3, <2>4, <2>5, <2>6, <2>7, <2>8 DEF GrantsInv
<1>14. ASSUME NEW r \in Requests, Withdraw(r) PROVE GrantsInv'
  <2>1. VaultTypes'
    BY <1>14 DEF Withdraw, world, VaultTypes
  <2>2. RequestTypes'
    BY <1>14 DEF Withdraw, Enter, world, RequestTypes, GrantOps, GrantStages
  <2>3. GrantTypes'
    BY <1>14 DEF Withdraw, RevokeAll, GrantTypes
  <2>4. GuardTypes'
    BY <1>14 DEF Withdraw, guardVars, GuardTypes, NoRequest
  <2>5. CapsHold'
    <3>1. pending' = pending
      BY <1>14 DEF Withdraw
    <3>2. Live \subseteq Requests /\ Live' \subseteq Live
      BY <1>14 DEF Withdraw, RevokeAll, Live, GrantTypes
    <3> QED
      BY <3>1, <3>2, FewerAreFew DEF CapsHold
  <2>6. SlotIsExclusive'
    BY <1>14 DEF Withdraw, Enter, guardVars, SlotIsExclusive, RequestTypes, GrantOps,
         GrantStages, GuardTypes, NoRequest
  <2>7. OutlivedIsOld'
    BY <1>14 DEF Withdraw, RevokeAll, Enter, world, OutlivedIsOld, PastGrant, GrantOps,
         VaultTypes, RequestTypes, GrantStages, GrantTypes
  <2>8. ProofIsGiven'
    BY <1>14 DEF Withdraw, Enter, ProofIsGiven, PastGrant, GrantOps, RequestTypes,
         GrantStages
  <2> QED
    BY <2>1, <2>2, <2>3, <2>4, <2>5, <2>6, <2>7, <2>8 DEF GrantsInv
<1>15. ASSUME NEW r \in Requests, ResetLocks(r) PROVE GrantsInv'
  <2>1. VaultTypes'
    BY <1>15 DEF ResetLocks, NoRequest, BumpEpoch, VaultTypes
  <2>2. RequestTypes'
    BY <1>15 DEF ResetLocks, NoRequest, BumpEpoch, Enter, Live, RequestTypes, GrantOps,
         GrantStages, VaultTypes, GrantTypes, GuardTypes
  <2>3. GrantTypes'
    BY <1>15 DEF ResetLocks, NoRequest, BumpEpoch, Live, GrantTypes
  <2>4. GuardTypes'
    BY <1>15 DEF ResetLocks, NoRequest, GuardTypes
  <2>5. CapsHold'
    BY <1>15 DEF ResetLocks, NoRequest, BumpEpoch, Live, CapsHold, RequestTypes, GrantOps,
         GrantStages, GrantTypes
  <2>6. SlotIsExclusive'
    BY <1>15 DEF ResetLocks, NoRequest, Enter, SlotIsExclusive, RequestTypes, GrantOps,
         GrantStages, GuardTypes
  <2>7. OutlivedIsOld'
    BY <1>15 DEF ResetLocks, NoRequest, BumpEpoch, Enter, Live, OutlivedIsOld, PastGrant,
         GrantOps, VaultTypes, RequestTypes, GrantStages, GrantTypes, GuardTypes
  <2>8. ProofIsGiven'
    BY <1>15 DEF ResetLocks, NoRequest, Enter, ProofIsGiven, PastGrant, GrantOps,
         RequestTypes, GrantStages
  <2> QED
    BY <2>1, <2>2, <2>3, <2>4, <2>5, <2>6, <2>7, <2>8 DEF GrantsInv
<1>16. ASSUME NEW r \in Requests, ResetRemoves(r) PROVE GrantsInv'
  <2>1. VaultTypes'
    BY <1>16 DEF ResetRemoves, NoRequest, world, VaultTypes
  <2>2. RequestTypes'
    BY <1>16 DEF ResetRemoves, Enter, NoRequest, world, RequestTypes, GrantOps,
         GrantStages
  <2>3. GrantTypes'
    BY <1>16 DEF ResetRemoves, NoRequest, GrantTypes
  <2>4. GuardTypes'
    BY <1>16 DEF ResetRemoves, NoRequest, GuardTypes
  <2>5. CapsHold'
    BY <1>16 DEF ResetRemoves, NoRequest, CapsHold, Live, RequestTypes, GrantOps,
         GrantStages, GrantTypes
  <2>6. SlotIsExclusive'
    BY <1>16 DEF ResetRemoves, Enter, NoRequest, SlotIsExclusive, RequestTypes, GrantOps,
         GrantStages, GuardTypes
  <2>7. OutlivedIsOld'
    BY <1>16 DEF ResetRemoves, Enter, NoRequest, world, OutlivedIsOld, PastGrant,
         GrantOps, VaultTypes, RequestTypes, GrantStages, GrantTypes
  <2>8. ProofIsGiven'
    BY <1>16 DEF ResetRemoves, Enter, NoRequest, ProofIsGiven, PastGrant, GrantOps,
         RequestTypes, GrantStages
  <2> QED
    BY <2>1, <2>2, <2>3, <2>4, <2>5, <2>6, <2>7, <2>8 DEF GrantsInv
<1>17. CASE StartLock
  <2>1. VaultTypes'
    BY <1>17 DEF StartLock, BumpEpoch, VaultTypes
  <2>2. RequestTypes'
    BY <1>17 DEF StartLock, BumpEpoch, guardVars, Live, RequestTypes, GrantOps,
         GrantStages, VaultTypes, GrantTypes, GuardTypes, NoRequest
  <2>3. GrantTypes'
    BY <1>17 DEF StartLock, BumpEpoch, Live, GrantTypes
  <2>4. GuardTypes'
    BY <1>17 DEF StartLock, guardVars, GuardTypes, NoRequest
  <2>5. CapsHold'
    BY <1>17 DEF StartLock, BumpEpoch, Live, CapsHold, RequestTypes, GrantOps,
         GrantStages, GrantTypes
  <2>6. SlotIsExclusive'
    BY <1>17 DEF StartLock, guardVars, SlotIsExclusive, RequestTypes, GrantOps,
         GrantStages, GuardTypes, NoRequest
  <2>7. OutlivedIsOld'
    <3>1. /\ lockEpoch' = lockEpoch + 1 /\ outlived' = outlived \cup Live
          /\ UNCHANGED <<grants, stage>> /\ lockEpoch \in Nat /\ lockEpoch + 1 \in 0 .. MaxLocks
      BY <1>17 DEF StartLock, BumpEpoch, VaultTypes
    <3>2. SUFFICES ASSUME NEW r \in Requests
                   PROVE  /\ grants[r] # NoEpoch
                                => stage[r] = "issued" /\ grants[r] <= lockEpoch + 1
                          /\ r \in outlived \cup Live
                                => stage[r] \in PastGrant /\ grants[r] # lockEpoch + 1
      BY <3>1 DEF OutlivedIsOld
    <3>3. grants[r] \in Nat /\ lockEpoch + 1 # NoEpoch
      BY <3>1 DEF GrantTypes
    <3>4. /\ grants[r] # NoEpoch => stage[r] = "issued" /\ grants[r] <= lockEpoch
          /\ r \in outlived => stage[r] \in PastGrant
      BY DEF OutlivedIsOld
    <3>5. grants[r] # lockEpoch + 1
      BY <3>1, <3>3, <3>4
    <3> QED
      BY <3>1, <3>3, <3>4, <3>5 DEF Live, PastGrant
  <2>8. ProofIsGiven'
    BY <1>17 DEF StartLock, ProofIsGiven, PastGrant, GrantOps, RequestTypes, GrantStages
  <2> QED
    BY <2>1, <2>2, <2>3, <2>4, <2>5, <2>6, <2>7, <2>8 DEF GrantsInv
<1>18. CASE TakeSecrets
  <2>1. VaultTypes'
    BY <1>18 DEF TakeSecrets, VaultTypes
  <2>2. RequestTypes'
    BY <1>18 DEF TakeSecrets, RequestTypes, GrantOps, GrantStages
  <2>3. GrantTypes'
    BY <1>18 DEF TakeSecrets, GrantTypes
  <2>4. GuardTypes'
    BY <1>18 DEF TakeSecrets, guardVars, GuardTypes, NoRequest
  <2>5. CapsHold'
    BY <1>18 DEF TakeSecrets, CapsHold, Live, RequestTypes, GrantOps, GrantStages,
         GrantTypes
  <2>6. SlotIsExclusive'
    BY <1>18 DEF TakeSecrets, guardVars, SlotIsExclusive, RequestTypes, GrantOps,
         GrantStages, GuardTypes, NoRequest
  <2>7. OutlivedIsOld'
    BY <1>18 DEF TakeSecrets, OutlivedIsOld, PastGrant, GrantOps, VaultTypes,
         RequestTypes, GrantStages, GrantTypes
  <2>8. ProofIsGiven'
    BY <1>18 DEF TakeSecrets, ProofIsGiven, PastGrant, GrantOps, RequestTypes, GrantStages
  <2> QED
    BY <2>1, <2>2, <2>3, <2>4, <2>5, <2>6, <2>7, <2>8 DEF GrantsInv
<1>19. CASE LockWithdraws
  <2>1. VaultTypes'
    BY <1>19 DEF LockWithdraws, VaultTypes
  <2>2. RequestTypes'
    BY <1>19 DEF LockWithdraws, RequestTypes, GrantOps, GrantStages
  <2>3. GrantTypes'
    BY <1>19 DEF LockWithdraws, RevokeAll, GrantTypes
  <2>4. GuardTypes'
    BY <1>19 DEF LockWithdraws, guardVars, GuardTypes, NoRequest
  <2>5. CapsHold'
    <3>1. pending' = pending
      BY <1>19 DEF LockWithdraws
    <3>2. Live \subseteq Requests /\ Live' \subseteq Live
      BY <1>19 DEF LockWithdraws, RevokeAll, Live, GrantTypes
    <3> QED
      BY <3>1, <3>2, FewerAreFew DEF CapsHold
  <2>6. SlotIsExclusive'
    BY <1>19 DEF LockWithdraws, guardVars, SlotIsExclusive, RequestTypes, GrantOps,
         GrantStages, GuardTypes, NoRequest
  <2>7. OutlivedIsOld'
    BY <1>19 DEF LockWithdraws, RevokeAll, OutlivedIsOld, PastGrant, GrantOps, VaultTypes,
         RequestTypes, GrantStages, GrantTypes
  <2>8. ProofIsGiven'
    BY <1>19 DEF LockWithdraws, ProofIsGiven, PastGrant, GrantOps, RequestTypes,
         GrantStages
  <2> QED
    BY <2>1, <2>2, <2>3, <2>4, <2>5, <2>6, <2>7, <2>8 DEF GrantsInv
<1>20. CASE VaultOpens
  <2>1. VaultTypes'
    BY <1>20 DEF VaultOpens, NoRequest, VaultTypes
  <2>2. RequestTypes'
    BY <1>20 DEF VaultOpens, NoRequest, RequestTypes, GrantOps, GrantStages
  <2>3. GrantTypes'
    BY <1>20 DEF VaultOpens, NoRequest, GrantTypes
  <2>4. GuardTypes'
    BY <1>20 DEF VaultOpens, NoRequest, GuardTypes
  <2>5. CapsHold'
    BY <1>20 DEF VaultOpens, NoRequest, CapsHold, Live, RequestTypes, GrantOps,
         GrantStages, GrantTypes
  <2>6. SlotIsExclusive'
    BY <1>20 DEF VaultOpens, NoRequest, SlotIsExclusive, RequestTypes, GrantOps,
         GrantStages, GuardTypes
  <2>7. OutlivedIsOld'
    BY <1>20 DEF VaultOpens, NoRequest, OutlivedIsOld, PastGrant, GrantOps, VaultTypes,
         RequestTypes, GrantStages, GrantTypes
  <2>8. ProofIsGiven'
    BY <1>20 DEF VaultOpens, NoRequest, ProofIsGiven, PastGrant, GrantOps, RequestTypes,
         GrantStages
  <2> QED
    BY <2>1, <2>2, <2>3, <2>4, <2>5, <2>6, <2>7, <2>8 DEF GrantsInv
<1>21. CASE ForgetRefusals
  <2>1. VaultTypes'
    BY <1>21 DEF ForgetRefusals, world, VaultTypes
  <2>2. RequestTypes'
    BY <1>21 DEF ForgetRefusals, world, RequestTypes, GrantOps, GrantStages
  <2>3. GrantTypes'
    BY <1>21 DEF ForgetRefusals, GrantTypes
  <2>4. GuardTypes'
    BY <1>21 DEF ForgetRefusals, GuardTypes, NoRequest
  <2>5. CapsHold'
    BY <1>21 DEF ForgetRefusals, CapsHold, Live, RequestTypes, GrantOps, GrantStages,
         GrantTypes
  <2>6. SlotIsExclusive'
    BY <1>21 DEF ForgetRefusals, SlotIsExclusive, RequestTypes, GrantOps, GrantStages,
         GuardTypes, NoRequest
  <2>7. OutlivedIsOld'
    BY <1>21 DEF ForgetRefusals, world, OutlivedIsOld, PastGrant, GrantOps, VaultTypes,
         RequestTypes, GrantStages, GrantTypes
  <2>8. ProofIsGiven'
    BY <1>21 DEF ForgetRefusals, ProofIsGiven, PastGrant, GrantOps, RequestTypes,
         GrantStages
  <2> QED
    BY <2>1, <2>2, <2>3, <2>4, <2>5, <2>6, <2>7, <2>8 DEF GrantsInv
<1> QED
  BY <1>1, <1>2, <1>3, <1>4, <1>5, <1>6, <1>7, <1>8, <1>9, <1>10, <1>11, <1>12, <1>13,
       <1>14, <1>15, <1>16, <1>17, <1>18, <1>19, <1>20, <1>21 DEF GrantsNext

(* Nobody has asked for anything, and no grant is out. *)
LEMMA GrantsInvInit == GrantsInit => GrantsInv
<1> SUFFICES ASSUME GrantsInit PROVE GrantsInv
  OBVIOUS
<1>1. VaultTypes
  <2>1. lockEpoch \in 0 .. MaxLocks /\ setups \in 0 .. MaxSetups
    BY EpochsAreNumbers DEF GrantsInit
  <2> QED
    BY <2>1 DEF GrantsInit, VaultTypes
<1>2. RequestTypes
  BY DEF GrantsInit, RequestTypes, GrantStages, GrantOps
<1>3. GrantTypes
  BY EpochsAreNumbers DEF GrantsInit, GrantTypes
<1>4. GuardTypes
  BY EpochsAreNumbers DEF GrantsInit, GuardTypes
<1>5. CapsHold
  <2>1. pending = {} /\ Live = {}
    BY DEF GrantsInit, Live
  <2> QED
    BY <2>1, FS_EmptySet, EpochsAreNumbers DEF CapsHold
<1>6. SlotIsExclusive /\ OutlivedIsOld
  BY DEF GrantsInit, SlotIsExclusive, OutlivedIsOld
<1>7. ProofIsGiven
  BY DEF GrantsInit, ProofIsGiven
<1> QED
  BY <1>1, <1>2, <1>3, <1>4, <1>5, <1>6, <1>7 DEF GrantsInv

(* The windows and the grants that are open never exceed their caps, and    *)
(* the wrong passwords never the attempts allowed: for any set of requests. *)
THEOREM GrantsAreCapped == GrantsSpec => []GrantsTypeOK
<1>1. GrantsInit => GrantsInv
  BY GrantsInvInit
<1>2. GrantsInv /\ [GrantsNext]_grantVars => GrantsInv'
  BY GrantsInvStep
<1>3. GrantsInv => GrantsTypeOK
  BY DEF GrantsInv, VaultTypes, RequestTypes, GrantTypes, GuardTypes, CapsHold, GrantStages,
         GrantsTypeOK
<1> QED
  BY <1>1, <1>2, <1>3, PTL DEF GrantsSpec

(* A command goes through only on a grant that no lock and no reset has     *)
(* come after, and on the password where its window asked for one: for any  *)
(* number of requests, locks, set-ups and refusals, and any caps.           *)
THEOREM GrantsDieWithTheirSession == GrantsSpec => GrantDiesWithItsSession
<1>1. GrantsInit => GrantsInv
  BY GrantsInvInit
<1>2. GrantsInv /\ [GrantsNext]_grantVars => GrantsInv'
  BY GrantsInvStep
<1>3. ASSUME GrantsInv, [GrantsNext]_grantVars, NEW r \in Requests,
             stage[r] = "issued", stage'[r] \in GrantOps
      PROVE  r \notin outlived /\ (wants[r].proof => r \in proved)
  <2> USE <1>3 DEF GrantsInv
  <2>1. wants[r].proof => r \in proved
    BY DEF ProofIsGiven, PastGrant
  <2>2. stage'[r] # stage[r]
    BY DEF GrantOps
  <2>3. Spend(r)
    BY <2>2 DEF GrantsNext, grantVars, RequestTypes, Enter, PlanRequest, Ask, StartCheck,
           CheckPassword,
           Approve, RejectPending, Cancelled, Issue, Expire, Spend, RunCommand, WriteProtection,
           Withdraw, ResetLocks, ResetRemoves, StartLock, TakeSecrets, LockWithdraws,
           VaultOpens, ForgetRefusals
  <2>4. grants[r] = lockEpoch
    BY <2>3 DEF Spend, Accepts, Enter, RequestTypes, GrantOps
  <2> QED
    BY <2>1, <2>4 DEF OutlivedIsOld
<1>4. GrantsInv /\ [GrantsNext]_grantVars
        => [\A r \in Requests :
              (stage[r] = "issued" /\ stage'[r] \in GrantOps)
                 => /\ r \notin outlived
                    /\ wants[r].proof => r \in proved]_grantVars
  BY <1>3
<1> QED
  BY <1>1, <1>2, <1>4, PTL DEF GrantsSpec, GrantDiesWithItsSession
-----------------------------------------------------------------------------
(* VaultSecrets: a saved password is held *)
\* The types of the variables, in three parts.
FileTypes ==
    /\ enc \in Kept /\ held \in Kept \cup {NoVault} /\ opened \in Kept \cup {NoVault}
    /\ metadata \in BOOLEAN
CountedTypes ==
    /\ acked \in Kept /\ passwords \in Passwords /\ forfeit \in BOOLEAN
TaskTypes ==
    /\ opSites \in [VaultTasks -> Kept] /\ opSaved \in [VaultTasks -> Kept]

\* Where each operation can be.
TaskPlaces ==
    /\ DOMAIN opPc = VaultTasks
    /\ opPc["open"] \in {"idle", "start", "publish", "load", "migrate", "move"}
    /\ opPc["save"] \in {"idle", "plain", "move", "write", "undo"}
    /\ opPc["downgrade"] \in {"idle", "move", "data", "undo", "metadata", "clear"}
    /\ opPc["reset"] \in {"idle", "data", "metadata", "clear"}

\* Who is under way holds its lock, and a migration is alone.
TasksHoldTheirLocks ==
    /\ updating = "save" <=> ~At("save", "idle")
    /\ updating = "downgrade" <=> ~At("downgrade", "idle")
    /\ permitOf = "reset" <=> ~At("reset", "idle")
    /\ permitOf = "open" <=> opPc["open"] \in {"start", "publish", "load"}
    /\ sitesLock = IF At("open", "move") THEN "open" ELSE Free
    /\ At("open", "move") => /\ At("save", "idle") /\ At("downgrade", "idle")
                             /\ At("reset", "idle")

\* An open vault has its files, and memory is what the file holds.
OpenIsTheFile == Unlocked => Configured /\ opened = held

\* A vault without its vault.json is empty, as is one that is being made, and one
\* that a removal or a save without a vault meets on its way.
UnreadyVaultIsEmpty ==
    /\ HasSecrets /\ ~metadata => held = NoPasswords
    /\ At("open", "start") => ~HasSecrets /\ ~metadata
    /\ At("open", "publish") => held = NoPasswords /\ ~metadata
    /\ At("reset", "metadata") => ~HasSecrets
    /\ At("downgrade", "metadata") \/ At("save", "plain") => held \in {NoVault, NoPasswords}

\* A save carries the newest password, of one site.
SaveIsTheNewest ==
    \A s \in Sites :
        /\ acked[s] <= passwords
        /\ ~At("save", "idle") /\ opSites["save"][s] # 0 =>
              /\ opSites["save"][s] = passwords
              /\ \A r \in Sites : opSites["save"][r] # 0 => r = s

\* No copy is older than what the user was told.
CopiesAreCurrent ==
    \A s \in Sites :
        /\ enc[s] # 0 => enc[s] >= acked[s]
        /\ HasSecrets /\ held[s] # 0 => held[s] >= acked[s]
        /\ opPc["save"] \in {"write", "undo"} /\ opSites["save"][s] # 0 /\ opSaved["save"][s] # 0
              => opSaved["save"][s] >= acked[s]
        /\ opPc["downgrade"] \in {"move", "data", "undo"} /\ opSaved["downgrade"][s] # 0
              => opSaved["downgrade"][s] >= acked[s]

\* What a migration has taken from a site is in the vault.
MigrationCovers ==
    At("open", "move") =>
        \A s \in Sites :
            /\ opSites["open"][s] \in {0, enc[s]}
            /\ opSites["open"][s] = 0 /\ acked[s] # 0 => Configured /\ held[s] >= acked[s]

\* A save that is half done has its password in the vault, or a reset has taken it,
\* and what it can put back is the old one.
SaveCovers ==
    \A s \in Sites :
        /\ ~At("save", "idle") /\ forfeit => acked[s] = 0 \/ enc[s] >= acked[s]
        /\ opPc["save"] \in {"write", "undo"} /\ ~forfeit /\ opSites["save"][s] # 0 =>
              /\ Configured /\ held[s] = opSites["save"][s]
              /\ acked[s] # 0 => enc[s] >= acked[s] \/ opSaved["save"][s] >= acked[s]

\* A downgrade can go back, until the sites hold every password.
DowngradeCovers ==
    \A s \in Sites : acked[s] # 0 =>
        /\ opPc["downgrade"] \in {"move", "data", "undo"} =>
              \/ opSaved["downgrade"][s] >= acked[s]
              \/ Configured /\ held[s] >= acked[s]
        /\ opPc["downgrade"] \in {"data", "metadata"} => enc[s] >= acked[s]

(* The inductive invariant: between any two writes a password is in the file *)
(* of the sites, in the vault, or in what a task can put back.              *)
VaultInv ==
    /\ FileTypes /\ CountedTypes /\ TaskTypes /\ TaskPlaces /\ TasksHoldTheirLocks
    /\ OpenIsTheFile /\ UnreadyVaultIsEmpty /\ SaveIsTheNewest /\ CopiesAreCurrent
    /\ MigrationCovers /\ SaveCovers /\ DowngradeCovers /\ PasswordIsHeld

(* What a map of passwords and an absent vault have and have not. *)
LEMMA KeptShape ==
  /\ MaxPasswords \in Nat /\ MaxVaultOps \in Nat /\ MaxVaultCrashes \in Nat
  /\ NoPasswords \in Kept /\ NoVault \notin Kept /\ NoVault # NoPasswords
  /\ \A s \in Sites : NoPasswords[s] = 0
  /\ \A k \in Kept : \A s \in Sites : k[s] \in Nat /\ k[s] <= MaxPasswords
  /\ \A k \in Kept : \A s \in Sites : \A p \in Passwords :
        /\ [k EXCEPT ![s] = p] \in Kept
        /\ \A r \in Sites : [k EXCEPT ![s] = p][r] = IF r = s THEN p ELSE k[r]
  /\ \A p \in Passwords : p \in Nat /\ p <= MaxPasswords
  /\ Free = "free" /\ 0 \in Passwords
<1>1. MaxPasswords \in Nat /\ MaxVaultOps \in Nat /\ MaxVaultCrashes \in Nat /\ Sites # {}
  BY VaultAssumption
<1>2. NoPasswords \in Kept /\ \A s \in Sites : NoPasswords[s] = 0
  BY <1>1 DEF NoPasswords, Kept, Passwords
<1>3. NoVault \notin Kept
  <2>1. PICK s \in Sites : TRUE
    BY <1>1
  <2>2. NoVault[s] = MaxPasswords + 1
    BY <2>1 DEF NoVault
  <2>3. \A k \in Kept : k[s] <= MaxPasswords
    BY <1>1, <2>1 DEF Kept, Passwords
  <2> QED
    BY <1>1, <2>2, <2>3
<1>4. \A k \in Kept : \A s \in Sites : k[s] \in Nat /\ k[s] <= MaxPasswords
  BY <1>1 DEF Kept, Passwords
<1>5. \A k \in Kept : \A s \in Sites : \A p \in Passwords :
        /\ [k EXCEPT ![s] = p] \in Kept
        /\ \A r \in Sites : [k EXCEPT ![s] = p][r] = IF r = s THEN p ELSE k[r]
  BY DEF Kept
<1>6. \A p \in Passwords : p \in Nat /\ p <= MaxPasswords
  BY <1>1 DEF Passwords
<1>7. Free = "free" /\ 0 \in Passwords
  BY <1>1 DEF Free, Passwords
<1> QED
  BY <1>1, <1>2, <1>3, <1>4, <1>5, <1>6, <1>7

(* Every step of the tasks, every failed write and every end keeps it. *)
LEMMA VaultInvStep ==
  ASSUME MigrationAlone, VaultInv, [VaultNext]_vaultVars
  PROVE  VaultInv'
<1> USE DEF VaultInv
<1> USE KeptShape
<1>1. CASE UNCHANGED vaultVars
  <2>1. FileTypes'
    BY <1>1 DEF vaultVars, FileTypes
  <2>2. CountedTypes'
    BY <1>1 DEF vaultVars, owed, CountedTypes, Passwords
  <2>3. TaskTypes'
    BY <1>1 DEF vaultVars, TaskTypes, VaultTasks
  <2>4. TaskPlaces'
    BY <1>1 DEF vaultVars, TaskPlaces, VaultTasks
  <2>5. TasksHoldTheirLocks'
    BY <1>1 DEF vaultVars, TasksHoldTheirLocks, At, TaskPlaces, VaultTasks
  <2>6. OpenIsTheFile'
    BY <1>1 DEF vaultVars, OpenIsTheFile, Unlocked, Configured, HasSecrets, FileTypes
  <2>7. UnreadyVaultIsEmpty'
    BY <1>1 DEF vaultVars, UnreadyVaultIsEmpty, HasSecrets, At, FileTypes, TaskPlaces,
         VaultTasks
  <2>8. SaveIsTheNewest'
    BY <1>1 DEF vaultVars, owed, SaveIsTheNewest, At, CountedTypes, Passwords, TaskTypes,
         VaultTasks, TaskPlaces
  <2>9. CopiesAreCurrent'
    BY <1>1 DEF vaultVars, owed, CopiesAreCurrent, HasSecrets, FileTypes, CountedTypes,
         Passwords, TaskTypes, VaultTasks, TaskPlaces
  <2>10. MigrationCovers'
    BY <1>1 DEF vaultVars, owed, MigrationCovers, At, Configured, HasSecrets, FileTypes,
         CountedTypes, Passwords, TaskTypes, VaultTasks, TaskPlaces
  <2>11. SaveCovers'
    BY <1>1 DEF vaultVars, owed, SaveCovers, At, Configured, HasSecrets, FileTypes,
         CountedTypes, Passwords, TaskTypes, VaultTasks, TaskPlaces
  <2>12. DowngradeCovers'
    BY <1>1 DEF vaultVars, owed, DowngradeCovers, Configured, HasSecrets, FileTypes,
         CountedTypes, Passwords, TaskTypes, VaultTasks, TaskPlaces
  <2>13. PasswordIsHeld'
    BY <1>1 DEF vaultVars, owed, PasswordIsHeld, Configured, HasSecrets, FileTypes,
         CountedTypes, Passwords
  <2> QED
    BY <2>1, <2>2, <2>3, <2>4, <2>5, <2>6, <2>7, <2>8, <2>9, <2>10, <2>11, <2>12, <2>13
         DEF VaultInv
<1>2. CASE BeginOpen
  <2>1. FileTypes'
    BY <1>2 DEF BeginOpen, HasSecrets, Configured, Unlocked, vaultFiles, FileTypes
  <2>2. CountedTypes'
    BY <1>2 DEF BeginOpen, Begin, owed, CountedTypes, Passwords
  <2>3. TaskTypes'
    BY <1>2 DEF BeginOpen, locals, TaskTypes, VaultTasks
  <2>4. TaskPlaces'
    BY <1>2 DEF BeginOpen, Begin, At, To, TaskPlaces, VaultTasks
  <2>5. TasksHoldTheirLocks'
    BY <1>2 DEF BeginOpen, Begin, At, To, TasksHoldTheirLocks, TaskPlaces, VaultTasks
  <2>6. OpenIsTheFile'
    BY <1>2 DEF BeginOpen, HasSecrets, Configured, Unlocked, vaultFiles, OpenIsTheFile,
         FileTypes
  <2>7. UnreadyVaultIsEmpty'
    BY <1>2 DEF BeginOpen, Begin, HasSecrets, Configured, vaultFiles, At, To,
         UnreadyVaultIsEmpty, FileTypes, TaskPlaces, VaultTasks
  <2>8. SaveIsTheNewest'
    BY <1>2 DEF BeginOpen, Begin, locals, owed, At, To, SaveIsTheNewest, CountedTypes,
         Passwords, TaskTypes, VaultTasks, TaskPlaces
  <2>9. CopiesAreCurrent'
    BY <1>2 DEF BeginOpen, Begin, HasSecrets, Configured, vaultFiles, locals, owed, At,
         To, CopiesAreCurrent, FileTypes, CountedTypes, Passwords, TaskTypes, VaultTasks,
         TaskPlaces
  <2>10. MigrationCovers'
    BY <1>2 DEF BeginOpen, Begin, HasSecrets, Configured, vaultFiles, locals, owed, At,
         To, MigrationCovers, FileTypes, CountedTypes, Passwords, TaskTypes, VaultTasks,
         TaskPlaces
  <2>11. SaveCovers'
    BY <1>2 DEF BeginOpen, Begin, HasSecrets, Configured, vaultFiles, locals, owed, At,
         To, SaveCovers, FileTypes, CountedTypes, Passwords, TaskTypes, VaultTasks,
         TaskPlaces
  <2>12. DowngradeCovers'
    BY <1>2 DEF BeginOpen, Begin, HasSecrets, Configured, vaultFiles, locals, owed, At,
         To, DowngradeCovers, FileTypes, CountedTypes, Passwords, TaskTypes, VaultTasks,
         TaskPlaces
  <2>13. PasswordIsHeld'
    BY <1>2 DEF BeginOpen, HasSecrets, Configured, vaultFiles, owed, PasswordIsHeld,
         FileTypes, CountedTypes, Passwords
  <2> QED
    BY <2>1, <2>2, <2>3, <2>4, <2>5, <2>6, <2>7, <2>8, <2>9, <2>10, <2>11, <2>12, <2>13
         DEF VaultInv
<1>3. CASE CreateVault
  <2>1. FileTypes'
    BY <1>3 DEF CreateVault, FileTypes
  <2>2. CountedTypes'
    BY <1>3 DEF CreateVault, owed, budget, CountedTypes, Passwords
  <2>3. TaskTypes'
    BY <1>3 DEF CreateVault, locals, Ends, TaskTypes, VaultTasks
  <2>4. TaskPlaces'
    BY <1>3 DEF CreateVault, At, To, Ends, TaskPlaces, VaultTasks
  <2>5. TasksHoldTheirLocks'
    BY <1>3 DEF CreateVault, At, To, vaultLocks, Ends, TasksHoldTheirLocks, TaskPlaces,
         VaultTasks
  <2>6. OpenIsTheFile'
    <3>1. CASE held' = NoPasswords /\ UNCHANGED <<metadata, opened>> /\ At("open", "start")
      BY <3>1 DEF OpenIsTheFile, Unlocked, Configured, UnreadyVaultIsEmpty
    <3>2. CASE metadata' /\ opened' = held /\ UNCHANGED held /\ At("open", "publish")
      BY <3>2 DEF OpenIsTheFile, Configured, HasSecrets, UnreadyVaultIsEmpty
    <3>3. CASE held' = NoVault /\ UNCHANGED <<metadata, opened>> /\ At("open", "publish")
      BY <3>3 DEF OpenIsTheFile, Unlocked, Configured, UnreadyVaultIsEmpty
    <3> QED
      BY <1>3, <3>1, <3>2, <3>3 DEF CreateVault
  <2>7. UnreadyVaultIsEmpty'
    BY <1>3 DEF CreateVault, At, To, vaultLocks, locals, Ends, owed, budget,
         UnreadyVaultIsEmpty, HasSecrets, FileTypes, CountedTypes, Passwords, TaskTypes,
         VaultTasks, TaskPlaces, TasksHoldTheirLocks, OpenIsTheFile, Unlocked, Configured,
         SaveIsTheNewest, CopiesAreCurrent, MigrationCovers, SaveCovers, DowngradeCovers,
         PasswordIsHeld
  <2>8. SaveIsTheNewest'
    BY <1>3 DEF CreateVault, At, To, locals, Ends, owed, budget, SaveIsTheNewest,
         CountedTypes, Passwords, TaskTypes, VaultTasks, TaskPlaces
  <2>9. CopiesAreCurrent'
    BY <1>3 DEF CreateVault, At, To, locals, Ends, owed, CopiesAreCurrent, HasSecrets,
         FileTypes, CountedTypes, Passwords, TaskTypes, VaultTasks, TaskPlaces
  <2>10. MigrationCovers'
    BY <1>3 DEF CreateVault, At, To, locals, Ends, owed, MigrationCovers, Configured,
         HasSecrets, FileTypes, CountedTypes, Passwords, TaskTypes, VaultTasks, TaskPlaces
  <2>11. SaveCovers'
    BY <1>3 DEF CreateVault, At, To, vaultLocks, locals, Ends, owed, budget, SaveCovers,
         Configured, HasSecrets, FileTypes, CountedTypes, Passwords, TaskTypes,
         VaultTasks, TaskPlaces, TasksHoldTheirLocks, OpenIsTheFile, Unlocked,
         UnreadyVaultIsEmpty, SaveIsTheNewest, CopiesAreCurrent, MigrationCovers,
         DowngradeCovers, PasswordIsHeld
  <2>12. DowngradeCovers'
    BY <1>3 DEF CreateVault, At, To, vaultLocks, locals, Ends, owed, budget,
         DowngradeCovers, Configured, HasSecrets, FileTypes, CountedTypes, Passwords,
         TaskTypes, VaultTasks, TaskPlaces, TasksHoldTheirLocks, OpenIsTheFile, Unlocked,
         UnreadyVaultIsEmpty, SaveIsTheNewest, CopiesAreCurrent, MigrationCovers,
         SaveCovers, PasswordIsHeld
  <2>13. PasswordIsHeld'
    BY <1>3 DEF CreateVault, At, To, vaultLocks, locals, Ends, owed, budget,
         PasswordIsHeld, Configured, HasSecrets, FileTypes, CountedTypes, Passwords,
         TaskTypes, VaultTasks, TaskPlaces, TasksHoldTheirLocks, OpenIsTheFile, Unlocked,
         UnreadyVaultIsEmpty, SaveIsTheNewest, CopiesAreCurrent, MigrationCovers,
         SaveCovers, DowngradeCovers
  <2> QED
    BY <2>1, <2>2, <2>3, <2>4, <2>5, <2>6, <2>7, <2>8, <2>9, <2>10, <2>11, <2>12, <2>13
         DEF VaultInv
<1>4. CASE OpenVault
  <2>1. FileTypes'
    BY <1>4 DEF OpenVault, Configured, vaultFiles, HasSecrets, FileTypes
  <2>2. CountedTypes'
    BY <1>4 DEF OpenVault, owed, budget, CountedTypes, Passwords
  <2>3. TaskTypes'
    BY <1>4 DEF OpenVault, locals, Ends, TaskTypes, VaultTasks
  <2>4. TaskPlaces'
    BY <1>4 DEF OpenVault, At, To, Ends, TaskPlaces, VaultTasks
  <2>5. TasksHoldTheirLocks'
    BY <1>4 DEF OpenVault, At, To, Ends, TasksHoldTheirLocks, TaskPlaces, VaultTasks
  <2>6. OpenIsTheFile'
    BY <1>4 DEF OpenVault, Configured, vaultFiles, HasSecrets, OpenIsTheFile, Unlocked,
         FileTypes
  <2>7. UnreadyVaultIsEmpty'
    BY <1>4 DEF OpenVault, At, Configured, To, Ends, vaultFiles, HasSecrets,
         UnreadyVaultIsEmpty, FileTypes, TaskPlaces, VaultTasks
  <2>8. SaveIsTheNewest'
    BY <1>4 DEF OpenVault, At, To, locals, Ends, owed, budget, SaveIsTheNewest,
         CountedTypes, Passwords, TaskTypes, VaultTasks, TaskPlaces
  <2>9. CopiesAreCurrent'
    BY <1>4 DEF OpenVault, At, Configured, To, locals, Ends, vaultFiles, owed, HasSecrets,
         CopiesAreCurrent, FileTypes, CountedTypes, Passwords, TaskTypes, VaultTasks,
         TaskPlaces
  <2>10. MigrationCovers'
    BY <1>4 DEF OpenVault, At, Configured, To, locals, Ends, vaultFiles, owed, HasSecrets,
         MigrationCovers, FileTypes, CountedTypes, Passwords, TaskTypes, VaultTasks,
         TaskPlaces
  <2>11. SaveCovers'
    BY <1>4 DEF OpenVault, At, Configured, To, locals, Ends, vaultFiles, owed, HasSecrets,
         SaveCovers, FileTypes, CountedTypes, Passwords, TaskTypes, VaultTasks, TaskPlaces
  <2>12. DowngradeCovers'
    BY <1>4 DEF OpenVault, At, Configured, To, locals, Ends, vaultFiles, owed, HasSecrets,
         DowngradeCovers, FileTypes, CountedTypes, Passwords, TaskTypes, VaultTasks,
         TaskPlaces
  <2>13. PasswordIsHeld'
    BY <1>4 DEF OpenVault, Configured, vaultFiles, owed, HasSecrets, PasswordIsHeld,
         FileTypes, CountedTypes, Passwords
  <2> QED
    BY <2>1, <2>2, <2>3, <2>4, <2>5, <2>6, <2>7, <2>8, <2>9, <2>10, <2>11, <2>12, <2>13
         DEF VaultInv
<1>5. CASE StartMigration
  <2>1. FileTypes'
    BY <1>5 DEF StartMigration, Configured, Unlocked, HasSecrets, FileTypes
  <2>2. CountedTypes'
    BY <1>5 DEF StartMigration, owed, budget, CountedTypes, Passwords
  <2>3. TaskTypes'
    BY <1>5 DEF StartMigration, At, Configured, Unlocked, Keep, To, Ends, owed, budget,
         HasSecrets, TaskTypes, VaultTasks, FileTypes, CountedTypes, Passwords, TaskPlaces
  <2>4. TaskPlaces'
    BY <1>5 DEF StartMigration, At, To, Ends, TaskPlaces, VaultTasks
  <2>5. TasksHoldTheirLocks'
    BY <1>5 DEF StartMigration, At, To, Ends, TasksHoldTheirLocks, TaskPlaces, VaultTasks
  <2>6. OpenIsTheFile'
    BY <1>5 DEF StartMigration, Configured, Unlocked, HasSecrets, OpenIsTheFile, FileTypes
  <2>7. UnreadyVaultIsEmpty'
    BY <1>5 DEF StartMigration, At, Configured, To, Ends, HasSecrets, UnreadyVaultIsEmpty,
         FileTypes, TaskPlaces, VaultTasks
  <2>8. SaveIsTheNewest'
    BY <1>5 DEF StartMigration, At, Keep, To, Ends, owed, budget, SaveIsTheNewest,
         CountedTypes, Passwords, TaskTypes, VaultTasks, TaskPlaces
  <2>9. CopiesAreCurrent'
    BY <1>5 DEF StartMigration, At, Configured, Keep, To, Ends, owed, HasSecrets,
         CopiesAreCurrent, FileTypes, CountedTypes, Passwords, TaskTypes, VaultTasks,
         TaskPlaces
  <2>10. MigrationCovers'
    BY <1>5 DEF StartMigration, At, Configured, Unlocked, Keep, To, Ends, owed, budget,
         HasSecrets, MigrationCovers, FileTypes, CountedTypes, Passwords, TaskTypes,
         VaultTasks, TaskPlaces, TasksHoldTheirLocks, OpenIsTheFile, UnreadyVaultIsEmpty,
         SaveIsTheNewest, CopiesAreCurrent, SaveCovers, DowngradeCovers, PasswordIsHeld
  <2>11. SaveCovers'
    BY <1>5 DEF StartMigration, At, Configured, Keep, To, Ends, owed, HasSecrets,
         SaveCovers, FileTypes, CountedTypes, Passwords, TaskTypes, VaultTasks, TaskPlaces
  <2>12. DowngradeCovers'
    BY <1>5 DEF StartMigration, At, Configured, To, Ends, owed, HasSecrets,
         DowngradeCovers, FileTypes, CountedTypes, Passwords, TaskTypes, VaultTasks,
         TaskPlaces
  <2>13. PasswordIsHeld'
    BY <1>5 DEF StartMigration, Configured, owed, HasSecrets, PasswordIsHeld, FileTypes,
         CountedTypes, Passwords
  <2> QED
    BY <2>1, <2>2, <2>3, <2>4, <2>5, <2>6, <2>7, <2>8, <2>9, <2>10, <2>11, <2>12, <2>13
         DEF VaultInv
<1>6. CASE WriteMigratedSites
  <2>1. FileTypes'
    BY <1>6 DEF WriteMigratedSites, FileTypes
  <2>2. CountedTypes'
    BY <1>6 DEF WriteMigratedSites, owed, budget, CountedTypes, Passwords
  <2>3. TaskTypes'
    BY <1>6 DEF WriteMigratedSites, Ends, TaskTypes, VaultTasks
  <2>4. TaskPlaces'
    BY <1>6 DEF WriteMigratedSites, At, Ends, TaskPlaces, VaultTasks
  <2>5. TasksHoldTheirLocks'
    BY <1>6 DEF WriteMigratedSites, At, Ends, TasksHoldTheirLocks, TaskPlaces, VaultTasks
  <2>6. OpenIsTheFile'
    BY <1>6 DEF WriteMigratedSites, OpenIsTheFile, Unlocked, Configured, HasSecrets,
         FileTypes
  <2>7. UnreadyVaultIsEmpty'
    BY <1>6 DEF WriteMigratedSites, At, Ends, UnreadyVaultIsEmpty, HasSecrets, FileTypes,
         TaskPlaces, VaultTasks
  <2>8. SaveIsTheNewest'
    BY <1>6 DEF WriteMigratedSites, At, Ends, owed, budget, SaveIsTheNewest, CountedTypes,
         Passwords, TaskTypes, VaultTasks, TaskPlaces
  <2>9. CopiesAreCurrent'
    BY <1>6 DEF WriteMigratedSites, At, Ends, owed, CopiesAreCurrent, HasSecrets,
         FileTypes, CountedTypes, Passwords, TaskTypes, VaultTasks, TaskPlaces
  <2>10. MigrationCovers'
    BY <1>6 DEF WriteMigratedSites, At, Ends, owed, MigrationCovers, Configured,
         HasSecrets, FileTypes, CountedTypes, Passwords, TaskTypes, VaultTasks, TaskPlaces
  <2>11. SaveCovers'
    BY <1>6 DEF WriteMigratedSites, At, Ends, owed, budget, SaveCovers, Configured,
         HasSecrets, FileTypes, CountedTypes, Passwords, TaskTypes, VaultTasks,
         TaskPlaces, TasksHoldTheirLocks, OpenIsTheFile, Unlocked, UnreadyVaultIsEmpty,
         SaveIsTheNewest, CopiesAreCurrent, MigrationCovers, DowngradeCovers,
         PasswordIsHeld
  <2>12. DowngradeCovers'
    BY <1>6 DEF WriteMigratedSites, At, Ends, owed, budget, DowngradeCovers, Configured,
         HasSecrets, FileTypes, CountedTypes, Passwords, TaskTypes, VaultTasks,
         TaskPlaces, TasksHoldTheirLocks, OpenIsTheFile, Unlocked, UnreadyVaultIsEmpty,
         SaveIsTheNewest, CopiesAreCurrent, MigrationCovers, SaveCovers, PasswordIsHeld
  <2>13. PasswordIsHeld'
    BY <1>6 DEF WriteMigratedSites, At, Ends, owed, budget, PasswordIsHeld, Configured,
         HasSecrets, FileTypes, CountedTypes, Passwords, TaskTypes, VaultTasks,
         TaskPlaces, TasksHoldTheirLocks, OpenIsTheFile, Unlocked, UnreadyVaultIsEmpty,
         SaveIsTheNewest, CopiesAreCurrent, MigrationCovers, SaveCovers, DowngradeCovers
  <2> QED
    BY <2>1, <2>2, <2>3, <2>4, <2>5, <2>6, <2>7, <2>8, <2>9, <2>10, <2>11, <2>12, <2>13
         DEF VaultInv
<1>7. ASSUME NEW s \in Sites, MoveIntoVault(s) PROVE VaultInv'
  <2>1. FileTypes'
    BY <1>7 DEF MoveIntoVault, At, Unlocked, Apply, Keep, vaultLocks, Ends, owed, budget,
         FileTypes, CountedTypes, Passwords, TaskTypes, VaultTasks, TaskPlaces
  <2>2. CountedTypes'
    BY <1>7 DEF MoveIntoVault, owed, budget, CountedTypes, Passwords
  <2>3. TaskTypes'
    BY <1>7 DEF MoveIntoVault, Keep, Ends, TaskTypes, VaultTasks
  <2>4. TaskPlaces'
    BY <1>7 DEF MoveIntoVault, At, Ends, TaskPlaces, VaultTasks
  <2>5. TasksHoldTheirLocks'
    BY <1>7 DEF MoveIntoVault, At, vaultLocks, Ends, TasksHoldTheirLocks, TaskPlaces,
         VaultTasks
  <2>6. OpenIsTheFile'
    BY <1>7 DEF MoveIntoVault, Unlocked, Apply, OpenIsTheFile, Configured, HasSecrets,
         FileTypes
  <2>7. UnreadyVaultIsEmpty'
    BY <1>7 DEF MoveIntoVault, At, Unlocked, Apply, Keep, vaultLocks, Ends, owed, budget,
         UnreadyVaultIsEmpty, HasSecrets, FileTypes, CountedTypes, Passwords, TaskTypes,
         VaultTasks, TaskPlaces, TasksHoldTheirLocks, OpenIsTheFile, Configured,
         SaveIsTheNewest, CopiesAreCurrent, MigrationCovers, SaveCovers, DowngradeCovers,
         PasswordIsHeld
  <2>8. SaveIsTheNewest'
    BY <1>7 DEF MoveIntoVault, At, Keep, Ends, owed, budget, SaveIsTheNewest,
         CountedTypes, Passwords, TaskTypes, VaultTasks, TaskPlaces
  <2>9. CopiesAreCurrent'
    BY <1>7 DEF MoveIntoVault, At, Unlocked, Apply, Keep, vaultLocks, Ends, owed, budget,
         CopiesAreCurrent, HasSecrets, FileTypes, CountedTypes, Passwords, TaskTypes,
         VaultTasks, TaskPlaces, TasksHoldTheirLocks, OpenIsTheFile, Configured,
         UnreadyVaultIsEmpty, SaveIsTheNewest, MigrationCovers, SaveCovers,
         DowngradeCovers, PasswordIsHeld
  <2>10. MigrationCovers'
    BY <1>7 DEF MoveIntoVault, At, Unlocked, Apply, Keep, vaultLocks, Ends, owed, budget,
         MigrationCovers, Configured, HasSecrets, FileTypes, CountedTypes, Passwords,
         TaskTypes, VaultTasks, TaskPlaces, TasksHoldTheirLocks, OpenIsTheFile,
         UnreadyVaultIsEmpty, SaveIsTheNewest, CopiesAreCurrent, SaveCovers,
         DowngradeCovers, PasswordIsHeld
  <2>11. SaveCovers'
    BY <1>7 DEF MoveIntoVault, At, Unlocked, Apply, Keep, vaultLocks, Ends, owed, budget,
         SaveCovers, Configured, HasSecrets, FileTypes, CountedTypes, Passwords,
         TaskTypes, VaultTasks, TaskPlaces, TasksHoldTheirLocks, OpenIsTheFile,
         UnreadyVaultIsEmpty, SaveIsTheNewest, CopiesAreCurrent, MigrationCovers,
         DowngradeCovers, PasswordIsHeld
  <2>12. DowngradeCovers'
    BY <1>7 DEF MoveIntoVault, At, Unlocked, Apply, Keep, vaultLocks, Ends, owed, budget,
         DowngradeCovers, Configured, HasSecrets, FileTypes, CountedTypes, Passwords,
         TaskTypes, VaultTasks, TaskPlaces, TasksHoldTheirLocks, OpenIsTheFile,
         UnreadyVaultIsEmpty, SaveIsTheNewest, CopiesAreCurrent, MigrationCovers,
         SaveCovers, PasswordIsHeld
  <2>13. PasswordIsHeld'
    BY <1>7 DEF MoveIntoVault, At, Unlocked, Apply, Keep, vaultLocks, Ends, owed, budget,
         PasswordIsHeld, Configured, HasSecrets, FileTypes, CountedTypes, Passwords,
         TaskTypes, VaultTasks, TaskPlaces, TasksHoldTheirLocks, OpenIsTheFile,
         UnreadyVaultIsEmpty, SaveIsTheNewest, CopiesAreCurrent, MigrationCovers,
         SaveCovers, DowngradeCovers
  <2> QED
    BY <2>1, <2>2, <2>3, <2>4, <2>5, <2>6, <2>7, <2>8, <2>9, <2>10, <2>11, <2>12, <2>13
         DEF VaultInv
<1>8. ASSUME NEW s \in Sites, BeginSave(s) PROVE VaultInv'
  <2>1. FileTypes'
    BY <1>8 DEF BeginSave, Configured, vaultFiles, HasSecrets, FileTypes
  <2>2. CountedTypes'
    <3>1. passwords' \in Passwords
      BY <1>8 DEF BeginSave, CountedTypes, Passwords
    <3>2. acked' \in Kept /\ forfeit' \in BOOLEAN
      BY <1>8, Zenon DEF BeginSave, CountedTypes
    <3> QED
      BY <3>1, <3>2 DEF CountedTypes
  <2>3. TaskTypes'
    <3>1. passwords' \in Passwords
      BY <1>8 DEF BeginSave, CountedTypes, Passwords
    <3>2. [NoPasswords EXCEPT ![s] = passwords'] \in Kept
      BY <1>8, <3>1
    <3> HIDE KeptShape
    <3> QED
      BY <1>8, <3>2 DEF BeginSave, Keep, TaskTypes, VaultTasks
  <2>4. TaskPlaces'
    BY <1>8 DEF BeginSave, At, To, TaskPlaces, VaultTasks
  <2>5. TasksHoldTheirLocks'
    BY <1>8 DEF BeginSave, At, To, TasksHoldTheirLocks, TaskPlaces, VaultTasks
  <2>6. OpenIsTheFile'
    BY <1>8 DEF BeginSave, Configured, vaultFiles, HasSecrets, OpenIsTheFile, Unlocked,
         FileTypes
  <2>7. UnreadyVaultIsEmpty'
    BY <1>8 DEF BeginSave, At, To, Configured, vaultFiles, HasSecrets,
         UnreadyVaultIsEmpty, FileTypes, TaskPlaces, VaultTasks
  <2>8. SaveIsTheNewest'
    BY <1>8 DEF BeginSave, At, Keep, To, SaveIsTheNewest, CountedTypes, Passwords,
         TaskTypes, VaultTasks, TaskPlaces
  <2>9. CopiesAreCurrent'
    BY <1>8 DEF BeginSave, At, Keep, To, Configured, vaultFiles, HasSecrets,
         CopiesAreCurrent, FileTypes, CountedTypes, Passwords, TaskTypes, VaultTasks,
         TaskPlaces
  <2>10. MigrationCovers'
    BY <1>8 DEF BeginSave, At, Keep, To, Configured, vaultFiles, HasSecrets,
         MigrationCovers, FileTypes, CountedTypes, Passwords, TaskTypes, VaultTasks,
         TaskPlaces
  <2>11. SaveCovers'
    BY <1>8 DEF BeginSave, At, Keep, To, Configured, vaultFiles, HasSecrets, SaveCovers,
         FileTypes, CountedTypes, Passwords, TaskTypes, VaultTasks, TaskPlaces
  <2>12. DowngradeCovers'
    BY <1>8 DEF BeginSave, At, To, Configured, vaultFiles, HasSecrets, DowngradeCovers,
         FileTypes, CountedTypes, Passwords, TaskTypes, VaultTasks, TaskPlaces
  <2>13. PasswordIsHeld'
    BY <1>8 DEF BeginSave, Configured, vaultFiles, HasSecrets, PasswordIsHeld, FileTypes,
         CountedTypes, Passwords
  <2> QED
    BY <2>1, <2>2, <2>3, <2>4, <2>5, <2>6, <2>7, <2>8, <2>9, <2>10, <2>11, <2>12, <2>13
         DEF VaultInv
<1>9. ASSUME NEW s \in Sites, SavePlain(s) PROVE VaultInv'
  <2>1. FileTypes'
    BY <1>9 DEF SavePlain, At, owed, Ends, budget, FileTypes, CountedTypes, Passwords,
         TaskTypes, VaultTasks, TaskPlaces
  <2>2. CountedTypes'
    BY <1>9 DEF SavePlain, At, owed, Ends, budget, CountedTypes, Passwords, FileTypes,
         TaskTypes, VaultTasks, TaskPlaces
  <2>3. TaskTypes'
    BY <1>9 DEF SavePlain, Ends, TaskTypes, VaultTasks
  <2>4. TaskPlaces'
    BY <1>9 DEF SavePlain, At, Ends, TaskPlaces, VaultTasks
  <2>5. TasksHoldTheirLocks'
    BY <1>9 DEF SavePlain, At, Ends, TasksHoldTheirLocks, TaskPlaces, VaultTasks
  <2>6. OpenIsTheFile'
    BY <1>9 DEF SavePlain, OpenIsTheFile, Unlocked, Configured, HasSecrets, FileTypes
  <2>7. UnreadyVaultIsEmpty'
    BY <1>9 DEF SavePlain, At, Ends, UnreadyVaultIsEmpty, HasSecrets, FileTypes,
         TaskPlaces, VaultTasks
  <2>8. SaveIsTheNewest'
    BY <1>9 DEF SavePlain, At, owed, Ends, budget, SaveIsTheNewest, CountedTypes,
         Passwords, TaskTypes, VaultTasks, TaskPlaces
  <2>9. CopiesAreCurrent'
    BY <1>9 DEF SavePlain, At, owed, Ends, budget, CopiesAreCurrent, HasSecrets,
         FileTypes, CountedTypes, Passwords, TaskTypes, VaultTasks, TaskPlaces,
         TasksHoldTheirLocks, OpenIsTheFile, Unlocked, Configured, UnreadyVaultIsEmpty,
         SaveIsTheNewest, MigrationCovers, SaveCovers, DowngradeCovers, PasswordIsHeld
  <2>10. MigrationCovers'
    BY <1>9 DEF SavePlain, At, owed, Ends, budget, MigrationCovers, Configured,
         HasSecrets, FileTypes, CountedTypes, Passwords, TaskTypes, VaultTasks,
         TaskPlaces, TasksHoldTheirLocks, OpenIsTheFile, Unlocked, UnreadyVaultIsEmpty,
         SaveIsTheNewest, CopiesAreCurrent, SaveCovers, DowngradeCovers, PasswordIsHeld
  <2>11. SaveCovers'
    BY <1>9 DEF SavePlain, At, owed, Ends, SaveCovers, Configured, HasSecrets, FileTypes,
         CountedTypes, Passwords, TaskTypes, VaultTasks, TaskPlaces
  <2>12. DowngradeCovers'
    BY <1>9 DEF SavePlain, At, owed, Ends, budget, DowngradeCovers, Configured,
         HasSecrets, FileTypes, CountedTypes, Passwords, TaskTypes, VaultTasks,
         TaskPlaces, TasksHoldTheirLocks, OpenIsTheFile, Unlocked, UnreadyVaultIsEmpty,
         SaveIsTheNewest, CopiesAreCurrent, MigrationCovers, SaveCovers, PasswordIsHeld
  <2>13. PasswordIsHeld'
    BY <1>9 DEF SavePlain, At, owed, Ends, budget, PasswordIsHeld, Configured, HasSecrets,
         FileTypes, CountedTypes, Passwords, TaskTypes, VaultTasks, TaskPlaces
  <2> QED
    BY <2>1, <2>2, <2>3, <2>4, <2>5, <2>6, <2>7, <2>8, <2>9, <2>10, <2>11, <2>12, <2>13
         DEF VaultInv
<1>10. ASSUME NEW s \in Sites, SaveToVault(s) PROVE VaultInv'
  <2>1. FileTypes'
    BY <1>10 DEF SaveToVault, At, Unlocked, Apply, Save, To, vaultLocks, Ends, owed,
         budget, FileTypes, CountedTypes, Passwords, TaskTypes, VaultTasks, TaskPlaces
  <2>2. CountedTypes'
    BY <1>10 DEF SaveToVault, owed, budget, CountedTypes, Passwords
  <2>3. TaskTypes'
    BY <1>10 DEF SaveToVault, At, Unlocked, Apply, Save, To, vaultLocks, Ends, owed,
         budget, TaskTypes, VaultTasks, FileTypes, CountedTypes, Passwords, TaskPlaces
  <2>4. TaskPlaces'
    BY <1>10 DEF SaveToVault, At, To, Ends, TaskPlaces, VaultTasks
  <2>5. TasksHoldTheirLocks'
    BY <1>10 DEF SaveToVault, At, To, vaultLocks, Ends, TasksHoldTheirLocks, TaskPlaces,
         VaultTasks
  <2>6. OpenIsTheFile'
    BY <1>10 DEF SaveToVault, Unlocked, Apply, OpenIsTheFile, Configured, HasSecrets,
         FileTypes
  <2>7. UnreadyVaultIsEmpty'
    <3>1. CASE /\ Unlocked /\ Apply([opened EXCEPT ![s] = opSites["save"][s]])
               /\ To("save", "write")
      BY <1>10, <3>1 DEF SaveToVault, Apply, At, To, UnreadyVaultIsEmpty, HasSecrets, Configured,
         OpenIsTheFile, TaskPlaces, VaultTasks, TasksHoldTheirLocks
    <3>2. CASE Ends("save") /\ UNCHANGED <<held, metadata, marker, opened>>
      BY <3>2 DEF Ends, At, UnreadyVaultIsEmpty, HasSecrets, TaskPlaces, VaultTasks
    <3> QED
      BY <1>10, <3>1, <3>2 DEF SaveToVault
  <2>8. SaveIsTheNewest'
    BY <1>10 DEF SaveToVault, At, To, Ends, owed, budget, SaveIsTheNewest, CountedTypes,
         Passwords, TaskTypes, VaultTasks, TaskPlaces
  <2>9. CopiesAreCurrent'
    BY <1>10 DEF SaveToVault, At, Unlocked, Apply, Save, To, vaultLocks, Ends, owed,
         budget, CopiesAreCurrent, HasSecrets, FileTypes, CountedTypes, Passwords,
         TaskTypes, VaultTasks, TaskPlaces, TasksHoldTheirLocks, OpenIsTheFile,
         Configured, UnreadyVaultIsEmpty, SaveIsTheNewest, MigrationCovers, SaveCovers,
         DowngradeCovers, PasswordIsHeld
  <2>10. MigrationCovers'
    BY <1>10 DEF SaveToVault, At, Unlocked, Apply, Save, To, vaultLocks, Ends, owed,
         budget, MigrationCovers, Configured, HasSecrets, FileTypes, CountedTypes,
         Passwords, TaskTypes, VaultTasks, TaskPlaces, TasksHoldTheirLocks, OpenIsTheFile,
         UnreadyVaultIsEmpty, SaveIsTheNewest, CopiesAreCurrent, SaveCovers,
         DowngradeCovers, PasswordIsHeld
  <2>11. SaveCovers'
    <3>1. CASE /\ Unlocked /\ Apply([opened EXCEPT ![s] = opSites["save"][s]])
               /\ Save("save", opened) /\ To("save", "write") /\ UNCHANGED opSites
      <4> SUFFICES ASSUME NEW r \in Sites
                   PROVE  /\ forfeit' => acked'[r] = 0 \/ enc'[r] >= acked'[r]
                          /\ ~forfeit' /\ opSites'["save"][r] # 0 =>
                                /\ Configured' /\ held'[r] = opSites'["save"][r]
                                /\ acked'[r] # 0 =>
                                      enc'[r] >= acked'[r] \/ opSaved'["save"][r] >= acked'[r]
        BY DEF SaveCovers
      <4>1. UNCHANGED <<enc, acked, forfeit, metadata, opSites>> /\ opSaved'["save"] = opened
        BY <1>10, <3>1 DEF SaveToVault, Save, Apply, owed, TaskTypes, VaultTasks
      <4>2. forfeit' => acked'[r] = 0 \/ enc'[r] >= acked'[r]
        BY <1>10, <4>1 DEF SaveToVault, At, SaveCovers
      <4>3. opened \in Kept /\ opened = held /\ HasSecrets /\ metadata
        BY <3>1 DEF FileTypes, Unlocked, OpenIsTheFile, Configured
      <4>4. opSites["save"] \in Kept /\ opSites["save"][s] \in Passwords
        BY DEF TaskTypes, VaultTasks, Kept
      <4>5. held' \in Kept /\ held'[s] = opSites["save"][s]
            /\ (r # s => held'[r] = opened[r])
        <5>1. /\ [opened EXCEPT ![s] = opSites["save"][s]] \in Kept
              /\ [opened EXCEPT ![s] = opSites["save"][s]][s] = opSites["save"][s]
              /\ r # s => [opened EXCEPT ![s] = opSites["save"][s]][r] = opened[r]
          BY <4>3, <4>4 DEF Kept
        <5> QED
          BY <3>1, <5>1 DEF Apply
      <4>6. Configured'
        BY <4>1, <4>3, <4>5 DEF Configured, HasSecrets
      <4>7. acked[r] # 0 => enc[r] >= acked[r] \/ opened[r] >= acked[r]
        BY <4>3 DEF PasswordIsHeld
      <4>8. opSites["save"][r] # 0 => r = s
        BY <1>10 DEF SaveToVault, At, SaveIsTheNewest
      <4> QED
        BY <4>1, <4>2, <4>5, <4>6, <4>7, <4>8
    <3>2. CASE Ends("save")
      BY <1>10, <3>2 DEF Ends, At, SaveCovers, TaskPlaces, VaultTasks
    <3> QED
      BY <1>10, <3>1, <3>2 DEF SaveToVault
  <2>12. DowngradeCovers'
    BY <1>10 DEF SaveToVault, At, Unlocked, Apply, Save, To, vaultLocks, Ends, owed,
         budget, DowngradeCovers, Configured, HasSecrets, FileTypes, CountedTypes,
         Passwords, TaskTypes, VaultTasks, TaskPlaces, TasksHoldTheirLocks, OpenIsTheFile,
         UnreadyVaultIsEmpty, SaveIsTheNewest, CopiesAreCurrent, MigrationCovers,
         SaveCovers, PasswordIsHeld
  <2>13. PasswordIsHeld'
    BY <1>10 DEF SaveToVault, At, Unlocked, Apply, Save, To, vaultLocks, Ends, owed,
         budget, PasswordIsHeld, Configured, HasSecrets, FileTypes, CountedTypes,
         Passwords, TaskTypes, VaultTasks, TaskPlaces, TasksHoldTheirLocks, OpenIsTheFile,
         UnreadyVaultIsEmpty, SaveIsTheNewest, CopiesAreCurrent, MigrationCovers,
         SaveCovers, DowngradeCovers
  <2> QED
    BY <2>1, <2>2, <2>3, <2>4, <2>5, <2>6, <2>7, <2>8, <2>9, <2>10, <2>11, <2>12, <2>13
         DEF VaultInv
<1>11. ASSUME NEW s \in Sites, SaveToSites(s) PROVE VaultInv'
  <2>1. FileTypes'
    BY <1>11 DEF SaveToSites, FileTypes
  <2>2. CountedTypes'
    BY <1>11 DEF SaveToSites, At, Ends, To, owed, vaultLocks, locals, budget,
         CountedTypes, Passwords, FileTypes, TaskTypes, VaultTasks, TaskPlaces
  <2>3. TaskTypes'
    BY <1>11 DEF SaveToSites, Ends, locals, TaskTypes, VaultTasks
  <2>4. TaskPlaces'
    BY <1>11 DEF SaveToSites, At, Ends, To, TaskPlaces, VaultTasks
  <2>5. TasksHoldTheirLocks'
    BY <1>11 DEF SaveToSites, At, Ends, To, vaultLocks, TasksHoldTheirLocks, TaskPlaces,
         VaultTasks
  <2>6. OpenIsTheFile'
    BY <1>11 DEF SaveToSites, OpenIsTheFile, Unlocked, Configured, HasSecrets, FileTypes
  <2>7. UnreadyVaultIsEmpty'
    BY <1>11 DEF SaveToSites, At, Ends, To, UnreadyVaultIsEmpty, HasSecrets, FileTypes,
         TaskPlaces, VaultTasks
  <2>8. SaveIsTheNewest'
    BY <1>11 DEF SaveToSites, At, Ends, To, owed, locals, budget, SaveIsTheNewest,
         CountedTypes, Passwords, TaskTypes, VaultTasks, TaskPlaces
  <2>9. CopiesAreCurrent'
    BY <1>11 DEF SaveToSites, At, Ends, To, owed, vaultLocks, locals, budget,
         CopiesAreCurrent, HasSecrets, FileTypes, CountedTypes, Passwords, TaskTypes,
         VaultTasks, TaskPlaces, TasksHoldTheirLocks, OpenIsTheFile, Unlocked, Configured,
         UnreadyVaultIsEmpty, SaveIsTheNewest, MigrationCovers, SaveCovers,
         DowngradeCovers, PasswordIsHeld
  <2>10. MigrationCovers'
    BY <1>11 DEF SaveToSites, At, Ends, To, owed, vaultLocks, locals, budget,
         MigrationCovers, Configured, HasSecrets, FileTypes, CountedTypes, Passwords,
         TaskTypes, VaultTasks, TaskPlaces, TasksHoldTheirLocks, OpenIsTheFile, Unlocked,
         UnreadyVaultIsEmpty, SaveIsTheNewest, CopiesAreCurrent, SaveCovers,
         DowngradeCovers, PasswordIsHeld
  <2>11. SaveCovers'
    BY <1>11 DEF SaveToSites, At, Ends, To, owed, locals, SaveCovers, Configured,
         HasSecrets, FileTypes, CountedTypes, Passwords, TaskTypes, VaultTasks, TaskPlaces
  <2>12. DowngradeCovers'
    BY <1>11 DEF SaveToSites, At, Ends, To, owed, vaultLocks, locals, budget,
         DowngradeCovers, Configured, HasSecrets, FileTypes, CountedTypes, Passwords,
         TaskTypes, VaultTasks, TaskPlaces, TasksHoldTheirLocks, OpenIsTheFile, Unlocked,
         UnreadyVaultIsEmpty, SaveIsTheNewest, CopiesAreCurrent, MigrationCovers,
         SaveCovers, PasswordIsHeld
  <2>13. PasswordIsHeld'
    BY <1>11 DEF SaveToSites, At, Ends, To, owed, vaultLocks, locals, budget,
         PasswordIsHeld, Configured, HasSecrets, FileTypes, CountedTypes, Passwords,
         TaskTypes, VaultTasks, TaskPlaces, TasksHoldTheirLocks, OpenIsTheFile, Unlocked,
         UnreadyVaultIsEmpty, SaveIsTheNewest, CopiesAreCurrent, MigrationCovers,
         SaveCovers, DowngradeCovers
  <2> QED
    BY <2>1, <2>2, <2>3, <2>4, <2>5, <2>6, <2>7, <2>8, <2>9, <2>10, <2>11, <2>12, <2>13
         DEF VaultInv
<1>12. ASSUME NEW s \in Sites, UndoSave(s) PROVE VaultInv'
  <2>1. FileTypes'
    BY <1>12 DEF UndoSave, At, Unlocked, Apply, Ends, owed, budget, FileTypes,
         CountedTypes, Passwords, TaskTypes, VaultTasks, TaskPlaces
  <2>2. CountedTypes'
    BY <1>12 DEF UndoSave, owed, budget, CountedTypes, Passwords
  <2>3. TaskTypes'
    BY <1>12 DEF UndoSave, Ends, TaskTypes, VaultTasks
  <2>4. TaskPlaces'
    BY <1>12 DEF UndoSave, At, Ends, TaskPlaces, VaultTasks
  <2>5. TasksHoldTheirLocks'
    BY <1>12 DEF UndoSave, At, Ends, TasksHoldTheirLocks, TaskPlaces, VaultTasks
  <2>6. OpenIsTheFile'
    BY <1>12 DEF UndoSave, Unlocked, Apply, OpenIsTheFile, Configured, HasSecrets,
         FileTypes
  <2>7. UnreadyVaultIsEmpty'
    <3>1. CASE Unlocked /\ Apply([opened EXCEPT ![s] = opSaved["save"][s]])
      BY <1>12, <3>1 DEF UndoSave, Apply, At, Ends, UnreadyVaultIsEmpty, HasSecrets, Configured,
         OpenIsTheFile, TaskPlaces, VaultTasks, TasksHoldTheirLocks
    <3>2. CASE UNCHANGED <<held, metadata, marker, opened>>
      BY <1>12, <3>2
         DEF UndoSave, Ends, At, UnreadyVaultIsEmpty, HasSecrets, TaskPlaces, VaultTasks
    <3> QED
      BY <1>12, <3>1, <3>2 DEF UndoSave
  <2>8. SaveIsTheNewest'
    BY <1>12 DEF UndoSave, At, Ends, owed, budget, SaveIsTheNewest, CountedTypes,
         Passwords, TaskTypes, VaultTasks, TaskPlaces
  <2>9. CopiesAreCurrent'
    BY <1>12 DEF UndoSave, At, Unlocked, Apply, Ends, owed, budget, CopiesAreCurrent,
         HasSecrets, FileTypes, CountedTypes, Passwords, TaskTypes, VaultTasks,
         TaskPlaces, TasksHoldTheirLocks, OpenIsTheFile, Configured, UnreadyVaultIsEmpty,
         SaveIsTheNewest, MigrationCovers, SaveCovers, DowngradeCovers, PasswordIsHeld
  <2>10. MigrationCovers'
    BY <1>12 DEF UndoSave, At, Unlocked, Apply, Ends, owed, budget, MigrationCovers,
         Configured, HasSecrets, FileTypes, CountedTypes, Passwords, TaskTypes,
         VaultTasks, TaskPlaces, TasksHoldTheirLocks, OpenIsTheFile, UnreadyVaultIsEmpty,
         SaveIsTheNewest, CopiesAreCurrent, SaveCovers, DowngradeCovers, PasswordIsHeld
  <2>11. SaveCovers'
    BY <1>12 DEF UndoSave, At, Apply, Ends, owed, SaveCovers, Configured, HasSecrets,
         FileTypes, CountedTypes, Passwords, TaskTypes, VaultTasks, TaskPlaces
  <2>12. DowngradeCovers'
    BY <1>12 DEF UndoSave, At, Unlocked, Apply, Ends, owed, budget, DowngradeCovers,
         Configured, HasSecrets, FileTypes, CountedTypes, Passwords, TaskTypes,
         VaultTasks, TaskPlaces, TasksHoldTheirLocks, OpenIsTheFile, UnreadyVaultIsEmpty,
         SaveIsTheNewest, CopiesAreCurrent, MigrationCovers, SaveCovers, PasswordIsHeld
  <2>13. PasswordIsHeld'
    BY <1>12 DEF UndoSave, At, Unlocked, Apply, Ends, owed, budget, PasswordIsHeld,
         Configured, HasSecrets, FileTypes, CountedTypes, Passwords, TaskTypes,
         VaultTasks, TaskPlaces, TasksHoldTheirLocks, OpenIsTheFile, UnreadyVaultIsEmpty,
         SaveIsTheNewest, CopiesAreCurrent, MigrationCovers, SaveCovers, DowngradeCovers
  <2> QED
    BY <2>1, <2>2, <2>3, <2>4, <2>5, <2>6, <2>7, <2>8, <2>9, <2>10, <2>11, <2>12, <2>13
         DEF VaultInv
<1>13. CASE BeginDowngrade
  <2>1. FileTypes'
    BY <1>13 DEF BeginDowngrade, Configured, Unlocked, vaultFiles, HasSecrets, FileTypes
  <2>2. CountedTypes'
    BY <1>13 DEF BeginDowngrade, Begin, owed, CountedTypes, Passwords
  <2>3. TaskTypes'
    BY <1>13 DEF BeginDowngrade, At, Configured, Unlocked, Begin, Save, vaultFiles, owed,
         HasSecrets, To, TaskTypes, VaultTasks, FileTypes, CountedTypes, Passwords,
         TaskPlaces
  <2>4. TaskPlaces'
    BY <1>13 DEF BeginDowngrade, At, Begin, To, TaskPlaces, VaultTasks
  <2>5. TasksHoldTheirLocks'
    BY <1>13 DEF BeginDowngrade, At, Begin, To, TasksHoldTheirLocks, TaskPlaces,
         VaultTasks
  <2>6. OpenIsTheFile'
    BY <1>13 DEF BeginDowngrade, Configured, Unlocked, vaultFiles, HasSecrets,
         OpenIsTheFile, FileTypes
  <2>7. UnreadyVaultIsEmpty'
    BY <1>13 DEF BeginDowngrade, At, Configured, Begin, vaultFiles, HasSecrets, To,
         UnreadyVaultIsEmpty, FileTypes, TaskPlaces, VaultTasks
  <2>8. SaveIsTheNewest'
    BY <1>13 DEF BeginDowngrade, At, Begin, owed, To, SaveIsTheNewest, CountedTypes,
         Passwords, TaskTypes, VaultTasks, TaskPlaces
  <2>9. CopiesAreCurrent'
    BY <1>13 DEF BeginDowngrade, At, Configured, Begin, Save, vaultFiles, owed,
         HasSecrets, To, CopiesAreCurrent, FileTypes, CountedTypes, Passwords, TaskTypes,
         VaultTasks, TaskPlaces
  <2>10. MigrationCovers'
    BY <1>13 DEF BeginDowngrade, At, Configured, Begin, vaultFiles, owed, HasSecrets, To,
         MigrationCovers, FileTypes, CountedTypes, Passwords, TaskTypes, VaultTasks,
         TaskPlaces
  <2>11. SaveCovers'
    BY <1>13 DEF BeginDowngrade, At, Configured, Begin, Save, vaultFiles, owed,
         HasSecrets, To, SaveCovers, FileTypes, CountedTypes, Passwords, TaskTypes,
         VaultTasks, TaskPlaces
  <2>12. DowngradeCovers'
    BY <1>13 DEF BeginDowngrade, At, Configured, Unlocked, Begin, Save, vaultFiles, owed,
         HasSecrets, To, DowngradeCovers, FileTypes, CountedTypes, Passwords, TaskTypes,
         VaultTasks, TaskPlaces, TasksHoldTheirLocks, OpenIsTheFile, UnreadyVaultIsEmpty,
         SaveIsTheNewest, CopiesAreCurrent, MigrationCovers, SaveCovers, PasswordIsHeld
  <2>13. PasswordIsHeld'
    BY <1>13 DEF BeginDowngrade, Configured, vaultFiles, owed, HasSecrets, PasswordIsHeld,
         FileTypes, CountedTypes, Passwords
  <2> QED
    BY <2>1, <2>2, <2>3, <2>4, <2>5, <2>6, <2>7, <2>8, <2>9, <2>10, <2>11, <2>12, <2>13
         DEF VaultInv
<1>14. CASE CopyOut
  <2>1. FileTypes'
    <3>1. CASE Unlocked /\ enc' = [s \in Sites |-> IF opened[s] # 0 THEN opened[s] ELSE enc[s]]
      <4>1. opened \in Kept /\ enc \in Kept
        BY <3>1 DEF FileTypes, Unlocked
      <4>2. enc' \in Kept
        BY <3>1, <4>1 DEF Kept
      <4> QED
        BY <1>14, <4>2 DEF CopyOut, FileTypes
    <3>2. CASE UNCHANGED enc
      BY <1>14, <3>2 DEF CopyOut, FileTypes
    <3> QED
      BY <1>14, <3>1, <3>2 DEF CopyOut
  <2>2. CountedTypes'
    BY <1>14 DEF CopyOut, owed, budget, CountedTypes, Passwords
  <2>3. TaskTypes'
    BY <1>14 DEF CopyOut, locals, TaskTypes, VaultTasks
  <2>4. TaskPlaces'
    BY <1>14 DEF CopyOut, At, To, TaskPlaces, VaultTasks
  <2>5. TasksHoldTheirLocks'
    BY <1>14 DEF CopyOut, At, To, vaultLocks, TasksHoldTheirLocks, TaskPlaces, VaultTasks
  <2>6. OpenIsTheFile'
    BY <1>14 DEF CopyOut, Unlocked, OpenIsTheFile, Configured, HasSecrets, FileTypes
  <2>7. UnreadyVaultIsEmpty'
    BY <1>14 DEF CopyOut, At, To, UnreadyVaultIsEmpty, HasSecrets, FileTypes, TaskPlaces,
         VaultTasks
  <2>8. SaveIsTheNewest'
    BY <1>14 DEF CopyOut, At, To, locals, owed, budget, SaveIsTheNewest, CountedTypes,
         Passwords, TaskTypes, VaultTasks, TaskPlaces
  <2>9. CopiesAreCurrent'
    BY <1>14 DEF CopyOut, At, Unlocked, To, vaultLocks, locals, owed, budget,
         CopiesAreCurrent, HasSecrets, FileTypes, CountedTypes, Passwords, TaskTypes,
         VaultTasks, TaskPlaces, TasksHoldTheirLocks, OpenIsTheFile, Configured,
         UnreadyVaultIsEmpty, SaveIsTheNewest, MigrationCovers, SaveCovers,
         DowngradeCovers, PasswordIsHeld
  <2>10. MigrationCovers'
    BY <1>14 DEF CopyOut, At, Unlocked, To, vaultLocks, locals, owed, budget,
         MigrationCovers, Configured, HasSecrets, FileTypes, CountedTypes, Passwords,
         TaskTypes, VaultTasks, TaskPlaces, TasksHoldTheirLocks, OpenIsTheFile,
         UnreadyVaultIsEmpty, SaveIsTheNewest, CopiesAreCurrent, SaveCovers,
         DowngradeCovers, PasswordIsHeld
  <2>11. SaveCovers'
    BY <1>14 DEF CopyOut, At, Unlocked, To, vaultLocks, locals, owed, budget, SaveCovers,
         Configured, HasSecrets, FileTypes, CountedTypes, Passwords, TaskTypes,
         VaultTasks, TaskPlaces, TasksHoldTheirLocks, OpenIsTheFile, UnreadyVaultIsEmpty,
         SaveIsTheNewest, CopiesAreCurrent, MigrationCovers, DowngradeCovers,
         PasswordIsHeld
  <2>12. DowngradeCovers'
    BY <1>14 DEF CopyOut, At, Unlocked, To, vaultLocks, locals, owed, budget,
         DowngradeCovers, Configured, HasSecrets, FileTypes, CountedTypes, Passwords,
         TaskTypes, VaultTasks, TaskPlaces, TasksHoldTheirLocks, OpenIsTheFile,
         UnreadyVaultIsEmpty, SaveIsTheNewest, CopiesAreCurrent, MigrationCovers,
         SaveCovers, PasswordIsHeld
  <2>13. PasswordIsHeld'
    BY <1>14 DEF CopyOut, At, Unlocked, To, vaultLocks, locals, owed, budget,
         PasswordIsHeld, Configured, HasSecrets, FileTypes, CountedTypes, Passwords,
         TaskTypes, VaultTasks, TaskPlaces, TasksHoldTheirLocks, OpenIsTheFile,
         UnreadyVaultIsEmpty, SaveIsTheNewest, CopiesAreCurrent, MigrationCovers,
         SaveCovers, DowngradeCovers
  <2> QED
    BY <2>1, <2>2, <2>3, <2>4, <2>5, <2>6, <2>7, <2>8, <2>9, <2>10, <2>11, <2>12, <2>13
         DEF VaultInv
<1>15. CASE RefuseRemoval
  <2>1. FileTypes'
    BY <1>15 DEF RefuseRemoval, Unlocked, vaultFiles, FileTypes
  <2>2. CountedTypes'
    BY <1>15 DEF RefuseRemoval, owed, budget, CountedTypes, Passwords
  <2>3. TaskTypes'
    BY <1>15 DEF RefuseRemoval, locals, TaskTypes, VaultTasks
  <2>4. TaskPlaces'
    BY <1>15 DEF RefuseRemoval, At, To, TaskPlaces, VaultTasks
  <2>5. TasksHoldTheirLocks'
    BY <1>15 DEF RefuseRemoval, At, To, vaultLocks, TasksHoldTheirLocks, TaskPlaces,
         VaultTasks
  <2>6. OpenIsTheFile'
    BY <1>15 DEF RefuseRemoval, Unlocked, vaultFiles, OpenIsTheFile, Configured,
         HasSecrets, FileTypes
  <2>7. UnreadyVaultIsEmpty'
    BY <1>15 DEF RefuseRemoval, At, To, vaultFiles, UnreadyVaultIsEmpty, HasSecrets,
         FileTypes, TaskPlaces, VaultTasks
  <2>8. SaveIsTheNewest'
    BY <1>15 DEF RefuseRemoval, At, To, locals, owed, budget, SaveIsTheNewest,
         CountedTypes, Passwords, TaskTypes, VaultTasks, TaskPlaces
  <2>9. CopiesAreCurrent'
    BY <1>15 DEF RefuseRemoval, At, To, vaultFiles, locals, owed, CopiesAreCurrent,
         HasSecrets, FileTypes, CountedTypes, Passwords, TaskTypes, VaultTasks, TaskPlaces
  <2>10. MigrationCovers'
    BY <1>15 DEF RefuseRemoval, At, To, vaultFiles, locals, owed, MigrationCovers,
         Configured, HasSecrets, FileTypes, CountedTypes, Passwords, TaskTypes,
         VaultTasks, TaskPlaces
  <2>11. SaveCovers'
    BY <1>15 DEF RefuseRemoval, At, To, vaultFiles, locals, owed, SaveCovers, Configured,
         HasSecrets, FileTypes, CountedTypes, Passwords, TaskTypes, VaultTasks, TaskPlaces
  <2>12. DowngradeCovers'
    BY <1>15 DEF RefuseRemoval, At, To, vaultFiles, locals, owed, DowngradeCovers,
         Configured, HasSecrets, FileTypes, CountedTypes, Passwords, TaskTypes,
         VaultTasks, TaskPlaces
  <2>13. PasswordIsHeld'
    BY <1>15 DEF RefuseRemoval, vaultFiles, owed, PasswordIsHeld, Configured, HasSecrets,
         FileTypes, CountedTypes, Passwords
  <2> QED
    BY <2>1, <2>2, <2>3, <2>4, <2>5, <2>6, <2>7, <2>8, <2>9, <2>10, <2>11, <2>12, <2>13
         DEF VaultInv
<1>16. CASE UndoDowngrade
  <2>1. FileTypes'
    BY <1>16 DEF UndoDowngrade, At, Configured, Ends, To, vaultLocks, locals, owed,
         budget, HasSecrets, FileTypes, CountedTypes, Passwords, TaskTypes, VaultTasks,
         TaskPlaces
  <2>2. CountedTypes'
    BY <1>16 DEF UndoDowngrade, owed, budget, CountedTypes, Passwords
  <2>3. TaskTypes'
    BY <1>16 DEF UndoDowngrade, Ends, locals, TaskTypes, VaultTasks
  <2>4. TaskPlaces'
    BY <1>16 DEF UndoDowngrade, At, Ends, To, TaskPlaces, VaultTasks
  <2>5. TasksHoldTheirLocks'
    BY <1>16 DEF UndoDowngrade, At, Ends, To, vaultLocks, TasksHoldTheirLocks, TaskPlaces,
         VaultTasks
  <2>6. OpenIsTheFile'
    BY <1>16 DEF UndoDowngrade, Configured, HasSecrets, OpenIsTheFile, Unlocked, FileTypes
  <2>7. UnreadyVaultIsEmpty'
    BY <1>16 DEF UndoDowngrade, At, Configured, Ends, To, HasSecrets, UnreadyVaultIsEmpty,
         FileTypes, TaskPlaces, VaultTasks
  <2>8. SaveIsTheNewest'
    BY <1>16 DEF UndoDowngrade, At, Ends, To, locals, owed, budget, SaveIsTheNewest,
         CountedTypes, Passwords, TaskTypes, VaultTasks, TaskPlaces
  <2>9. CopiesAreCurrent'
    BY <1>16 DEF UndoDowngrade, At, Configured, Ends, To, locals, owed, HasSecrets,
         CopiesAreCurrent, FileTypes, CountedTypes, Passwords, TaskTypes, VaultTasks,
         TaskPlaces
  <2>10. MigrationCovers'
    BY <1>16 DEF UndoDowngrade, At, Configured, Ends, To, vaultLocks, locals, owed,
         budget, HasSecrets, MigrationCovers, FileTypes, CountedTypes, Passwords,
         TaskTypes, VaultTasks, TaskPlaces, TasksHoldTheirLocks, OpenIsTheFile, Unlocked,
         UnreadyVaultIsEmpty, SaveIsTheNewest, CopiesAreCurrent, SaveCovers,
         DowngradeCovers, PasswordIsHeld
  <2>11. SaveCovers'
    BY <1>16 DEF UndoDowngrade, At, Configured, Ends, To, vaultLocks, locals, owed,
         budget, HasSecrets, SaveCovers, FileTypes, CountedTypes, Passwords, TaskTypes,
         VaultTasks, TaskPlaces, TasksHoldTheirLocks, OpenIsTheFile, Unlocked,
         UnreadyVaultIsEmpty, SaveIsTheNewest, CopiesAreCurrent, MigrationCovers,
         DowngradeCovers, PasswordIsHeld
  <2>12. DowngradeCovers'
    BY <1>16 DEF UndoDowngrade, At, Configured, Ends, To, vaultLocks, locals, owed,
         budget, HasSecrets, DowngradeCovers, FileTypes, CountedTypes, Passwords,
         TaskTypes, VaultTasks, TaskPlaces, TasksHoldTheirLocks, OpenIsTheFile, Unlocked,
         UnreadyVaultIsEmpty, SaveIsTheNewest, CopiesAreCurrent, MigrationCovers,
         SaveCovers, PasswordIsHeld
  <2>13. PasswordIsHeld'
    BY <1>16 DEF UndoDowngrade, At, Configured, Ends, To, vaultLocks, locals, owed,
         budget, HasSecrets, PasswordIsHeld, FileTypes, CountedTypes, Passwords,
         TaskTypes, VaultTasks, TaskPlaces, TasksHoldTheirLocks, OpenIsTheFile, Unlocked,
         UnreadyVaultIsEmpty, SaveIsTheNewest, CopiesAreCurrent, MigrationCovers,
         SaveCovers, DowngradeCovers
  <2> QED
    BY <2>1, <2>2, <2>3, <2>4, <2>5, <2>6, <2>7, <2>8, <2>9, <2>10, <2>11, <2>12, <2>13
         DEF VaultInv
<1>17. CASE BeginReset
  <2>1. FileTypes'
    BY <1>17 DEF BeginReset, vaultFiles, FileTypes
  <2>2. CountedTypes'
    BY <1>17 DEF BeginReset, Begin, owed, CountedTypes, Passwords
  <2>3. TaskTypes'
    BY <1>17 DEF BeginReset, locals, TaskTypes, VaultTasks
  <2>4. TaskPlaces'
    BY <1>17 DEF BeginReset, At, Begin, To, TaskPlaces, VaultTasks
  <2>5. TasksHoldTheirLocks'
    BY <1>17 DEF BeginReset, At, Begin, To, TasksHoldTheirLocks, TaskPlaces, VaultTasks
  <2>6. OpenIsTheFile'
    BY <1>17 DEF BeginReset, vaultFiles, OpenIsTheFile, Unlocked, Configured, HasSecrets,
         FileTypes
  <2>7. UnreadyVaultIsEmpty'
    BY <1>17 DEF BeginReset, At, Begin, vaultFiles, To, UnreadyVaultIsEmpty, HasSecrets,
         FileTypes, TaskPlaces, VaultTasks
  <2>8. SaveIsTheNewest'
    BY <1>17 DEF BeginReset, At, Begin, locals, owed, To, SaveIsTheNewest, CountedTypes,
         Passwords, TaskTypes, VaultTasks, TaskPlaces
  <2>9. CopiesAreCurrent'
    BY <1>17 DEF BeginReset, At, Begin, vaultFiles, locals, owed, To, CopiesAreCurrent,
         HasSecrets, FileTypes, CountedTypes, Passwords, TaskTypes, VaultTasks, TaskPlaces
  <2>10. MigrationCovers'
    BY <1>17 DEF BeginReset, At, Begin, vaultFiles, locals, owed, To, MigrationCovers,
         Configured, HasSecrets, FileTypes, CountedTypes, Passwords, TaskTypes,
         VaultTasks, TaskPlaces
  <2>11. SaveCovers'
    BY <1>17 DEF BeginReset, At, Begin, vaultFiles, locals, owed, To, SaveCovers,
         Configured, HasSecrets, FileTypes, CountedTypes, Passwords, TaskTypes,
         VaultTasks, TaskPlaces
  <2>12. DowngradeCovers'
    BY <1>17 DEF BeginReset, At, Begin, vaultFiles, locals, owed, To, DowngradeCovers,
         Configured, HasSecrets, FileTypes, CountedTypes, Passwords, TaskTypes,
         VaultTasks, TaskPlaces
  <2>13. PasswordIsHeld'
    BY <1>17 DEF BeginReset, vaultFiles, owed, PasswordIsHeld, Configured, HasSecrets,
         FileTypes, CountedTypes, Passwords
  <2> QED
    BY <2>1, <2>2, <2>3, <2>4, <2>5, <2>6, <2>7, <2>8, <2>9, <2>10, <2>11, <2>12, <2>13
         DEF VaultInv
<1>18. ASSUME NEW t \in {"downgrade", "reset"}, RemoveData(t) PROVE VaultInv'
  <2>1. FileTypes'
    BY <1>18 DEF RemoveData, Unlocked, FileTypes
  <2>2. CountedTypes'
    <3>1. acked' = acked \/ acked' = [s \in Sites |-> IF held[s] >= acked[s] THEN 0 ELSE acked[s]]
      BY <1>18 DEF RemoveData, owed
    <3>2. acked \in Kept
      BY DEF CountedTypes
    <3>3. acked' \in Kept
      BY <3>1, <3>2 DEF Kept
    <3>4. passwords' \in Passwords /\ forfeit' \in BOOLEAN
      BY <1>18, Zenon DEF RemoveData, owed, budget, CountedTypes
    <3> QED
      BY <3>3, <3>4 DEF CountedTypes
  <2>3. TaskTypes'
    BY <1>18 DEF RemoveData, locals, Ends, TaskTypes, VaultTasks
  <2>4. TaskPlaces'
    BY <1>18 DEF RemoveData, At, To, Ends, TaskPlaces, VaultTasks
  <2>5. TasksHoldTheirLocks'
    BY <1>18 DEF RemoveData, At, To, vaultLocks, Ends, TasksHoldTheirLocks, TaskPlaces,
         VaultTasks
  <2>6. OpenIsTheFile'
    BY <1>18 DEF RemoveData, Unlocked, OpenIsTheFile, Configured, HasSecrets, FileTypes
  <2>7. UnreadyVaultIsEmpty'
    <3>1. CASE held' = NoVault /\ To(t, "metadata")
      BY <1>18, <3>1
         DEF RemoveData, To, At, UnreadyVaultIsEmpty, HasSecrets, TaskPlaces, VaultTasks,
         TasksHoldTheirLocks, OpenIsTheFile, Unlocked, Configured
    <3>2. CASE UNCHANGED held /\ (To(t, "undo") \/ Ends(t))
      BY <1>18, <3>2 DEF RemoveData, To, Ends, At, UnreadyVaultIsEmpty, HasSecrets, TaskPlaces,
         VaultTasks
    <3> QED
      BY <1>18, <3>1, <3>2 DEF RemoveData
  <2>8. SaveIsTheNewest'
    BY <1>18 DEF RemoveData, At, To, owed, locals, Ends, budget, SaveIsTheNewest,
         CountedTypes, Passwords, TaskTypes, VaultTasks, TaskPlaces
  <2>9. CopiesAreCurrent'
    BY <1>18 DEF RemoveData, At, To, owed, locals, Ends, CopiesAreCurrent, HasSecrets,
         FileTypes, CountedTypes, Passwords, TaskTypes, VaultTasks, TaskPlaces
  <2>10. MigrationCovers'
    BY <1>18 DEF RemoveData, At, Unlocked, To, owed, vaultLocks, locals, Ends, budget,
         MigrationCovers, Configured, HasSecrets, FileTypes, CountedTypes, Passwords,
         TaskTypes, VaultTasks, TaskPlaces, TasksHoldTheirLocks, OpenIsTheFile,
         UnreadyVaultIsEmpty, SaveIsTheNewest, CopiesAreCurrent, SaveCovers,
         DowngradeCovers, PasswordIsHeld
  <2>11. SaveCovers'
    BY <1>18 DEF RemoveData, At, Unlocked, To, owed, vaultLocks, locals, Ends, budget,
         SaveCovers, Configured, HasSecrets, FileTypes, CountedTypes, Passwords,
         TaskTypes, VaultTasks, TaskPlaces, TasksHoldTheirLocks, OpenIsTheFile,
         UnreadyVaultIsEmpty, SaveIsTheNewest, CopiesAreCurrent, MigrationCovers,
         DowngradeCovers, PasswordIsHeld
  <2>12. DowngradeCovers'
    BY <1>18 DEF RemoveData, At, To, owed, locals, Ends, DowngradeCovers, Configured,
         HasSecrets, FileTypes, CountedTypes, Passwords, TaskTypes, VaultTasks, TaskPlaces
  <2>13. PasswordIsHeld'
    BY <1>18 DEF RemoveData, At, Unlocked, To, owed, vaultLocks, locals, Ends, budget,
         PasswordIsHeld, Configured, HasSecrets, FileTypes, CountedTypes, Passwords,
         TaskTypes, VaultTasks, TaskPlaces, TasksHoldTheirLocks, OpenIsTheFile,
         UnreadyVaultIsEmpty, SaveIsTheNewest, CopiesAreCurrent, MigrationCovers,
         SaveCovers, DowngradeCovers
  <2> QED
    BY <2>1, <2>2, <2>3, <2>4, <2>5, <2>6, <2>7, <2>8, <2>9, <2>10, <2>11, <2>12, <2>13
         DEF VaultInv
<1>19. ASSUME NEW t \in {"downgrade", "reset"}, RemoveMetadata(t) PROVE VaultInv'
  <2>1. FileTypes'
    BY <1>19 DEF RemoveMetadata, FileTypes
  <2>2. CountedTypes'
    BY <1>19 DEF RemoveMetadata, owed, budget, CountedTypes, Passwords
  <2>3. TaskTypes'
    BY <1>19 DEF RemoveMetadata, locals, Ends, TaskTypes, VaultTasks
  <2>4. TaskPlaces'
    BY <1>19 DEF RemoveMetadata, At, To, Ends, TaskPlaces, VaultTasks
  <2>5. TasksHoldTheirLocks'
    BY <1>19 DEF RemoveMetadata, At, To, vaultLocks, Ends, TasksHoldTheirLocks,
         TaskPlaces, VaultTasks
  <2>6. OpenIsTheFile'
    BY <1>19 DEF RemoveMetadata, OpenIsTheFile, Unlocked, Configured, HasSecrets,
         FileTypes
  <2>7. UnreadyVaultIsEmpty'
    BY <1>19 DEF RemoveMetadata, At, To, Ends, UnreadyVaultIsEmpty, HasSecrets, FileTypes,
         TaskPlaces, VaultTasks
  <2>8. SaveIsTheNewest'
    BY <1>19 DEF RemoveMetadata, At, To, locals, Ends, owed, budget, SaveIsTheNewest,
         CountedTypes, Passwords, TaskTypes, VaultTasks, TaskPlaces
  <2>9. CopiesAreCurrent'
    BY <1>19 DEF RemoveMetadata, At, To, locals, Ends, owed, CopiesAreCurrent, HasSecrets,
         FileTypes, CountedTypes, Passwords, TaskTypes, VaultTasks, TaskPlaces
  <2>10. MigrationCovers'
    BY <1>19 DEF RemoveMetadata, At, To, vaultLocks, locals, Ends, owed, budget,
         MigrationCovers, Configured, HasSecrets, FileTypes, CountedTypes, Passwords,
         TaskTypes, VaultTasks, TaskPlaces, TasksHoldTheirLocks, OpenIsTheFile, Unlocked,
         UnreadyVaultIsEmpty, SaveIsTheNewest, CopiesAreCurrent, SaveCovers,
         DowngradeCovers, PasswordIsHeld
  <2>11. SaveCovers'
    BY <1>19 DEF RemoveMetadata, At, To, vaultLocks, locals, Ends, owed, budget,
         SaveCovers, Configured, HasSecrets, FileTypes, CountedTypes, Passwords,
         TaskTypes, VaultTasks, TaskPlaces, TasksHoldTheirLocks, OpenIsTheFile, Unlocked,
         UnreadyVaultIsEmpty, SaveIsTheNewest, CopiesAreCurrent, MigrationCovers,
         DowngradeCovers, PasswordIsHeld
  <2>12. DowngradeCovers'
    BY <1>19 DEF RemoveMetadata, At, To, vaultLocks, locals, Ends, owed, budget,
         DowngradeCovers, Configured, HasSecrets, FileTypes, CountedTypes, Passwords,
         TaskTypes, VaultTasks, TaskPlaces, TasksHoldTheirLocks, OpenIsTheFile, Unlocked,
         UnreadyVaultIsEmpty, SaveIsTheNewest, CopiesAreCurrent, MigrationCovers,
         SaveCovers, PasswordIsHeld
  <2>13. PasswordIsHeld'
    BY <1>19 DEF RemoveMetadata, At, To, vaultLocks, locals, Ends, owed, budget,
         PasswordIsHeld, Configured, HasSecrets, FileTypes, CountedTypes, Passwords,
         TaskTypes, VaultTasks, TaskPlaces, TasksHoldTheirLocks, OpenIsTheFile, Unlocked,
         UnreadyVaultIsEmpty, SaveIsTheNewest, CopiesAreCurrent, MigrationCovers,
         SaveCovers, DowngradeCovers
  <2> QED
    BY <2>1, <2>2, <2>3, <2>4, <2>5, <2>6, <2>7, <2>8, <2>9, <2>10, <2>11, <2>12, <2>13
         DEF VaultInv
<1>20. ASSUME NEW t \in {"downgrade", "reset"}, ClearFlags(t) PROVE VaultInv'
  <2>1. FileTypes'
    BY <1>20 DEF ClearFlags, FileTypes
  <2>2. CountedTypes'
    BY <1>20 DEF ClearFlags, owed, budget, CountedTypes, Passwords
  <2>3. TaskTypes'
    BY <1>20 DEF ClearFlags, Ends, TaskTypes, VaultTasks
  <2>4. TaskPlaces'
    BY <1>20 DEF ClearFlags, At, Ends, TaskPlaces, VaultTasks
  <2>5. TasksHoldTheirLocks'
    BY <1>20 DEF ClearFlags, At, Ends, TasksHoldTheirLocks, TaskPlaces, VaultTasks
  <2>6. OpenIsTheFile'
    BY <1>20 DEF ClearFlags, OpenIsTheFile, Unlocked, Configured, HasSecrets, FileTypes
  <2>7. UnreadyVaultIsEmpty'
    BY <1>20 DEF ClearFlags, At, Ends, UnreadyVaultIsEmpty, HasSecrets, FileTypes,
         TaskPlaces, VaultTasks
  <2>8. SaveIsTheNewest'
    BY <1>20 DEF ClearFlags, At, Ends, owed, budget, SaveIsTheNewest, CountedTypes,
         Passwords, TaskTypes, VaultTasks, TaskPlaces
  <2>9. CopiesAreCurrent'
    BY <1>20 DEF ClearFlags, At, Ends, owed, CopiesAreCurrent, HasSecrets, FileTypes,
         CountedTypes, Passwords, TaskTypes, VaultTasks, TaskPlaces
  <2>10. MigrationCovers'
    BY <1>20 DEF ClearFlags, At, Ends, owed, MigrationCovers, Configured, HasSecrets,
         FileTypes, CountedTypes, Passwords, TaskTypes, VaultTasks, TaskPlaces
  <2>11. SaveCovers'
    BY <1>20 DEF ClearFlags, At, Ends, owed, SaveCovers, Configured, HasSecrets,
         FileTypes, CountedTypes, Passwords, TaskTypes, VaultTasks, TaskPlaces
  <2>12. DowngradeCovers'
    BY <1>20 DEF ClearFlags, At, Ends, owed, DowngradeCovers, Configured, HasSecrets,
         FileTypes, CountedTypes, Passwords, TaskTypes, VaultTasks, TaskPlaces
  <2>13. PasswordIsHeld'
    BY <1>20 DEF ClearFlags, owed, PasswordIsHeld, Configured, HasSecrets, FileTypes,
         CountedTypes, Passwords
  <2> QED
    BY <2>1, <2>2, <2>3, <2>4, <2>5, <2>6, <2>7, <2>8, <2>9, <2>10, <2>11, <2>12, <2>13
         DEF VaultInv
<1>21. CASE LockVault
  <2>1. FileTypes'
    BY <1>21 DEF LockVault, Unlocked, vaultFiles, FileTypes
  <2>2. CountedTypes'
    BY <1>21 DEF LockVault, owed, budget, CountedTypes, Passwords
  <2>3. TaskTypes'
    BY <1>21 DEF LockVault, locals, TaskTypes, VaultTasks
  <2>4. TaskPlaces'
    BY <1>21 DEF LockVault, TaskPlaces, VaultTasks
  <2>5. TasksHoldTheirLocks'
    BY <1>21 DEF LockVault, vaultLocks, TasksHoldTheirLocks, At, TaskPlaces, VaultTasks
  <2>6. OpenIsTheFile'
    BY <1>21 DEF LockVault, Unlocked, vaultFiles, OpenIsTheFile, Configured, HasSecrets,
         FileTypes
  <2>7. UnreadyVaultIsEmpty'
    BY <1>21 DEF LockVault, vaultFiles, UnreadyVaultIsEmpty, HasSecrets, At, FileTypes,
         TaskPlaces, VaultTasks
  <2>8. SaveIsTheNewest'
    BY <1>21 DEF LockVault, locals, owed, budget, SaveIsTheNewest, At, CountedTypes,
         Passwords, TaskTypes, VaultTasks, TaskPlaces
  <2>9. CopiesAreCurrent'
    BY <1>21 DEF LockVault, vaultFiles, locals, owed, CopiesAreCurrent, HasSecrets,
         FileTypes, CountedTypes, Passwords, TaskTypes, VaultTasks, TaskPlaces
  <2>10. MigrationCovers'
    BY <1>21 DEF LockVault, vaultFiles, locals, owed, MigrationCovers, At, Configured,
         HasSecrets, FileTypes, CountedTypes, Passwords, TaskTypes, VaultTasks, TaskPlaces
  <2>11. SaveCovers'
    BY <1>21 DEF LockVault, vaultFiles, locals, owed, SaveCovers, At, Configured,
         HasSecrets, FileTypes, CountedTypes, Passwords, TaskTypes, VaultTasks, TaskPlaces
  <2>12. DowngradeCovers'
    BY <1>21 DEF LockVault, vaultFiles, locals, owed, DowngradeCovers, Configured,
         HasSecrets, FileTypes, CountedTypes, Passwords, TaskTypes, VaultTasks, TaskPlaces
  <2>13. PasswordIsHeld'
    BY <1>21 DEF LockVault, vaultFiles, owed, PasswordIsHeld, Configured, HasSecrets,
         FileTypes, CountedTypes, Passwords
  <2> QED
    BY <2>1, <2>2, <2>3, <2>4, <2>5, <2>6, <2>7, <2>8, <2>9, <2>10, <2>11, <2>12, <2>13
         DEF VaultInv
<1>22. CASE VaultCrash
  <2>1. FileTypes'
    BY <1>22 DEF VaultCrash, VaultTasks, vaultFiles, FileTypes
  <2>2. CountedTypes'
    BY <1>22 DEF VaultCrash, VaultTasks, owed, CountedTypes, Passwords
  <2>3. TaskTypes'
    BY <1>22 DEF VaultCrash, VaultTasks, TaskTypes
  <2>4. TaskPlaces'
    BY <1>22 DEF VaultCrash, VaultTasks, TaskPlaces
  <2>5. TasksHoldTheirLocks'
    BY <1>22 DEF VaultCrash, VaultTasks, TasksHoldTheirLocks, At, TaskPlaces
  <2>6. OpenIsTheFile'
    BY <1>22 DEF VaultCrash, VaultTasks, vaultFiles, OpenIsTheFile, Unlocked, Configured,
         HasSecrets, FileTypes
  <2>7. UnreadyVaultIsEmpty'
    BY <1>22 DEF VaultCrash, VaultTasks, vaultFiles, UnreadyVaultIsEmpty, HasSecrets, At,
         FileTypes, TaskPlaces
  <2>8. SaveIsTheNewest'
    BY <1>22 DEF VaultCrash, VaultTasks, owed, SaveIsTheNewest, At, CountedTypes,
         Passwords, TaskTypes, TaskPlaces
  <2>9. CopiesAreCurrent'
    BY <1>22 DEF VaultCrash, VaultTasks, vaultFiles, owed, CopiesAreCurrent, HasSecrets,
         FileTypes, CountedTypes, Passwords, TaskTypes, TaskPlaces
  <2>10. MigrationCovers'
    BY <1>22 DEF VaultCrash, VaultTasks, vaultFiles, owed, MigrationCovers, At,
         Configured, HasSecrets, FileTypes, CountedTypes, Passwords, TaskTypes, TaskPlaces
  <2>11. SaveCovers'
    BY <1>22 DEF VaultCrash, VaultTasks, vaultFiles, owed, SaveCovers, At, Configured,
         HasSecrets, FileTypes, CountedTypes, Passwords, TaskTypes, TaskPlaces
  <2>12. DowngradeCovers'
    BY <1>22 DEF VaultCrash, VaultTasks, vaultFiles, owed, DowngradeCovers, Configured,
         HasSecrets, FileTypes, CountedTypes, Passwords, TaskTypes, TaskPlaces
  <2>13. PasswordIsHeld'
    BY <1>22 DEF VaultCrash, VaultTasks, vaultFiles, owed, PasswordIsHeld, Configured,
         HasSecrets, FileTypes, CountedTypes, Passwords
  <2> QED
    BY <2>1, <2>2, <2>3, <2>4, <2>5, <2>6, <2>7, <2>8, <2>9, <2>10, <2>11, <2>12, <2>13
         DEF VaultInv
<1> QED
  BY <1>1, <1>2, <1>3, <1>4, <1>5, <1>6, <1>7, <1>8, <1>9, <1>10, <1>11, <1>12, <1>13,
       <1>14, <1>15, <1>16, <1>17, <1>18, <1>19, <1>20, <1>21, <1>22 DEF VaultNext

(* A first start knows of no password. *)
LEMMA VaultInvInit ==
  ASSUME VaultInit
  PROVE  VaultInv
<1> USE KeptShape
<1>1. FileTypes
  BY Zenon DEF VaultInit, FileTypes
<1>2. CountedTypes
  BY Zenon DEF VaultInit, CountedTypes
<1>3. TaskTypes
  BY DEF VaultInit, TaskTypes
<1>4. TaskPlaces
  BY DEF VaultInit, TaskPlaces, VaultTasks
<1>5. TasksHoldTheirLocks /\ OpenIsTheFile /\ UnreadyVaultIsEmpty /\ MigrationCovers
  BY DEF VaultInit, TasksHoldTheirLocks, At, VaultTasks, OpenIsTheFile, Unlocked,
         UnreadyVaultIsEmpty,
     HasSecrets, MigrationCovers
<1>6. \A s \in Sites : acked[s] = 0 /\ enc[s] = 0
  BY DEF VaultInit
<1>7. SaveIsTheNewest /\ CopiesAreCurrent /\ SaveCovers /\ DowngradeCovers /\ PasswordIsHeld
  BY <1>6 DEF VaultInit, At, VaultTasks, HasSecrets, SaveIsTheNewest, CopiesAreCurrent, SaveCovers,
     DowngradeCovers, PasswordIsHeld
<1> QED
  BY <1>1, <1>2, <1>3, <1>4, <1>5, <1>7 DEF VaultInv

(* PasswordIsHeld: a password the user was told is saved stays readable, for   *)
(* any number of bookmarks, saves, locks, switches, failed writes and ends of  *)
(* the application, as long as nothing is saved or switched while passwords    *)
(* move into the vault.                                                        *)
THEOREM SavedPasswordsAreHeld ==
  ASSUME MigrationAlone
  PROVE  VaultSpec => []PasswordIsHeld
<1>1. VaultInit => VaultInv
  BY VaultInvInit
<1>2. VaultInv /\ [VaultNext]_vaultVars => VaultInv'
  BY VaultInvStep
<1>3. VaultInv => PasswordIsHeld
  BY DEF VaultInv
<1> QED
  BY <1>1, <1>2, <1>3, PTL DEF VaultSpec
-----------------------------------------------------------------------------
(* StoredDocument: a saved edit is held *)
\* The places of a save, and the damages there may be.
SavePcs == {"idle", "locked", "loaded", "cleared", "staged", "backedUp"}
Writing == {"cleared", "staged", "backedUp"}
CopiesHoldDamages == MaxDamages <= CopiesKept

\* The types of the variables.
StoreTypes ==
    /\ strict \in BOOLEAN
    /\ live \in Stored \cup {Absent} /\ lastGood \in Stored \cup {Absent}
    /\ copies \in Seq(Stored)
    /\ savePc \in [Savers -> SavePcs]
    /\ saveData \in [Savers -> SUBSET (1..MaxEdits)]
    /\ peeked \in [Readers -> Stored \cup {Absent}]
    /\ edits \in 0..MaxEdits /\ damages \in 0..MaxDamages
    /\ masked \in BOOLEAN /\ overwritten \subseteq 1..MaxEdits

\* One save at a time, and only what decodes is a backup.
OneSaves == \A s \in Savers : savePc[s] # "idle" => storeLock = s
BackupIsGood == lastGood = Absent \/ lastGood.form = "good"

\* Every damaged content there is was one damage, and is kept once.
Apart(q) == \A i, j \in 1..Len(q) : q[i] = q[j] => i = j
Bad(c) == c.form \notin {"good", "absent"}
Damaged == ToSet(copies) \cup {c \in {live} \cup {peeked[r] : r \in Readers} : Bad(c)}
DamagesAreCounted == IsFiniteSet(Damaged) /\ Cardinality(Damaged) <= damages

\* What the document and its backup hold is what a save is to write, or is
\* held elsewhere, or was left out before.
CopiesData == UNION {copies[i].data : i \in DOMAIN copies}
BackupIsOlder ==
    live.form = "good" => lastGood.data \subseteq live.data \cup CopiesData \cup overwritten
Knows(s) == live.data \cup lastGood.data \subseteq saveData[s] \cup CopiesData \cup overwritten
SavesKnow ==
    \A s \in Savers :
        /\ savePc[s] = "loaded" =>
              masked \/ issue = "Unreadable" \/ live.form = "newer" \/ Knows(s)
        /\ savePc[s] \in Writing => live.form # "newer" /\ (masked \/ Knows(s))
        /\ strict /\ savePc[s] \in {"loaded"} \cup Writing => live.data \subseteq saveData[s]

(* The inductive invariant. *)
StoreInv ==
    /\ StoreTypes /\ OneSaves /\ BackupIsGood /\ Apart(copies) /\ DamagesAreCounted
    /\ BackupIsOlder /\ SavesKnow

\* What a step of FTPeach's own keeps.
EditsStay ==
    /\ HeldSomewhere \subseteq HeldSomewhere' \cup overwritten'
    /\ live.form = "newer" => live' = live
    /\ strict => live.data \subseteq live'.data
-----------------------------------------------------------------------------
(* Copies of damaged bytes *)

\* What copies is made of.
LEMMA CopiesTell ==
  ASSUME StoreTypes
  PROVE  /\ Len(copies) \in Nat /\ DOMAIN copies = 1..Len(copies)
         /\ \A i \in 1..Len(copies) : copies[i] \in Stored
         /\ \A c : c \in ToSet(copies) <=> \E i \in 1..Len(copies) : copies[i] = c
BY DEF StoreTypes, ToSet

\* More copies hold more edits.
LEMMA DataOfCopies ==
  ASSUME ToSet(copies) \subseteq ToSet(copies')
  PROVE  CopiesData \subseteq CopiesData'
<1> SUFFICES ASSUME NEW e \in CopiesData PROVE e \in CopiesData'
  OBVIOUS
<1>1. PICK i \in DOMAIN copies : e \in copies[i].data
  BY DEF CopiesData
<1>2. copies[i] \in ToSet(copies)
  BY DEF ToSet
<1>3. PICK j \in DOMAIN copies' : copies'[j] = copies[i]
  BY <1>2 DEF ToSet
<1>4. e \in copies'[j].data
  BY <1>1, <1>3
<1> QED BY <1>4 DEF CopiesData

\* As long as there were no more damages than copies are kept, none goes.
LEMMA ArchivedIs ==
  ASSUME CopiesHoldDamages, StoreInv, NEW content \in Stored, content \in Damaged
  PROVE  /\ Archived(content) \in Seq(Stored) /\ Apart(Archived(content))
         /\ ToSet(Archived(content)) = ToSet(copies) \cup {content}
<1>1. StoreTypes /\ Apart(copies) /\ IsFiniteSet(Damaged) /\ Cardinality(Damaged) <= MaxDamages
      /\ MaxDamages \in Nat /\ CopiesKept \in Nat /\ MaxDamages <= CopiesKept
  <2>1. /\ StoreTypes /\ Apart(copies) /\ IsFiniteSet(Damaged) /\ Cardinality(Damaged) <= damages
        /\ damages \in 0..MaxDamages
    BY DEF StoreInv, DamagesAreCounted, StoreTypes
  <2>2. Cardinality(Damaged) \in Nat
    BY <2>1, FS_CardinalityType
  <2> QED BY <2>1, <2>2, StoreAssumption DEF CopiesHoldDamages
<1>2. /\ copies \in Seq(Stored) /\ Len(copies) \in Nat /\ DOMAIN copies = 1..Len(copies)
      /\ \A c : c \in ToSet(copies) <=> \E i \in 1..Len(copies) : copies[i] = c
  BY <1>1, CopiesTell DEF StoreTypes
<1>3. CASE Contains(copies, content)
  <2>1. Archived(content) = copies /\ content \in ToSet(copies)
    BY <1>2, <1>3 DEF Archived, Contains
  <2> QED BY <1>1, <1>2, <2>1
<1>4. CASE ~Contains(copies, content)
  <2> DEFINE all == <<content>> \o copies
             n == Len(copies)
  <2>1. /\ all \in Seq(Stored) /\ Len(all) = n + 1 /\ all[1] = content
        /\ \A i \in 1..n : all[i + 1] = copies[i]
    <3>1. <<content>> \in Seq(Stored) /\ Len(<<content>>) = 1 /\ <<content>>[1] = content
      OBVIOUS
    <3>2. /\ all \in Seq(Stored) /\ Len(all) = Len(<<content>>) + Len(copies)
          /\ \A i \in 1 .. Len(<<content>>) + Len(copies) :
                all[i] = IF i <= Len(<<content>>)
                           THEN <<content>>[i] ELSE copies[i - Len(<<content>>)]
      BY <1>2, <3>1, ConcatProperties
    <3> HIDE DEF all
    <3>3. /\ Len(all) = n + 1
          /\ \A i \in 1 .. n + 1 : all[i] = IF i <= 1 THEN content ELSE copies[i - 1]
      BY <1>2, <3>1, <3>2
    <3>4. all[1] = content
      BY <1>2, <3>3
    <3>5. ASSUME NEW i \in 1..n PROVE all[i + 1] = copies[i]
      <4>1. i + 1 \in 1..n + 1 /\ ~(i + 1 <= 1) /\ i + 1 - 1 = i
        BY <1>2
      <4> QED BY <3>3, <4>1
    <3> QED BY <3>2, <3>3, <3>4, <3>5
  <2> HIDE DEF all, n
  <2>2. n \in Nat /\ \A i \in 1..n + 1 : i = 1
             \/ (i > 1 /\ i - 1 \in 1..n /\ all[i] = copies[i - 1])
    <3>1. n \in Nat
      BY <1>2 DEF n
    <3>2. ASSUME NEW i \in 1..n + 1, i # 1 PROVE i > 1 /\ i - 1 \in 1..n /\ all[i] = copies[i - 1]
      <4>1. i > 1 /\ i - 1 \in 1..n /\ (i - 1) + 1 = i
        BY <3>1, <3>2
      <4> QED BY <2>1, <4>1
    <3> QED BY <3>1, <3>2
  <2>3. \A i \in 1..n : copies[i] # content
    BY <1>4 DEF Contains, n
  <2>4. Apart(all)
    <3>1. ASSUME NEW i \in 1..n + 1, NEW j \in 1..n + 1, all[i] = all[j] PROVE i = j
      <4>1. CASE i = 1
        BY <2>1, <2>2, <2>3, <3>1, <4>1
      <4>2. CASE j = 1
        BY <2>1, <2>2, <2>3, <3>1, <4>2
      <4>3. CASE i # 1 /\ j # 1
        <5>1. i - 1 \in 1..n /\ j - 1 \in 1..n /\ copies[i - 1] = copies[j - 1]
          BY <2>2, <3>1, <4>3
        <5>2. i - 1 = j - 1
          BY <1>1, <5>1 DEF Apart, n
        <5> QED BY <2>2, <5>2
      <4> QED BY <4>1, <4>2, <4>3
    <3> QED BY <2>1, <3>1 DEF Apart
  <2>5. ToSet(all) = ToSet(copies) \cup {content}
    <3>1. DOMAIN all = 1..n + 1
      BY <2>1
    <3>2. ASSUME NEW c PROVE c \in ToSet(all) <=> c \in ToSet(copies) \/ c = content
      <4>1. c \in ToSet(all) <=> \E i \in 1..n + 1 : all[i] = c
        BY <3>1 DEF ToSet
      <4>2. c \in ToSet(copies) <=> \E i \in 1..n : copies[i] = c
        BY <1>2 DEF n
      <4>3. ASSUME NEW i \in 1..n PROVE i + 1 \in 1..n + 1 /\ all[i + 1] = copies[i]
        BY <2>1, <2>2
      <4>4. 1 \in 1..n + 1
        BY <2>2
      <4> QED BY <2>1, <2>2, <4>1, <4>2, <4>3, <4>4
    <3> QED BY <3>2
  <2>6. n + 1 <= CopiesKept
    <3>1. all \in [1..n + 1 -> Damaged]
      <4>1. \A i \in 1..n + 1 : all[i] \in ToSet(all)
        BY <2>1 DEF ToSet
      <4>2. ToSet(all) \subseteq Damaged
        BY <2>5 DEF Damaged
      <4>3. all \in [1..n + 1 -> Stored]
        BY <2>1
      <4> QED BY <4>1, <4>2, <4>3
    <3>2. all \in Injection(1..n + 1, Damaged)
      BY <2>1, <2>4, <3>1 DEF Apart, Injection, IsInjective
    <3>3. Cardinality(1..n + 1) <= Cardinality(Damaged)
      BY <1>1, <3>2, FS_Injection
    <3>4. Cardinality(1..n + 1) = n + 1
      BY <2>2, FS_Interval
    <3>5. Cardinality(Damaged) \in Nat
      BY <1>1, FS_CardinalityType
    <3> QED BY <1>1, <2>2, <3>3, <3>4, <3>5
  <2>7. Archived(content) = SubSeq(all, 1, n + 1)
    <3>1. Archived(content) = SubSeq(all, 1,
                                     IF Len(all) < CopiesKept THEN Len(all) ELSE CopiesKept)
      BY <1>4 DEF Archived, all
    <3>2. \A k \in Nat : k <= CopiesKept => (IF k < CopiesKept THEN k ELSE CopiesKept) = k
      BY <1>1
    <3>3. Len(all) = n + 1 /\ n + 1 \in Nat
      BY <2>1, <2>2
    <3>4. (IF Len(all) < CopiesKept THEN Len(all) ELSE CopiesKept) = n + 1
      BY <2>6, <3>2, <3>3
    <3> QED BY <3>1, <3>4
  <2>8. SubSeq(all, 1, n + 1) = all
    <3>1. /\ SubSeq(all, 1, n + 1) \in Seq(Stored) /\ Len(SubSeq(all, 1, n + 1)) = n + 1
          /\ \A i \in 1..n + 1 : SubSeq(all, 1, n + 1)[i] = all[i]
      BY <2>1, <2>2, SubSeqProperties
    <3> QED BY <2>1, <3>1, SeqEqual
  <2> QED BY <2>1, <2>4, <2>5, <2>7, <2>8
<1> QED BY <1>3, <1>4

\* Nothing damaged that was not there before.
LEMMA NoNewDamage ==
  ASSUME StoreInv, UNCHANGED <<damages>>, Damaged' \subseteq Damaged
  PROVE  DamagesAreCounted'
<1>1. IsFiniteSet(Damaged) /\ Cardinality(Damaged) <= damages /\ damages \in Nat
  BY DEF StoreInv, DamagesAreCounted, StoreTypes
<1>2. IsFiniteSet(Damaged') /\ Cardinality(Damaged') <= Cardinality(Damaged)
  BY <1>1, FS_Subset
<1>3. Cardinality(Damaged) \in Nat /\ Cardinality(Damaged') \in Nat
  BY <1>1, <1>2, FS_CardinalityType
<1> QED BY <1>1, <1>2, <1>3 DEF DamagesAreCounted
-----------------------------------------------------------------------------
(* What a step keeps *)

\* Nobody saves while the lock is free, ...
LEMMA AllIdle ==
  ASSUME \A t \in Savers : savePc'[t] = "idle"
  PROVE  OneSaves' /\ SavesKnow'
BY DEF OneSaves, SavesKnow, Writing

\* ... and so it is when a save ends.
LEMMA EndsIdle ==
  ASSUME StoreInv, NEW s \in Savers, savePc[s] # "idle", SaveEnds(s)
  PROVE  /\ \A t \in Savers : savePc'[t] = "idle"
         /\ savePc' \in [Savers -> SavePcs] /\ saveData' \in [Savers -> SUBSET (1..MaxEdits)]
<1>1. /\ savePc \in [Savers -> SavePcs] /\ saveData \in [Savers -> SUBSET (1..MaxEdits)]
      /\ \A t \in Savers : savePc[t] # "idle" => storeLock = t
  BY DEF StoreInv, StoreTypes, OneSaves
<1>2. savePc' = [savePc EXCEPT ![s] = "idle"] /\ saveData' = [saveData EXCEPT ![s] = {}]
  BY DEF SaveEnds, SaveTo
<1>3. \A t \in Savers : savePc'[t] = "idle"
  BY <1>1, <1>2
<1>4. "idle" \in SavePcs
  BY DEF SavePcs
<1> QED BY <1>1, <1>2, <1>3, <1>4

\* A save goes on to its next step.
LEMMA SaveGoes ==
  ASSUME StoreInv, NEW s \in Savers, savePc[s] # "idle", NEW pc \in SavePcs, SaveTo(s, pc),
         UNCHANGED storeLock
  PROVE  /\ OneSaves' /\ savePc' \in [Savers -> SavePcs] /\ savePc'[s] = pc
         /\ \A t \in Savers : t # s => savePc'[t] = "idle"
<1>1. /\ savePc \in [Savers -> SavePcs] /\ \A t \in Savers : savePc[t] # "idle" => storeLock = t
  BY DEF StoreInv, StoreTypes, OneSaves
<1>2. savePc' = [savePc EXCEPT ![s] = pc]
  BY DEF SaveTo
<1>3. /\ savePc' \in [Savers -> SavePcs] /\ savePc'[s] = pc
      /\ \A t \in Savers : t # s => savePc'[t] = "idle"
  BY <1>1, <1>2
<1> QED BY <1>1, <1>3 DEF OneSaves

\* A step that leaves the document and its backup alone.
CopiesGrow ==
    /\ copies' \in Seq(Stored) /\ Apart(copies')
    /\ ToSet(copies) \subseteq ToSet(copies') /\ ToSet(copies') \subseteq Damaged
LEMMA LooksKeep ==
  ASSUME StoreInv, UNCHANGED <<strict, live, lastGood, damages, overwritten>>, CopiesGrow,
         peeked' \in [Readers -> Stored \cup {Absent}],
         \A r \in Readers : peeked'[r] \in {peeked[r], live, Absent},
         savePc' \in [Savers -> SavePcs], saveData' \in [Savers -> SUBSET (1..MaxEdits)],
         edits' \in 0..MaxEdits, masked' \in BOOLEAN, OneSaves', SavesKnow'
  PROVE  StoreInv' /\ EditsStay
<1>1. CopiesData \subseteq CopiesData'
  BY DataOfCopies DEF CopiesGrow
<1>2. StoreTypes' /\ BackupIsGood' /\ Apart(copies)'
  BY DEF StoreInv, StoreTypes, BackupIsGood, CopiesGrow, Apart
<1>3. DamagesAreCounted'
  <2>1. Damaged' \subseteq Damaged
    <3>1. ~Bad(Absent)
      BY DEF Bad, Absent
    <3>2. Damaged' = ToSet(copies') \cup {c \in {live'} \cup {peeked'[r] : r \in Readers} : Bad(c)}
      BY DEF Damaged, Bad, ToSet
    <3> QED BY <3>1, <3>2 DEF Damaged, CopiesGrow
  <2> QED BY <2>1, NoNewDamage
<1>4. BackupIsOlder'
  BY <1>1 DEF StoreInv, BackupIsOlder
<1>5. EditsStay
  BY <1>1 DEF EditsStay, HeldSomewhere, CopiesData
<1> QED BY <1>2, <1>3, <1>4, <1>5 DEF StoreInv

\* Copies that stay are no more and no fewer.
LEMMA CopiesStay == ASSUME StoreInv, UNCHANGED copies PROVE CopiesGrow
BY DEF StoreInv, StoreTypes, CopiesGrow, Damaged, Apart

\* What is judged is copied aside, or the refusal is noted.
LEMMA ReadTells ==
  ASSUME CopiesHoldDamages, StoreInv, NEW content \in {live} \cup {peeked[r] : r \in Readers},
         ReadJson(content)
  PROVE  /\ CopiesGrow /\ masked' \in BOOLEAN /\ (masked => masked')
         /\ issue = "Unreadable" => issue' = "Unreadable" \/ masked'
         /\ content.form \in {"shape", "torn"} =>
               content \in ToSet(copies') \/ masked' \/ issue' = "Unreadable"
<1>1. content \in Stored \cup {Absent} /\ masked \in BOOLEAN
  BY DEF StoreInv, StoreTypes
<1>2. CASE Bad(content) /\ copies' = Archived(content)
  <2>1. content \in Damaged /\ content \in Stored
    BY <1>1, <1>2 DEF Damaged, Bad, Absent
  <2>2. /\ copies' \in Seq(Stored) /\ Apart(copies')
        /\ ToSet(copies') = ToSet(copies) \cup {content}
    BY <1>2, <2>1, ArchivedIs
  <2>3. CopiesGrow /\ content \in ToSet(copies')
    BY <2>1, <2>2 DEF CopiesGrow, Damaged
  <2>4. /\ masked' \in BOOLEAN
        /\ (masked => masked') /\ (issue = "Unreadable" => issue' = "Unreadable" \/ masked')
    BY <1>1 DEF ReadJson, Judge, Note, notes
  <2> QED BY <2>3, <2>4
<1>3. CASE UNCHANGED copies
  <2>1. /\ masked' \in BOOLEAN
        /\ (masked => masked') /\ (issue = "Unreadable" => issue' = "Unreadable" \/ masked')
    BY <1>1 DEF ReadJson, Judge, Note, notes
  <2>2. ASSUME content.form \in {"shape", "torn"}
        PROVE  content \in ToSet(copies') \/ masked' \/ issue' = "Unreadable"
    <3>1. PICK kept \in BOOLEAN : Judge(content, kept)
      BY <2>2 DEF ReadJson
    <3>2. CASE ~kept
      BY <3>1, <3>2 DEF Judge, Note
    <3>3. CASE kept
      <4>1. copies' = Archived(content)
        BY <3>1, <3>3 DEF Judge
      <4>2. content \in Stored /\ content \in Damaged
        BY <1>1, <2>2 DEF Damaged, Bad, Absent
      <4> QED BY <4>1, <4>2, ArchivedIs
    <3> QED BY <3>2, <3>3
  <2> QED BY <1>3, <2>1, <2>2, CopiesStay
<1>4. UNCHANGED copies \/ (Bad(content) /\ copies' = Archived(content))
  BY DEF ReadJson, Judge, Bad
<1> QED BY <1>2, <1>3, <1>4
-----------------------------------------------------------------------------
(* The steps, one after the other *)

\* A read outside the lock, ...
LEMMA PeekKeeps == ASSUME StoreInv, NEW r \in Readers, Peek(r) PROVE StoreInv' /\ EditsStay
<1>1. /\ peeked' = [peeked EXCEPT ![r] = live] /\ live # Absent
      /\ UNCHANGED <<strict, live, lastGood, copies, issue, masked, storeLock, savePc, saveData,
                     edits,
                     damages, overwritten>>
  BY DEF Peek, docFiles, notes, Absent
<1>2. CopiesGrow
  BY <1>1, CopiesStay
<1>3. StoreTypes /\ peeked' \in [Readers -> Stored \cup {Absent}]
           /\ \A n \in Readers : peeked'[n] \in {peeked[n], live, Absent}
  BY <1>1 DEF StoreInv, StoreTypes
<1>4. OneSaves' /\ SavesKnow'
  BY <1>1 DEF StoreInv, OneSaves, SavesKnow, Knows, CopiesData
<1> QED BY <1>1, <1>2, <1>3, <1>4, LooksKeep DEF StoreTypes

\* ... and what is made of it.
LEMMA JudgeKeeps ==
  ASSUME CopiesHoldDamages, StoreInv, NEW r \in Readers, JudgePeeked(r)
  PROVE  StoreInv' /\ EditsStay
<1>1. /\ peeked' = [peeked EXCEPT ![r] = Absent] /\ ReadJson(peeked[r])
      /\ UNCHANGED <<strict, live, lastGood, storeLock, savePc, saveData, edits, damages,
                     overwritten>>
  BY DEF JudgePeeked
<1>2. /\ CopiesGrow /\ masked' \in BOOLEAN /\ (masked => masked')
      /\ issue = "Unreadable" => issue' = "Unreadable" \/ masked'
  BY <1>1, ReadTells
<1>3. /\ StoreTypes /\ peeked' \in [Readers -> Stored \cup {Absent}]
      /\ \A n \in Readers : peeked'[n] \in {peeked[n], live, Absent}
  BY <1>1 DEF StoreInv, StoreTypes
<1>4. CopiesData \subseteq CopiesData'
  BY <1>2, DataOfCopies DEF CopiesGrow
<1>5. \A s \in Savers : Knows(s) => Knows(s)'
  BY <1>1, <1>4 DEF Knows
<1>6. OneSaves' /\ SavesKnow'
  BY <1>1, <1>2, <1>5 DEF StoreInv, OneSaves, SavesKnow
<1> QED BY <1>1, <1>2, <1>3, <1>6, LooksKeep DEF StoreTypes

\* A save begins, ...
LEMMA LockKeeps == ASSUME StoreInv, NEW s \in Savers, TakeStoreLock(s) PROVE StoreInv' /\ EditsStay
<1>1. /\ storeLock = Nobody /\ storeLock' = s /\ savePc' = [savePc EXCEPT ![s] = "locked"]
      /\ UNCHANGED <<strict, live, lastGood, copies, issue, masked, saveData, peeked, edits,
                     damages,
                     overwritten>>
  BY DEF TakeStoreLock, SaveTo, docFiles, notes
<1>2. StoreTypes /\ OneSaves
  BY DEF StoreInv
<1>3. \A t \in Savers : savePc[t] = "idle"
  BY <1>1, <1>2, StoreAssumption DEF OneSaves
<1>4. "locked" \in SavePcs /\ "locked" \notin Writing
  BY DEF SavePcs, Writing
<1>5. /\ savePc' \in [Savers -> SavePcs] /\ savePc'[s] = "locked"
      /\ \A t \in Savers : t # s => savePc'[t] = "idle"
  BY <1>1, <1>2, <1>3, <1>4 DEF StoreTypes
<1>6. OneSaves' /\ SavesKnow'
  BY <1>1, <1>4, <1>5 DEF OneSaves, SavesKnow, Writing
<1> QED BY <1>1, <1>2, <1>5, <1>6, CopiesStay, LooksKeep DEF StoreTypes

\* ... loads what is there, ...
LEMMA LoadKeeps ==
  ASSUME CopiesHoldDamages, StoreInv, NEW s \in Savers, LoadDocument(s)
  PROVE  StoreInv' /\ EditsStay
<1>1. /\ savePc[s] = "locked" /\ edits < MaxEdits
      /\ UNCHANGED <<strict, live, lastGood, peeked, damages, overwritten>>
  BY DEF LoadDocument
<1>2. StoreTypes /\ BackupIsGood /\ BackupIsOlder
  BY DEF StoreInv
<1>3. PICK noted \in BOOLEAN :
        /\ noted => live # Absent
        /\ IF strict /\ (noted \/ ~TrustAnswers)
           THEN SaveEnds(s) /\ UNCHANGED <<copies, notes, edits>>
           ELSE /\ IF strict THEN UNCHANGED <<copies, notes>>
                   ELSE IF noted THEN Note("Unreadable") /\ UNCHANGED copies
                   ELSE ReadJson(live)
                /\ edits' = edits + 1
                /\ saveData' = [saveData EXCEPT ![s] =
                      (IF noted THEN {} ELSE Answer(live)) \cup {edits'}]
                /\ SaveTo(s, "loaded")
                /\ UNCHANGED storeLock
  BY DEF LoadDocument
<1>4. CASE strict /\ (noted \/ ~TrustAnswers)
  <2>1. SaveEnds(s) /\ UNCHANGED <<copies, masked, edits>>
    BY <1>3, <1>4 DEF notes
  <2>2. /\ \A t \in Savers : savePc'[t] = "idle"
        /\ savePc' \in [Savers -> SavePcs] /\ saveData' \in [Savers -> SUBSET (1..MaxEdits)]
    BY <1>1, <2>1, EndsIdle
  <2> QED BY <1>1, <1>2, <2>1, <2>2, AllIdle, CopiesStay, LooksKeep DEF StoreTypes
<1>5. CASE ~(strict /\ (noted \/ ~TrustAnswers))
  <2>1. /\ edits' = edits + 1 /\ SaveTo(s, "loaded") /\ UNCHANGED storeLock
        /\ saveData' = [saveData EXCEPT ![s] = (IF noted THEN {} ELSE Answer(live)) \cup {edits'}]
        /\ strict => ~noted /\ TrustAnswers /\ UNCHANGED <<copies, issue, masked>>
        /\ ~strict /\ noted => Note("Unreadable") /\ UNCHANGED copies
        /\ ~strict /\ ~noted => ReadJson(live)
    BY <1>3, <1>5 DEF notes
  <2>2. /\ OneSaves' /\ savePc' \in [Savers -> SavePcs] /\ savePc'[s] = "loaded"
        /\ \A t \in Savers : t # s => savePc'[t] = "idle"
    BY <1>1, <2>1, SaveGoes DEF SavePcs
  <2>3. edits' \in 0..MaxEdits /\ edits' \in 1..MaxEdits
    BY <1>1, <1>2, <2>1, StoreAssumption DEF StoreTypes
  <2>4. Answer(live) \subseteq 1..MaxEdits
    BY <1>2 DEF StoreTypes, Answer, Stored, Absent
  <2>5. /\ saveData' \in [Savers -> SUBSET (1..MaxEdits)]
        /\ ~noted => Answer(live) \subseteq saveData'[s]
    BY <1>2, <2>1, <2>3, <2>4 DEF StoreTypes
  <2>6. CopiesGrow /\ masked' \in BOOLEAN
    BY <1>2, <2>1, CopiesStay, ReadTells DEF StoreTypes, Note
  <2>7. CopiesData \subseteq CopiesData'
    BY <2>6, DataOfCopies DEF CopiesGrow
  <2>8. masked' \/ issue' = "Unreadable" \/ live'.form = "newer" \/ Knows(s)'
    <3>1. CASE noted
      BY <2>1, <3>1 DEF Note
    <3>2. CASE ~noted /\ live.form = "good"
      <4>1. live.data \subseteq saveData'[s]
        BY <2>5, <3>2 DEF Answer
      <4>2. lastGood.data \subseteq live.data \cup CopiesData \cup overwritten
        BY <1>2, <3>2 DEF BackupIsOlder
      <4> QED BY <1>1, <2>7, <4>1, <4>2 DEF Knows
    <3>3. CASE ~noted /\ live.form # "good" /\ live.form # "newer"
      <4>1. lastGood.data \subseteq saveData'[s]
        <5>1. CASE lastGood = Absent
          BY <5>1 DEF Absent
        <5>2. CASE lastGood.form = "good"
          BY <2>5, <3>3, <5>2 DEF Answer
        <5> QED BY <1>2, <5>1, <5>2 DEF BackupIsGood
      <4>2. CASE live = Absent
        BY <1>1, <4>1, <4>2 DEF Knows, Absent
      <4>3. CASE live # Absent
        <5>1. live.form \in {"shape", "torn"}
          BY <1>2, <3>3, <4>3 DEF StoreTypes, Stored, Forms
        <5>2. ~strict /\ ReadJson(live)
          BY <2>1, <3>3, <4>3 DEF TrustAnswers
        <5>3. live \in ToSet(copies') \/ masked' \/ issue' = "Unreadable"
          BY <5>1, <5>2, ReadTells
        <5>4. live \in ToSet(copies') => live.data \subseteq CopiesData'
          BY DEF ToSet, CopiesData
        <5> QED BY <1>1, <4>1, <5>3, <5>4 DEF Knows
      <4> QED BY <4>2, <4>3
    <3>4. CASE live.form = "newer"
      BY <1>1, <3>4
    <3> QED BY <3>1, <3>2, <3>3, <3>4
  <2>9. strict => live.data \subseteq saveData'[s]
    BY <2>1, <2>5 DEF TrustAnswers, Answer, Absent
  <2>10. SavesKnow'
    BY <1>1, <2>2, <2>8, <2>9 DEF SavesKnow, Writing
  <2>11. /\ peeked' \in [Readers -> Stored \cup {Absent}]
         /\ \A n \in Readers : peeked'[n] \in {peeked[n], live, Absent}
    BY <1>1, <1>2 DEF StoreTypes
  <2> QED BY <1>1, <2>2, <2>3, <2>5, <2>6, <2>10, <2>11, LooksKeep
<1> QED BY <1>4, <1>5

\* ... is let through or noted, ...
LEMMA WritableKeeps ==
  ASSUME CopiesHoldDamages, StoreInv, NEW s \in Savers, EnsureWritable(s)
  PROVE  StoreInv' /\ EditsStay
<1>1. /\ savePc[s] = "loaded"
      /\ UNCHANGED <<strict, live, lastGood, issue, masked, peeked, edits, damages, overwritten>>
  BY DEF EnsureWritable, notes
<1>2. StoreTypes /\ SavesKnow
  BY DEF StoreInv
<1>3. CASE SaveEnds(s) /\ UNCHANGED copies
  <2>1. /\ \A t \in Savers : savePc'[t] = "idle"
        /\ savePc' \in [Savers -> SavePcs] /\ saveData' \in [Savers -> SUBSET (1..MaxEdits)]
    BY <1>1, <1>3, EndsIdle
  <2> QED BY <1>1, <1>2, <1>3, <2>1, AllIdle, CopiesStay, LooksKeep DEF StoreTypes
<1>4. CASE /\ issue \notin {"Unreadable", "Newer"}
           /\ \/ live.form \in {"good", "shape", "absent"} /\ UNCHANGED copies
              \/ live.form = "torn" /\ copies' = Archived(live)
           /\ SaveTo(s, "cleared")
           /\ UNCHANGED <<storeLock, saveData>>
  <2>1. /\ OneSaves' /\ savePc' \in [Savers -> SavePcs] /\ savePc'[s] = "cleared"
        /\ \A t \in Savers : t # s => savePc'[t] = "idle"
    BY <1>1, <1>4, SaveGoes DEF SavePcs
  <2>2. CopiesGrow
    <3>1. CASE UNCHANGED copies
      BY <3>1, CopiesStay
    <3>2. CASE live.form = "torn" /\ copies' = Archived(live)
      <4>1. live \in Stored /\ live \in Damaged
        BY <1>2, <3>2 DEF StoreTypes, Absent, Damaged, Bad
      <4> QED BY <3>2, <4>1, ArchivedIs DEF CopiesGrow, Damaged
    <3> QED BY <1>4, <3>1, <3>2
  <2>3. CopiesData \subseteq CopiesData'
    BY <2>2, DataOfCopies DEF CopiesGrow
  <2>4. live.form # "newer" /\ (masked \/ Knows(s)) /\ (strict => live.data \subseteq saveData[s])
    BY <1>1, <1>2, <1>4 DEF SavesKnow
  <2>5. Knows(s) => Knows(s)'
    BY <1>1, <1>4, <2>3 DEF Knows
  <2>6. SavesKnow'
    BY <1>1, <1>4, <2>1, <2>4, <2>5 DEF SavesKnow, Writing
  <2> QED BY <1>1, <1>2, <1>4, <2>1, <2>2, <2>6, LooksKeep DEF StoreTypes
<1> QED BY <1>3, <1>4 DEF EnsureWritable

\* ... and writes its temporary file.
LEMMA TemporaryKeeps == ASSUME StoreInv, NEW s \in Savers, WriteTemporary(s) PROVE StoreInv'
     /\ EditsStay
<1>1. /\ savePc[s] = "cleared"
      /\ UNCHANGED <<strict, live, lastGood, copies, issue, masked, peeked, edits, damages,
                     overwritten>>
  BY DEF WriteTemporary, docFiles, notes
<1>2. StoreTypes /\ SavesKnow
  BY DEF StoreInv
<1>3. CASE SaveEnds(s)
  <2>1. /\ \A t \in Savers : savePc'[t] = "idle"
        /\ savePc' \in [Savers -> SavePcs] /\ saveData' \in [Savers -> SUBSET (1..MaxEdits)]
    BY <1>1, <1>3, EndsIdle
  <2> QED BY <1>1, <1>2, <1>3, <2>1, AllIdle, CopiesStay, LooksKeep DEF StoreTypes
<1>4. CASE SaveTo(s, "staged") /\ UNCHANGED <<storeLock, saveData>>
  <2>1. /\ OneSaves' /\ savePc' \in [Savers -> SavePcs] /\ savePc'[s] = "staged"
        /\ \A t \in Savers : t # s => savePc'[t] = "idle"
    BY <1>1, <1>4, SaveGoes DEF SavePcs
  <2>2. live.form # "newer" /\ (masked \/ Knows(s)) /\ (strict => live.data \subseteq saveData[s])
    BY <1>1, <1>2 DEF SavesKnow, Writing
  <2>3. Knows(s) => Knows(s)'
    BY <1>1, <1>4 DEF Knows, CopiesData
  <2>4. SavesKnow'
    BY <1>1, <1>4, <2>1, <2>2, <2>3 DEF SavesKnow, Writing
  <2> QED BY <1>1, <1>2, <1>4, <2>1, <2>4, CopiesStay, LooksKeep DEF StoreTypes
<1> QED BY <1>3, <1>4 DEF WriteTemporary

\* The backup becomes what the document holds, which is what it held and more.
LEMMA PreviousKeeps == ASSUME StoreInv, NEW s \in Savers, KeepPrevious(s) PROVE StoreInv'
     /\ EditsStay
<1>1. /\ savePc[s] = "staged" /\ SaveTo(s, "backedUp")
      /\ UNCHANGED <<strict, live, copies, storeLock, saveData, peeked, edits, damages,
                     overwritten>>
  BY DEF KeepPrevious
<1>2. StoreTypes /\ SavesKnow /\ BackupIsOlder /\ BackupIsGood
  BY DEF StoreInv
<1>3. /\ OneSaves' /\ savePc' \in [Savers -> SavePcs] /\ savePc'[s] = "backedUp"
      /\ \A t \in Savers : t # s => savePc'[t] = "idle"
  BY <1>1, SaveGoes DEF SavePcs
<1>4. /\ lastGood' = lastGood \/ (live.form = "good" /\ lastGood' = live)
      /\ masked' \in BOOLEAN /\ (masked => masked')
  BY <1>2 DEF KeepPrevious, Note, notes, StoreTypes
<1>5. live.form # "newer" /\ (masked \/ Knows(s)) /\ (strict => live.data \subseteq saveData[s])
  BY <1>1, <1>2 DEF SavesKnow, Writing
<1>6. CopiesData' = CopiesData
  BY <1>1 DEF CopiesData
<1>7. Knows(s) => Knows(s)'
  BY <1>1, <1>4, <1>6 DEF Knows
<1>8. SavesKnow'
  BY <1>1, <1>3, <1>4, <1>5, <1>7 DEF SavesKnow, Writing
<1>9. StoreTypes' /\ BackupIsGood' /\ BackupIsOlder'
  BY <1>1, <1>2, <1>3, <1>4, <1>6 DEF StoreTypes, BackupIsGood, BackupIsOlder
<1>10. DamagesAreCounted' /\ Apart(copies)'
  BY <1>1 DEF StoreInv, DamagesAreCounted, Damaged, Apart, Bad
<1>11. EditsStay
  BY <1>1, <1>2, <1>4 DEF EditsStay, HeldSomewhere, BackupIsOlder, CopiesData
<1> QED BY <1>3, <1>8, <1>9, <1>10, <1>11 DEF StoreInv

\* The document becomes what was loaded, with the edit.
LEMMA RenameKeeps == ASSUME StoreInv, NEW s \in Savers, RenameIntoPlace(s) PROVE StoreInv'
     /\ EditsStay
<1>1. /\ savePc[s] = "backedUp" /\ SaveEnds(s)
      /\ UNCHANGED <<strict, lastGood, copies, issue, masked, peeked, edits, damages>>
  BY DEF RenameIntoPlace, notes
<1>2. StoreTypes /\ SavesKnow /\ BackupIsOlder /\ BackupIsGood
  BY DEF StoreInv
<1>3. /\ \A t \in Savers : savePc'[t] = "idle"
      /\ savePc' \in [Savers -> SavePcs] /\ saveData' \in [Savers -> SUBSET (1..MaxEdits)]
  BY <1>1, EndsIdle
<1>4. OneSaves' /\ SavesKnow'
  BY <1>3, AllIdle
<1>5. CASE UNCHANGED <<live, overwritten>>
  BY <1>1, <1>2, <1>3, <1>4, <1>5, CopiesStay, LooksKeep DEF StoreTypes
<1>6. CASE /\ live' = [data |-> saveData[s], form |-> "good"]
           /\ overwritten' =
                 overwritten \cup IF masked THEN (live.data \cup lastGood.data) \ saveData[s]
                                     ELSE {}
  <2>1. live.form # "newer" /\ (masked \/ Knows(s)) /\ (strict => live.data \subseteq saveData[s])
    BY <1>1, <1>2 DEF SavesKnow, Writing
  <2>2. live' \in Stored /\ live'.data = saveData[s] /\ live'.form = "good"
    BY <1>2, <1>6 DEF StoreTypes, Stored, Forms
  <2>3. /\ overwritten \subseteq overwritten' /\ overwritten' \subseteq 1..MaxEdits
        /\ live.data \cup lastGood.data \subseteq saveData[s] \cup CopiesData \cup overwritten'
    <3>1. /\ live.data \subseteq 1..MaxEdits /\ lastGood.data \subseteq 1..MaxEdits
          /\ overwritten \subseteq 1..MaxEdits
      BY <1>2 DEF StoreTypes, Stored, Absent
    <3> QED BY <1>6, <2>1, <3>1 DEF Knows
  <2>4. CopiesData' = CopiesData
    BY <1>1 DEF CopiesData
  <2>5. BackupIsOlder' /\ BackupIsGood'
    BY <1>1, <1>2, <2>2, <2>3, <2>4 DEF BackupIsOlder, BackupIsGood
  <2>6. StoreTypes'
    BY <1>1, <1>2, <1>3, <2>2, <2>3 DEF StoreTypes
  <2>7. DamagesAreCounted' /\ Apart(copies)'
    <3>1. Damaged' \subseteq Damaged
      BY <1>1, <2>2 DEF Damaged, Bad
    <3> QED BY <1>1, <3>1, NoNewDamage DEF StoreInv, Apart
  <2>8. EditsStay
    BY <1>1, <2>1, <2>2, <2>3, <2>4 DEF EditsStay, HeldSomewhere, CopiesData
  <2> QED BY <1>4, <2>5, <2>6, <2>7, <2>8 DEF StoreInv
<1> QED BY <1>5, <1>6 DEF RenameIntoPlace

\* A restart drops the saves and the reads.
LEMMA RestartKeeps == ASSUME StoreInv, Restart PROVE StoreInv' /\ EditsStay
<1>1. /\ savePc' = [s \in Savers |-> "idle"] /\ saveData' = [s \in Savers |-> {}]
      /\ masked' = FALSE
      /\ peeked' = [r \in Readers |-> Absent]
      /\ UNCHANGED <<strict, live, lastGood, copies, edits, damages, overwritten>>
  BY DEF Restart, docFiles
<1>2. StoreTypes
  BY DEF StoreInv
<1>3. /\ savePc' \in [Savers -> SavePcs] /\ saveData' \in [Savers -> SUBSET (1..MaxEdits)]
      /\ peeked' \in [Readers -> Stored \cup {Absent}]
      /\ \A r \in Readers : peeked'[r] \in {peeked[r], live, Absent}
      /\ \A t \in Savers : savePc'[t] = "idle"
  BY <1>1 DEF SavePcs
<1> QED BY <1>1, <1>2, <1>3, AllIdle, CopiesStay, LooksKeep DEF StoreTypes

\* What is not FTPeach: one more damage.
LEMMA DamageKeeps == ASSUME StoreInv, DamageDocument PROVE StoreInv'
<1>1. /\ damages < MaxDamages /\ live.form = "good" /\ damages' = damages + 1
      /\ UNCHANGED <<strict, lastGood, copies, issue, masked, storeLock, savePc, saveData, peeked,
                     edits,
                     overwritten>>
  BY DEF DamageDocument, notes
<1>2. StoreTypes /\ SavesKnow /\ BackupIsGood /\ DamagesAreCounted
  BY DEF StoreInv
<1>3. /\ live' \in Stored \cup {Absent} /\ live'.form # "good" /\ live'.data \subseteq live.data
      /\ live'.form = "newer" => \A s \in Savers : savePc[s] = "idle"
  <2>1. live \in Stored
    BY <1>1, <1>2 DEF StoreTypes, Absent
  <2>2. CASE live' = Absent
    BY <2>2 DEF Absent
  <2>3. CASE \E form \in {"shape", "torn"} : live' = [live EXCEPT !.form = form]
    BY <2>1, <2>3 DEF Stored, Forms
  <2>4. CASE (\A s \in Savers : savePc[s] = "idle") /\ live' = [live EXCEPT !.form = "newer"]
    BY <2>1, <2>4 DEF Stored, Forms
  <2> QED BY <2>2, <2>3, <2>4 DEF DamageDocument
<1>4. StoreTypes'
  BY <1>1, <1>2, <1>3, StoreAssumption DEF StoreTypes
<1>5. DamagesAreCounted'
  <2>1. Damaged' \subseteq Damaged \cup {live'}
    BY <1>1 DEF Damaged, Bad
  <2>2. IsFiniteSet(Damaged) /\ Cardinality(Damaged) <= damages /\ damages \in Nat
    BY <1>2 DEF DamagesAreCounted, StoreTypes
  <2>3. /\ IsFiniteSet(Damaged \cup {live'})
        /\ Cardinality(Damaged \cup {live'}) =
              IF live' \in Damaged THEN Cardinality(Damaged) ELSE Cardinality(Damaged) + 1
    BY <2>2, FS_AddElement
  <2>4. IsFiniteSet(Damaged') /\ Cardinality(Damaged') <= Cardinality(Damaged \cup {live'})
    BY <2>1, <2>3, FS_Subset
  <2>5. Cardinality(Damaged) \in Nat /\ Cardinality(Damaged') \in Nat
    BY <2>2, <2>4, FS_CardinalityType
  <2> QED BY <1>1, <2>2, <2>3, <2>4, <2>5 DEF DamagesAreCounted
<1>6. \A s \in Savers : Knows(s) => Knows(s)'
  BY <1>1, <1>3 DEF Knows, CopiesData
<1>7. SavesKnow'
  <2>1. ASSUME NEW s \in Savers
        PROVE  /\ savePc[s] = "loaded" => masked \/ issue = "Unreadable" \/ Knows(s)'
               /\ savePc[s] \in Writing => live'.form # "newer" /\ (masked \/ Knows(s)')
               /\ strict /\ savePc[s] \in {"loaded"} \cup Writing
                    => live'.data \subseteq saveData[s]
    BY <1>1, <1>2, <1>3, <1>6 DEF SavesKnow, Writing
  <2> QED BY <1>1, <2>1 DEF SavesKnow
<1>8. OneSaves' /\ BackupIsGood' /\ Apart(copies)' /\ BackupIsOlder'
  BY <1>1, <1>3 DEF StoreInv, OneSaves, BackupIsGood, Apart, BackupIsOlder
<1> QED BY <1>4, <1>5, <1>7, <1>8 DEF StoreInv
-----------------------------------------------------------------------------
\* A document that was never saved.
LEMMA StoreInvInit == StoreInit => StoreInv
<1> SUFFICES ASSUME StoreInit PROVE StoreInv
  OBVIOUS
<1>1. StoreTypes
  <2>1. 0 \in 0..MaxEdits /\ 0 \in 0..MaxDamages
    BY StoreAssumption
  <2>2. <<>> \in Seq(Stored) /\ {} \in SUBSET (1..MaxEdits)
    OBVIOUS
  <2>3. /\ savePc \in [Savers -> SavePcs] /\ saveData \in [Savers -> SUBSET (1..MaxEdits)]
        /\ peeked \in [Readers -> Stored \cup {Absent}]
    BY <2>2 DEF StoreInit, SavePcs
  <2>4. strict \in BOOLEAN /\ masked \in BOOLEAN
    BY DEF StoreInit
  <2> QED BY <2>1, <2>2, <2>3, <2>4 DEF StoreInit, StoreTypes
<1>2. ToSet(copies) = {} /\ Apart(copies)
  BY DEF StoreInit, ToSet, Apart
<1>3. DamagesAreCounted
  <2>1. Damaged = {}
    BY <1>2 DEF Damaged, StoreInit, Bad, Absent
  <2> QED BY <2>1, FS_EmptySet DEF DamagesAreCounted, StoreInit
<1>4. OneSaves /\ BackupIsGood /\ BackupIsOlder /\ SavesKnow
  BY DEF StoreInit, OneSaves, BackupIsGood, BackupIsOlder, SavesKnow, Absent, Writing
<1> QED BY <1>1, <1>2, <1>3, <1>4 DEF StoreInv

(* Every step keeps it, and no edit goes. *)
LEMMA StoreInvStep ==
  ASSUME CopiesHoldDamages, StoreInv, [StoreNext]_storeVars
  PROVE  StoreInv' /\ (StoreStep => EditsStay \/ UNCHANGED storeVars)
<1>1. CASE StoreStep
  <2>1. ASSUME NEW s \in Savers,
               \/ TakeStoreLock(s) \/ LoadDocument(s) \/ EnsureWritable(s) \/ WriteTemporary(s)
               \/ KeepPrevious(s) \/ RenameIntoPlace(s)
        PROVE  StoreInv' /\ EditsStay
    BY <2>1, LockKeeps, LoadKeeps, WritableKeeps, TemporaryKeeps, PreviousKeeps, RenameKeeps
  <2>2. ASSUME NEW r \in Readers, Peek(r) \/ JudgePeeked(r) PROVE StoreInv' /\ EditsStay
    BY <2>2, PeekKeeps, JudgeKeeps
  <2> QED BY <1>1, <2>1, <2>2, RestartKeeps DEF StoreStep
<1>2. CASE DamageDocument /\ ~StoreStep
  BY <1>2, DamageKeeps
<1>3. CASE UNCHANGED storeVars
  <2>1. UNCHANGED <<strict, live, lastGood, copies, issue, storeLock, savePc, saveData, peeked,
                    edits,
                    damages, masked, overwritten>>
    BY <1>3 DEF storeVars
  <2>2. StoreInv'
    BY <2>1 DEF StoreInv, StoreTypes, OneSaves, BackupIsGood, Apart, DamagesAreCounted, Damaged,
           Bad,
                BackupIsOlder, SavesKnow, Knows, CopiesData
  <2> QED BY <1>3, <2>2
<1> QED BY <1>1, <1>2, <1>3 DEF StoreNext

(* Saving loses nothing: an edit that is in the document, its backup or a copy *)
(* stays in one of them, but for what a save leaves out that a masked refusal  *)
(* let through; a document of a later version is not replaced, and what a     *)
(* strict document holds is in the next one.  For any savers, readers and      *)
(* edits, any restarts, and no more damages than copies are kept               *)
(* (store/storage.rs, store/known_hosts.rs, store/settings.rs).                *)
THEOREM SavesKeepEdits == ASSUME CopiesHoldDamages PROVE StoreSpec => SavesLoseNothing
<1>1. StoreInv /\ [StoreNext]_storeVars => StoreInv'
  BY StoreInvStep
<1>2. StoreInv /\ [StoreNext]_storeVars =>
        [ StoreStep => /\ HeldSomewhere \subseteq HeldSomewhere' \cup overwritten'
                       /\ live.form = "newer" => live' = live
                       /\ strict => live.data \subseteq live'.data ]_storeVars
  BY StoreInvStep DEF EditsStay
<1> QED BY <1>1, <1>2, StoreInvInit, PTL DEF StoreSpec, SavesLoseNothing
-----------------------------------------------------------------------------
(* Quit: the user has the last word *)
Around == [active : BOOLEAN, edits : BOOLEAN, left : Int, clicks : Int]
Tray == [visible : BOOLEAN, hidden : BOOLEAN, icon : BOOLEAN, showing : BOOLEAN, removals : Int]
Winding == [at : {"none", "begun", "flushing", "cleaning", "exited"}, excused : BOOLEAN]

\* The types of what asks and of the window.
AskingTypes ==
    /\ shutdown \in Winding
    /\ trayModel \in [model : Model, waiting : BOOLEAN] /\ models \in Seq(Model)
    /\ question \in [prompt : BOOLEAN, pending : BOOLEAN, edits : BOOLEAN, quitting : BOOLEAN]
    /\ requests \in [asks : Seq(BOOLEAN), quits : SUBSET BOOLEAN]
    /\ around \in Around /\ tray \in Tray

\* A quit waits or is asked about, never both.
OneQuestion == ~(question.prompt /\ question.pending)

\* While a quit waits, the timer is one of a newer request, or a model that
\* lets it go is on its way.
TimerIsHeard == question.pending /\ trayModel.waiting => models # <<>> \/ requests.asks # <<>>

\* As long as the user has not asked to end, nothing on its way can do it.
NobodyEnds ==
    wish # "quit" =>
        /\ requests.asks = <<>> /\ requests.quits = {}
        /\ ~question.prompt /\ ~question.pending
        /\ trayModel.waiting => models # <<>>

\* The window is there, or comes, or its icon stays.
WithinReach == tray.visible \/ tray.showing \/ (tray.hidden /\ tray.icon)

(* The inductive invariant: what can end the application was asked for. *)
QuitInv == AskingTypes /\ OneQuestion /\ TimerIsHeard /\ NobodyEnds /\ WithinReach

\* What a step may not do.
EndsOnlyAsked == shutdown.at = "none" /\ shutdown'.at # "none" => wish' = "quit"

\* The records of the window, the tray and the clicks keep their shape.
LEMMA RecordsMove ==
  /\ \A r \in Around : /\ [r EXCEPT !.left = @ - 1, !.active = ~@] \in Around
                        /\ [r EXCEPT !.left = @ - 1, !.edits = ~@] \in Around
                        /\ [r EXCEPT !.left = @ - 1] \in Around
                        /\ [r EXCEPT !.clicks = @ - 1] \in Around
  /\ \A t \in Tray : /\ [t EXCEPT !.visible = TRUE, !.showing = FALSE] \in Tray
                      /\ \A c \in BOOLEAN : Hidden(t, c) \in Tray
                      /\ RestoredWindow(t) \in Tray
                      /\ [t EXCEPT !.removals = @ - 1, !.icon = @ /\ t.hidden] \in Tray
<1>1. ASSUME NEW r \in Around
      PROVE  /\ [r EXCEPT !.left = @ - 1, !.active = ~@] \in Around
             /\ [r EXCEPT !.left = @ - 1, !.edits = ~@] \in Around
             /\ [r EXCEPT !.left = @ - 1] \in Around
             /\ [r EXCEPT !.clicks = @ - 1] \in Around
  <2>1. r = [active |-> r.active, edits |-> r.edits, left |-> r.left, clicks |-> r.clicks]
        /\ r.active \in BOOLEAN /\ r.edits \in BOOLEAN /\ r.left - 1 \in Int
        /\ r.clicks - 1 \in Int
    BY DEF Around
  <2>2. [r EXCEPT !.left = @ - 1, !.active = ~@] \in Around
    BY <2>1 DEF Around
  <2>3. [r EXCEPT !.left = @ - 1, !.edits = ~@] \in Around
    BY <2>1 DEF Around
  <2>4. [r EXCEPT !.left = @ - 1] \in Around
    BY <2>1 DEF Around
  <2>5. [r EXCEPT !.clicks = @ - 1] \in Around
    BY <2>1 DEF Around
  <2> QED BY <2>2, <2>3, <2>4, <2>5
<1>2. ASSUME NEW t \in Tray
      PROVE  /\ [t EXCEPT !.visible = TRUE, !.showing = FALSE] \in Tray
             /\ \A c \in BOOLEAN : Hidden(t, c) \in Tray
             /\ RestoredWindow(t) \in Tray
             /\ [t EXCEPT !.removals = @ - 1, !.icon = @ /\ t.hidden] \in Tray
  <2>1. /\ t.removals - 1 \in Int /\ t.removals + 1 \in Int /\ (t.icon /\ t.hidden) \in BOOLEAN
    BY DEF Tray
  <2>2. [t EXCEPT !.visible = TRUE, !.showing = FALSE] \in Tray
    BY DEF Tray
  <2>3. \A c \in BOOLEAN : Hidden(t, c) \in Tray
    BY DEF Tray, Hidden
  <2>4. RestoredWindow(t) \in Tray
    BY <2>1 DEF Tray, RestoredWindow
  <2>5. [t EXCEPT !.removals = @ - 1, !.icon = @ /\ t.hidden] \in Tray
    BY <2>1 DEF Tray
  <2> QED BY <2>2, <2>3, <2>4, <2>5
<1>3. QED BY <1>1, <1>2

\* Winding down begins once.
LEMMA ShutdownBegins ==
  ASSUME shutdown \in Winding, BeginShutdown
  PROVE  shutdown' \in Winding
BY DEF BeginShutdown, Winding

\* What is put at the end of a queue, and taken from its head.
LEMMA QueueMoves ==
  ASSUME NEW S, NEW s \in Seq(S), NEW e \in S
  PROVE  /\ Append(s, e) \in Seq(S) /\ Append(s, e) # <<>>
         /\ s # <<>> => Head(s) \in S /\ Tail(s) \in Seq(S)
<1>1. Append(s, e) \in Seq(S)
  OBVIOUS
<1>2. Append(s, e) # <<>>
  <2>1. Len(Append(s, e)) = Len(s) + 1 /\ Len(s) \in Nat /\ Len(<<>>) = 0
    OBVIOUS
  <2> QED BY <2>1
<1>3. s # <<>> => Head(s) \in S /\ Tail(s) \in Seq(S)
  OBVIOUS
<1> QED BY <1>1, <1>2, <1>3

\* Nothing is asked, and the window is shown.
LEMMA QuitStarts == QuitInit => QuitInv
<1> SUFFICES ASSUME QuitInit PROVE QuitInv
  OBVIOUS
<1>1. AskingTypes
  BY QuitAssumption DEF QuitInit, AskingTypes, Model, Around, Tray, Winding
<1> QED BY <1>1 DEF QuitInit, QuitInv, OneQuestion, TimerIsHeard, NobodyEnds, WithinReach

\* Steps that ask nothing and leave the window alone.
LEMMA QuietStep ==
  ASSUME QuitInv, UNCHANGED <<trayModel, models, question, requests, tray, wish>>,
         \/ UNCHANGED <<shutdown, around>>
         \/ shutdown.at # "none" /\ UNCHANGED around
            /\ \E at \in {"flushing", "cleaning", "exited"},
                 e \in BOOLEAN : shutdown' = [at |-> at, excused |-> e]
         \/ UNCHANGED around /\ \E e \in BOOLEAN : shutdown' = [shutdown EXCEPT !.excused = e]
         \/ UNCHANGED shutdown /\ around' \in Around
  PROVE  QuitInv' /\ EndsOnlyAsked
<1>1. shutdown' \in Winding
      /\ (shutdown.at = "none" => shutdown'.at = "none")
  BY DEF QuitInv, AskingTypes, Winding
<1> QED BY <1>1 DEF QuitInv, AskingTypes, OneQuestion, TimerIsHeard, NobodyEnds, WithinReach,
    EndsOnlyAsked

LEMMA QuietSteps ==
  ASSUME QuitInv,
         \/ StartFlush
         \/ \E w \in Writers : Debounced(w) \/ StateChanges(w)
         \/ \E w \in Writers, ok \in BOOLEAN : WriteEnds(w, ok)
         \/ \E o \in Owners : FlushSettles(o)
         \/ \E a \in flushes.acks : StateFlushed(a)
         \/ \E c \in 1..Closes : CloseRequested(c)
         \/ EditsChange \/ RunFlushes \/ RunFlushed \/ ExitProcess \/ UNCHANGED quitVars
  PROVE  QuitInv' /\ EndsOnlyAsked
<1>0. shutdown = [at |-> shutdown.at, excused |-> shutdown.excused]
      /\ shutdown.excused \in BOOLEAN /\ AskingTypes
  BY DEF QuitInv, AskingTypes, Winding
<1>1. UNCHANGED <<trayModel, models, question, requests, tray, wish>>
  BY DEF StartFlush, Debounced, StateChanges, WriteEnds, FlushSettles, StateFlushed,
         CloseRequested,
     EditsChange, RunFlushes, RunFlushed, ExitProcess, quitVars, askingVars
<1>2. CASE \/ StartFlush \/ UNCHANGED quitVars
           \/ \E w \in Writers : Debounced(w)
           \/ \E o \in Owners : FlushSettles(o)
           \/ \E a \in flushes.acks : StateFlushed(a)
           \/ \E c \in 1..Closes : CloseRequested(c)
  <2>1. UNCHANGED <<shutdown, around>>
    BY <1>2 DEF StartFlush, Debounced, FlushSettles, StateFlushed, CloseRequested, quitVars
  <2> QED BY <1>1, <2>1, QuietStep
<1>3. CASE EditsChange \/ \E w \in Writers : StateChanges(w)
  <2>1. UNCHANGED shutdown /\ around' \in Around
    BY <1>0, <1>3, RecordsMove DEF EditsChange, StateChanges, AskingTypes
  <2> QED BY <1>1, <2>1, QuietStep
<1>4. CASE \E w \in Writers, ok \in BOOLEAN : WriteEnds(w, ok)
  <2>1. PICK w \in Writers, ok \in BOOLEAN :
           UNCHANGED around /\ shutdown' = [shutdown EXCEPT !.excused = @ \/ (~ok /\ w \in owing)]
    BY <1>4 DEF WriteEnds
  <2>2. (shutdown.excused \/ (~ok /\ w \in owing)) \in BOOLEAN
    OBVIOUS
  <2>3. UNCHANGED around /\ \E e \in BOOLEAN : shutdown' = [shutdown EXCEPT !.excused = e]
    BY <2>1, <2>2
  <2> QED BY <1>1, <2>3, QuietStep
<1>5. CASE RunFlushes \/ RunFlushed \/ ExitProcess
  <2>1. /\ shutdown.at # "none" /\ UNCHANGED around
        /\ \E at \in {"flushing", "cleaning", "exited"},
             e \in BOOLEAN : shutdown' = [at |-> at, excused |-> e]
    <3>1. CASE RunFlushes
      BY <1>0, <3>1 DEF RunFlushes
    <3>2. CASE ExitProcess
      BY <1>0, <3>2 DEF ExitProcess
    <3>3. CASE RunFlushed
      <4>1. /\ shutdown.at = "flushing" /\ UNCHANGED around
            /\ shutdown' = [shutdown EXCEPT !.at = "cleaning",
                                    !.excused = @ \/ handshake.heard[Run] = "waiting"]
        BY <3>3 DEF RunFlushed
      <4>2. shutdown' = [at |-> "cleaning", excused |-> shutdown.excused
                         \/ handshake.heard[Run] = "waiting"]
        BY <1>0, <4>1
      <4>3. (shutdown.excused \/ handshake.heard[Run] = "waiting") \in BOOLEAN
        OBVIOUS
      <4> QED BY <4>1, <4>2, <4>3
    <3> QED BY <1>5, <3>1, <3>2, <3>3
  <2> QED BY <1>1, <2>1, QuietStep
<1> QED BY <1>2, <1>3, <1>4, <1>5

\* Steps of the window and its icon only.
LEMMA TraySteps ==
  ASSUME QuitInv, Minimized \/ RestoreWindow \/ Show \/ RemoveIcon
  PROVE  QuitInv' /\ EndsOnlyAsked
<1>0. AskingTypes
  BY DEF QuitInv
<1>1. UNCHANGED <<trayModel, models, question, requests, wish, shutdown>>
  BY DEF Minimized, RestoreWindow, Show, RemoveIcon, askingVars
<1>2. around' \in Around
  BY <1>0, RecordsMove DEF Minimized, RestoreWindow, Show, RemoveIcon, AskingTypes
<1>3. tray' \in Tray
  <2>0. tray \in Tray
    BY <1>0 DEF AskingTypes
  <2>1. CASE Minimized
    BY <2>0, <2>1, RecordsMove DEF Minimized
  <2>2. CASE RestoreWindow
    BY <2>0, <2>2, RecordsMove DEF RestoreWindow
  <2>3. CASE Show
    BY <2>0, <2>3, RecordsMove DEF Show
  <2>4. CASE RemoveIcon
    BY <2>0, <2>4, RecordsMove DEF RemoveIcon
  <2> QED BY <2>1, <2>2, <2>3, <2>4
<1>4. WithinReach'
  <2>0. tray \in Tray /\ WithinReach
    BY <1>0 DEF AskingTypes, QuitInv
  <2>1. CASE Minimized
    BY <2>0, <2>1 DEF Minimized, Hidden, Tray, WithinReach
  <2>2. CASE RestoreWindow
    BY <2>0, <2>2 DEF RestoreWindow, RestoredWindow, Tray, WithinReach
  <2>3. CASE Show
    BY <2>0, <2>3 DEF Show, Tray, WithinReach
  <2>4. CASE RemoveIcon
    BY <2>0, <2>4 DEF RemoveIcon, Tray, WithinReach
  <2> QED BY <2>1, <2>2, <2>3, <2>4
<1> QED BY <1>1, <1>2, <1>3, <1>4 DEF QuitInv, AskingTypes, OneQuestion, TimerIsHeard, NobodyEnds,
    EndsOnlyAsked

\* The user asks to end: at the window, or in the tray.
LEMMA AskingSteps ==
  ASSUME QuitInv, TrayQuit \/ \E c \in 1..Closes, toTray \in BOOLEAN : CloseDecides(c, toTray)
  PROVE  QuitInv' /\ EndsOnlyAsked
<1>0. AskingTypes
  BY DEF QuitInv
<1>1. UNCHANGED <<models, question>>
  BY DEF TrayQuit, CloseDecides
<1>2. \/ UNCHANGED <<trayModel, requests>>
      \/ /\ trayModel' = [trayModel EXCEPT !.waiting = TRUE]
         /\ requests' = [requests EXCEPT !.asks = Append(@, around.edits)]
  BY DEF TrayQuit, CloseDecides, AskQuit
<1>3. /\ trayModel' \in [model : Model, waiting : BOOLEAN]
      /\ requests' \in [asks : Seq(BOOLEAN), quits : SUBSET BOOLEAN]
      /\ UNCHANGED <<trayModel, requests>> \/ requests'.asks # <<>>
  <2>1. /\ requests.asks \in Seq(BOOLEAN) /\ around.edits \in BOOLEAN
        /\ Append(requests.asks, around.edits) \in Seq(BOOLEAN)
        /\ Append(requests.asks, around.edits) # <<>>
    <3>1. requests.asks \in Seq(BOOLEAN) /\ around.edits \in BOOLEAN
      BY <1>0 DEF AskingTypes, Around
    <3> QED BY <3>1, QueueMoves
  <2> QED BY <1>0, <1>2, <2>1 DEF AskingTypes
<1>4. shutdown' \in Winding
  <2>1. UNCHANGED shutdown \/ BeginShutdown
    BY DEF TrayQuit, CloseDecides
  <2> QED BY <1>0, <2>1, ShutdownBegins DEF AskingTypes
<1>5. wish' = "quit" \/ UNCHANGED <<wish, shutdown, trayModel, requests>>
  BY DEF TrayQuit, CloseDecides
<1>6. tray' \in Tray /\ WithinReach'
  <2>0. tray \in Tray /\ WithinReach
    BY <1>0 DEF AskingTypes, QuitInv
  <2>1. tray' = tray \/ tray' = RestoredWindow(tray)
             \/ \E created \in BOOLEAN : tray' = Hidden(tray, created)
    BY DEF TrayQuit, CloseDecides
  <2>2. tray' \in Tray
    BY <2>0, <2>1, RecordsMove
  <2>3. WithinReach'
    <3>1. CASE tray' = tray
      BY <2>0, <3>1 DEF WithinReach
    <3>2. CASE tray' = RestoredWindow(tray)
      BY <2>0, <3>2 DEF WithinReach, RestoredWindow, Tray
    <3>3. CASE \E created \in BOOLEAN : tray' = Hidden(tray, created)
      BY <2>0, <3>3 DEF WithinReach, Hidden, Tray
    <3> QED BY <2>1, <3>1, <3>2, <3>3
  <2> QED BY <2>2, <2>3
<1>7. around' \in Around
  <2>1. around' = around \/ around' = [around EXCEPT !.clicks = @ - 1]
    BY DEF TrayQuit, CloseDecides
  <2> QED BY <1>0, <2>1, RecordsMove DEF AskingTypes
<1>8. AskingTypes'
  BY <1>0, <1>1, <1>3, <1>4, <1>6, <1>7 DEF AskingTypes
<1>9. OneQuestion' /\ TimerIsHeard' /\ NobodyEnds'
  BY <1>1, <1>3, <1>5 DEF QuitInv, OneQuestion, TimerIsHeard, NobodyEnds
<1> QED BY <1>5, <1>6, <1>8, <1>9 DEF QuitInv, EndsOnlyAsked

\* The timer and the command that quit: only of a user who asked.
LEMMA EndingSteps ==
  ASSUME QuitInv, SetModel \/ TimerQuits \/ \E preserve \in BOOLEAN : AppQuit(preserve)
  PROVE  QuitInv' /\ EndsOnlyAsked
<1>0. AskingTypes
  BY DEF QuitInv
<1>1. UNCHANGED <<question, tray, around, wish>>
  BY DEF SetModel, TimerQuits, AppQuit
<1>2. CASE SetModel
  <2>1. /\ models # <<>> /\ models' = Tail(models)
        /\ trayModel' = [model |-> Head(models), waiting |-> FALSE]
        /\ UNCHANGED <<shutdown, requests>>
    BY <1>2 DEF SetModel
  <2>2. Tail(models) \in Seq(Model) /\ Head(models) \in Model
    BY <1>0, <2>1 DEF AskingTypes
  <2> QED BY <1>1, <2>1, <2>2 DEF QuitInv, AskingTypes, OneQuestion, TimerIsHeard, NobodyEnds,
       WithinReach, EndsOnlyAsked
<1>3. CASE TimerQuits
  <2>1. wish = "quit"
    BY <1>3 DEF TimerQuits, QuitInv, NobodyEnds
  <2>2. /\ UNCHANGED <<models, requests>> /\ trayModel' = [trayModel EXCEPT !.waiting = FALSE]
        /\ BeginShutdown
    BY <1>3 DEF TimerQuits
  <2>3. trayModel' \in [model : Model, waiting : BOOLEAN] /\ ~trayModel'.waiting
    BY <1>0, <2>2 DEF AskingTypes
  <2>4. shutdown' \in Winding
    BY <1>0, <2>2, ShutdownBegins DEF AskingTypes
  <2> QED BY <1>1, <2>1, <2>2, <2>3, <2>4 DEF QuitInv, AskingTypes, OneQuestion, TimerIsHeard,
      NobodyEnds,
       WithinReach, EndsOnlyAsked
<1>4. ASSUME NEW preserve \in BOOLEAN, AppQuit(preserve) PROVE QuitInv' /\ EndsOnlyAsked
  <2>1. wish = "quit"
    BY <1>4 DEF AppQuit, QuitInv, NobodyEnds
  <2>2. UNCHANGED <<models, trayModel>>
    BY <1>4 DEF AppQuit
  <2>3. /\ requests' \in [asks : Seq(BOOLEAN), quits : SUBSET BOOLEAN]
        /\ requests.asks # <<>> => requests'.asks # <<>>
    <3>1. /\ requests \in [asks : Seq(BOOLEAN), quits : SUBSET BOOLEAN]
          /\ requests.asks \in Seq(BOOLEAN)
      BY <1>0 DEF AskingTypes
    <3>2. Append(requests.asks, TRUE) \in Seq(BOOLEAN) /\ Append(requests.asks, TRUE) # <<>>
      BY <3>1, QueueMoves
    <3>3. \/ requests' = [requests EXCEPT !.quits = @ \ {preserve}, !.asks = Append(@, TRUE)]
          \/ requests' = [requests EXCEPT !.quits = @ \ {preserve}]
      BY <1>4 DEF AppQuit
    <3>4. CASE requests' = [requests EXCEPT !.quits = @ \ {preserve}, !.asks = Append(@, TRUE)]
      BY <3>1, <3>2, <3>4
    <3>5. CASE requests' = [requests EXCEPT !.quits = @ \ {preserve}]
      BY <3>1, <3>5
    <3> QED BY <3>3, <3>4, <3>5
  <2>4. shutdown' \in Winding
    <3>1. UNCHANGED shutdown \/ BeginShutdown
      BY <1>4 DEF AppQuit
    <3> QED BY <1>0, <3>1, ShutdownBegins DEF AskingTypes
  <2> QED BY <1>1, <2>1, <2>2, <2>3, <2>4 DEF QuitInv, AskingTypes, OneQuestion, TimerIsHeard,
      NobodyEnds,
       WithinReach, EndsOnlyAsked
<1> QED BY <1>2, <1>3, <1>4

\* A model on its way stays, and one that says something else is sent.
LEMMA ModelIsSent ==
  ASSUME QuitInv, NEW m \in Model, NEW old \in Model, Sends(m, old)
  PROVE  /\ models' \in Seq(Model) /\ (models # <<>> => models' # <<>>)
         /\ m # old => models' # <<>>
<1>1. models \in Seq(Model)
  BY DEF QuitInv, AskingTypes
<1>2. Append(models, m) \in Seq(Model) /\ Append(models, m) # <<>>
  BY <1>1, QueueMoves
<1> QED BY <1>1, <1>2 DEF Sends

\* The question and the transfers it is about.
LEMMA QuestionSteps ==
  ASSUME QuitInv,
         \/ Requested \/ Settles \/ QuitNow \/ QuitWhenIdle \/ Dismiss \/ CancelQuit
         \/ TransfersChange
  PROVE  QuitInv' /\ EndsOnlyAsked
<1>0. AskingTypes /\ OneQuestion /\ TimerIsHeard /\ NobodyEnds
  BY DEF QuitInv
<1>1. UNCHANGED <<shutdown, trayModel, tray>>
  BY DEF Requested, Settles, QuitNow, QuitWhenIdle, Dismiss, CancelQuit, TransfersChange, quietVars
<1>2. around' \in Around
  <2>1. around' = around \/ around' = [around EXCEPT !.left = @ - 1, !.active = ~@]
    BY DEF Requested, Settles, QuitNow, QuitWhenIdle, Dismiss, CancelQuit, TransfersChange,
           quietVars
  <2> QED BY <1>0, <2>1, RecordsMove DEF AskingTypes
<1>3. ASSUME NEW q \in [prompt : BOOLEAN, pending : BOOLEAN, edits : BOOLEAN, quitting : BOOLEAN],
             NEW quits \in SUBSET BOOLEAN, Becomes(q, quits)
      PROVE  /\ question' = q /\ models' \in Seq(Model) /\ (models # <<>> => models' # <<>>)
             /\ q.prompt # question.prompt => models' # <<>>
             /\ requests' \in [asks : Seq(BOOLEAN), quits : SUBSET BOOLEAN]
             /\ requests'.asks = requests.asks /\ requests'.quits = requests.quits \cup quits
  <2>1. /\ [active |-> around.active, prompt |-> q.prompt] \in Model /\ Shown \in Model
        /\ Sends([active |-> around.active, prompt |-> q.prompt], Shown)
        /\ q.prompt # question.prompt => [active |-> around.active, prompt |-> q.prompt] # Shown
    BY <1>0, <1>3 DEF AskingTypes, Around, Model, Shown, Becomes
  <2> QED BY <1>0, <1>3, <2>1, ModelIsSent DEF AskingTypes, Becomes
<1>4. question' \in [prompt : BOOLEAN, pending : BOOLEAN, edits : BOOLEAN, quitting : BOOLEAN]
      /\ models' \in Seq(Model) /\ requests' \in [asks : Seq(BOOLEAN), quits : SUBSET BOOLEAN]
      /\ OneQuestion' /\ TimerIsHeard' /\ NobodyEnds'
  <2>1. CASE Requested
    <3>1. wish = "quit" /\ wish' = wish
      BY <1>0, <2>1 DEF Requested, NobodyEnds
    <3>2. Head(requests.asks) \in BOOLEAN /\ Tail(requests.asks) \in Seq(BOOLEAN)
      BY <1>0, <2>1, QueueMoves DEF Requested, AskingTypes
    <3> DEFINE unsynced == Head(requests.asks)
    <3> DEFINE q == [question EXCEPT !.quitting = FALSE, !.pending = FALSE, !.edits = unsynced,
                                 !.prompt = @ \/ around.active \/ unsynced]
    <3> DEFINE now == ~around.active /\ ~unsynced
    <3>3. /\ question' = [q EXCEPT !.quitting = now]
          /\ Sends([active |-> around.active, prompt |-> q.prompt], Shown)
          /\ requests' = [asks |-> Tail(requests.asks),
                          quits |-> requests.quits \cup (IF now THEN {FALSE} ELSE {})]
      BY <2>1 DEF Requested
    <3>4. /\ q \in [prompt : BOOLEAN, pending : BOOLEAN, edits : BOOLEAN, quitting : BOOLEAN]
          /\ now \in BOOLEAN /\ ~q.pending
      BY <1>0, <3>2 DEF AskingTypes
    <3>5. [active |-> around.active, prompt |-> q.prompt] \in Model /\ Shown \in Model
      BY <1>0, <3>4 DEF AskingTypes, Around, Model, Shown
    <3>6. models' \in Seq(Model)
      BY <3>3, <3>5, ModelIsSent
    <3>7. question' \in [prompt : BOOLEAN, pending : BOOLEAN, edits : BOOLEAN, quitting : BOOLEAN]
          /\ ~question'.pending
      <4> HIDE DEF q, now
      <4> QED BY <3>3, <3>4
    <3>8. requests' \in [asks : Seq(BOOLEAN), quits : SUBSET BOOLEAN]
      <4> HIDE DEF now
      <4> QED BY <1>0, <3>2, <3>3 DEF AskingTypes
    <3> QED BY <3>1, <3>6, <3>7, <3>8 DEF OneQuestion, TimerIsHeard, NobodyEnds
  <2>2. CASE Settles
    <3>1. wish = "quit" /\ wish' = wish
      BY <1>0, <2>2 DEF Settles, NobodyEnds
    <3>2. PICK q \in [prompt : BOOLEAN, pending : BOOLEAN, edits : BOOLEAN, quitting : BOOLEAN],
               quits \in SUBSET BOOLEAN :
            /\ Becomes(q, quits)
            /\ (~q.prompt /\ q.pending = question.pending) \/ ~q.pending
      <4>1. CASE question.edits
        <5>1. [question EXCEPT !.pending = FALSE, !.prompt = TRUE]
                 \in [prompt : BOOLEAN, pending : BOOLEAN, edits : BOOLEAN, quitting : BOOLEAN]
              /\ ~[question EXCEPT !.pending = FALSE, !.prompt = TRUE].pending
          BY <1>0 DEF AskingTypes
        <5>2. Becomes([question EXCEPT !.pending = FALSE, !.prompt = TRUE], {})
          BY <2>2, <4>1 DEF Settles
        <5> DEFINE q == [question EXCEPT !.pending = FALSE, !.prompt = TRUE]
        <5>3. q \in [prompt : BOOLEAN, pending : BOOLEAN, edits : BOOLEAN, quitting : BOOLEAN]
              /\ ~q.pending /\ Becomes(q, {}) /\ {} \in SUBSET BOOLEAN
          BY <5>1, <5>2
        <5> HIDE DEF q
        <5> QED BY <5>3
      <4>2. CASE ~question.edits
        <5> DEFINE p == [question EXCEPT !.prompt = FALSE]
        <5> DEFINE q == [p EXCEPT !.quitting = TRUE]
        <5>1. /\ q \in [prompt : BOOLEAN, pending : BOOLEAN, edits : BOOLEAN, quitting : BOOLEAN]
              /\ ~q.prompt /\ q.pending = question.pending
          BY <1>0 DEF AskingTypes
        <5>2. Becomes(q, IF p.quitting THEN {} ELSE {FALSE})
          BY <2>2, <4>2 DEF Settles, Once
        <5>3. (IF p.quitting THEN {} ELSE {FALSE}) \in SUBSET BOOLEAN
          OBVIOUS
        <5> QED BY <5>1, <5>2, <5>3
      <4> QED BY <4>1, <4>2
    <3> QED BY <1>0, <1>1, <1>3, <3>1, <3>2 DEF OneQuestion, TimerIsHeard, NobodyEnds
  <2>3. CASE QuitNow
    <3> DEFINE p == [question EXCEPT !.prompt = FALSE]
    <3> DEFINE q == [p EXCEPT !.quitting = TRUE]
    <3>1. /\ q \in [prompt : BOOLEAN, pending : BOOLEAN, edits : BOOLEAN, quitting : BOOLEAN]
          /\ ~q.prompt /\ q.pending = question.pending /\ question.edits \in BOOLEAN
      BY <1>0 DEF AskingTypes
    <3>2. Becomes(q, IF p.quitting THEN {} ELSE {question.edits}) /\ wish' = "quit"
      BY <2>3 DEF QuitNow, Once
    <3>3. (IF p.quitting THEN {} ELSE {question.edits}) \in SUBSET BOOLEAN
      BY <3>1
    <3> HIDE DEF q, p
    <3> QED BY <1>0, <1>1, <1>3, <3>1, <3>2, <3>3 DEF OneQuestion, TimerIsHeard, NobodyEnds
  <2>4. CASE QuitWhenIdle
    <3> DEFINE q == [question EXCEPT !.prompt = FALSE, !.pending = TRUE]
    <3>1. /\ q \in [prompt : BOOLEAN, pending : BOOLEAN, edits : BOOLEAN, quitting : BOOLEAN]
          /\ ~q.prompt
      BY <1>0 DEF AskingTypes
    <3>2. Becomes(q, {}) /\ wish' = "quit" /\ question.prompt
      BY <2>4 DEF QuitWhenIdle
    <3> HIDE DEF q
    <3> QED BY <1>0, <1>1, <1>3, <3>1, <3>2 DEF OneQuestion, TimerIsHeard, NobodyEnds
  <2>5. CASE Dismiss
    <3> DEFINE q == [question EXCEPT !.prompt = FALSE]
    <3>1. /\ q \in [prompt : BOOLEAN, pending : BOOLEAN, edits : BOOLEAN, quitting : BOOLEAN]
          /\ ~q.prompt /\ q.pending = question.pending
      BY <1>0 DEF AskingTypes
    <3>2. Becomes(q, {}) /\ Stays /\ question.prompt
      BY <2>5 DEF Dismiss
    <3> HIDE DEF q
    <3>3. /\ question' = q /\ models' \in Seq(Model) /\ (models # <<>> => models' # <<>>)
          /\ models' # <<>>
          /\ requests' \in [asks : Seq(BOOLEAN), quits : SUBSET BOOLEAN]
          /\ requests'.asks = requests.asks /\ requests'.quits = requests.quits
      <4>1. {} \in SUBSET BOOLEAN /\ requests.quits \cup {} = requests.quits
        OBVIOUS
      <4> QED BY <1>3, <3>1, <3>2, <4>1
    <3>4. ~question.pending
      BY <1>0, <3>2 DEF OneQuestion
    <3>5. NobodyEnds'
      BY <1>0, <1>1, <3>1, <3>2, <3>3, <3>4 DEF NobodyEnds, Stays
    <3> QED BY <1>0, <3>1, <3>3, <3>4, <3>5 DEF OneQuestion, TimerIsHeard
  <2>6. CASE CancelQuit
    <3> DEFINE q == [question EXCEPT !.pending = FALSE]
    <3>1. /\ q \in [prompt : BOOLEAN, pending : BOOLEAN, edits : BOOLEAN, quitting : BOOLEAN]
          /\ ~q.pending /\ q.prompt = question.prompt
      BY <1>0 DEF AskingTypes
    <3>2. Becomes(q, {}) /\ Stays /\ question.pending
      BY <2>6 DEF CancelQuit
    <3> HIDE DEF q
    <3>3. /\ question' = q /\ models' \in Seq(Model) /\ (models # <<>> => models' # <<>>)
          /\ requests' \in [asks : Seq(BOOLEAN), quits : SUBSET BOOLEAN]
          /\ requests'.asks = requests.asks /\ requests'.quits = requests.quits
      <4>1. {} \in SUBSET BOOLEAN /\ requests.quits \cup {} = requests.quits
        OBVIOUS
      <4> QED BY <1>3, <3>1, <3>2, <4>1
    <3>4. ~question.prompt
      BY <1>0, <3>2 DEF OneQuestion
    <3>5. NobodyEnds'
      <4>1. CASE requests.asks = <<>>
        BY <1>0, <1>1, <3>1, <3>2, <3>3, <3>4, <4>1 DEF TimerIsHeard, NobodyEnds, Stays
      <4>2. CASE requests.asks # <<>>
        BY <1>0, <3>2, <4>2 DEF NobodyEnds, Stays
      <4> QED BY <4>1, <4>2
    <3> QED BY <1>0, <3>1, <3>3, <3>5 DEF OneQuestion, TimerIsHeard
  <2>7. CASE TransfersChange
    <3>1. /\ UNCHANGED <<question, requests, wish>>
          /\ Sends([active |-> ~around.active, prompt |-> question.prompt], Shown)
      BY <2>7 DEF TransfersChange
    <3>2. [active |-> ~around.active, prompt |-> question.prompt] \in Model /\ Shown \in Model
      BY <1>0 DEF AskingTypes, Around, Model, Shown
    <3>3. models' \in Seq(Model) /\ (models # <<>> => models' # <<>>)
      BY <3>1, <3>2, ModelIsSent
    <3> QED BY <1>0, <1>1, <3>1, <3>3 DEF AskingTypes, OneQuestion, TimerIsHeard, NobodyEnds
  <2> QED BY <2>1, <2>2, <2>3, <2>4, <2>5, <2>6, <2>7
<1> QED BY <1>0, <1>1, <1>2, <1>4 DEF QuitInv, AskingTypes, WithinReach, EndsOnlyAsked

(* Every click, timer, command and effect keeps it. *)
LEMMA QuitInvStep == QuitInv /\ [QuitNext]_quitVars => QuitInv' /\ EndsOnlyAsked
<1> SUFFICES ASSUME QuitInv, [QuitNext]_quitVars PROVE QuitInv' /\ EndsOnlyAsked
  OBVIOUS
<1> QED BY QuietSteps, TraySteps, AskingSteps, EndingSteps, QuestionSteps DEF QuitNext

(* Nothing ends the application unless the user asked last, and a window out   *)
(* of sight keeps its icon or is about to be shown: for any number of clicks,  *)
(* transfers, edits, writers and models in flight (quit_route, ask_window,     *)
(* useQuitWhenIdle, hide_to_tray).                                             *)
THEOREM UsersHaveTheLastWord == QuitSpec => UserHasTheLastWord
<1>1. QuitInv /\ QuitInv' /\ [QuitNext]_quitVars =>
        [ /\ shutdown.at = "none" /\ shutdown'.at # "none" => wish' = "quit"
          /\ tray'.visible \/ tray'.showing \/ tray'.icon ]_quitVars
  BY QuitInvStep DEF EndsOnlyAsked, QuitInv, WithinReach
<1>2. QuitInv /\ [QuitNext]_quitVars => QuitInv'
  BY QuitInvStep
<1> QED BY <1>1, <1>2, QuitStarts, PTL DEF QuitSpec, UserHasTheLastWord
-----------------------------------------------------------------------------
(* ProtocolLog: every record is published or told of *)

(* Sets of numbers have a least element; induction over a set of numbers. *)
LEMMA SmallestNumber ==
  ASSUME NEW S \in SUBSET Nat, S # {}
  PROVE  \E x \in S : \A y \in S : x <= y
<1>1. \E x \in S : \A y \in S : ~ (<<y, x>> \in OpToRel(<, Nat))
  BY NatLessThanWellFounded, WFMin
<1>2. PICK x \in S : \A y \in S : ~ (<<y, x>> \in OpToRel(<, Nat))
  BY <1>1
<1>3. ASSUME NEW y \in S, y < x PROVE FALSE
  <2>1. <<y, x>> \in OpToRel(<, Nat)
    BY <1>3 DEF OpToRel
  <2> QED
    BY <1>2, <2>1
<1>4. \A y \in S : ~ (y < x)
  BY <1>3, Zenon
<1>5. \A y \in S : x <= y
  BY <1>4
<1> QED
  BY <1>5

(* A set with zero and the successor of each of its numbers has them all. *)
LEMMA SetInduction ==
  ASSUME NEW S \in SUBSET Nat, 0 \in S, \A n \in S : n + 1 \in S
  PROVE  S = Nat
<1> SUFFICES ASSUME S # Nat PROVE FALSE
  OBVIOUS
<1>1. Nat \ S \in SUBSET Nat /\ Nat \ S # {}
  OBVIOUS
<1>2. PICK x \in Nat \ S : \A y \in Nat \ S : x <= y
  BY <1>1, SmallestNumber
<1> QED
  BY <1>2
-----------------------------------------------------------------------------
LogRecords == [n : Nat, lost : SUBSET Nat]
NoBarrier(s) == \A i \in DOMAIN s : s[i] # Barrier

\* A record takes the numbers told from a to b; a barrier tells none.
Follows(r, a, b) ==
    IF r = Barrier THEN b = a ELSE r.n = b /\ a < b /\ r.lost = (a + 1)..(b - 1)

\* The number reached after each element of a sequence, and so from its start
\* to its end without a gap.
Marks(s, m) ==
    /\ m \in [0..Len(s) -> Nat]
    /\ \A i \in 1..Len(s) : Follows(s[i], m[i - 1], m[i])
Links(s, a, b) == \E m : Marks(s, m) /\ m[0] = a /\ m[Len(s)] = b

Ascending(s) == \A i, j \in DOMAIN s : i < j => s[i].n < s[j].n
Covered(s) == UNION {{r.n} \cup r.lost : r \in ToSet(s)}

(* The numbers reached only grow. *)
LEMMA MarksGrow ==
  ASSUME NEW s \in Seq(LogRecords), NEW m, Marks(s, m)
  PROVE  /\ Len(s) \in Nat
         /\ \A i \in 0..Len(s) : m[i] \in Nat
         /\ \A i, j \in 0..Len(s) : i <= j => m[i] <= m[j]
<1>1. Len(s) \in Nat
  BY LenProperties
<1>2. \A i \in 0..Len(s) : m[i] \in Nat
  BY DEF Marks
<1> DEFINE S == {j \in Nat : j <= Len(s) => \A i \in 0..j : m[i] <= m[j]}
<1>3. 0 \in S
  BY <1>1, <1>2
<1>4. ASSUME NEW j \in S PROVE j + 1 \in S
  <2> SUFFICES ASSUME j + 1 <= Len(s), NEW i \in 0..(j + 1) PROVE m[i] <= m[j + 1]
    OBVIOUS
  <2>1. Follows(s[j + 1], m[j], m[j + 1]) /\ m[j] \in Nat /\ m[j + 1] \in Nat
    <3>1. j + 1 \in 1..Len(s) /\ j \in 0..Len(s) /\ j + 1 \in 0..Len(s)
      BY <1>1
    <3>2. j + 1 - 1 = j
      OBVIOUS
    <3> QED
      BY <1>2, <3>1, <3>2 DEF Marks
  <2>2. m[j] <= m[j + 1]
    BY <2>1 DEF Follows
  <2>3. i <= j => m[i] <= m[j] /\ m[i] \in Nat
    BY <1>1, <1>2
  <2> QED
    BY <2>1, <2>2, <2>3
<1>5. S = Nat
  <2> HIDE DEF S
  <2>1. S \in SUBSET Nat
    BY DEF S
  <2> QED
    BY <1>3, <1>4, <2>1, SetInduction
<1> QED
  BY <1>1, <1>2, <1>5

(* No number is skipped: each is a record's, or in its notice. *)
LEMMA MarksTell ==
  ASSUME NEW s \in Seq(LogRecords), NEW m, Marks(s, m)
  PROVE  (m[0] + 1)..m[Len(s)] \subseteq Covered(s)
<1>1. /\ Len(s) \in Nat /\ DOMAIN s = 1..Len(s)
      /\ \A i \in 0..Len(s) : m[i] \in Nat
  BY MarksGrow, LenProperties
<1> SUFFICES ASSUME NEW k \in (m[0] + 1)..m[Len(s)] PROVE k \in Covered(s)
  OBVIOUS
<1> DEFINE S == {i \in 1..Len(s) : k <= m[i]}
<1>2. k \in Nat /\ S \in SUBSET Nat /\ S # {}
  <2>1. m[0] \in Nat /\ m[Len(s)] \in Nat
    BY <1>1
  <2> QED
    BY <1>1, <2>1
<1>3. PICK i \in S : \A j \in S : i <= j
  BY <1>2, SmallestNumber
<1>4. m[i - 1] < k /\ k <= m[i]
  BY <1>1, <1>2, <1>3
<1>5. Follows(s[i], m[i - 1], m[i]) /\ m[i - 1] \in Nat /\ m[i] \in Nat
  BY <1>1, <1>3 DEF Marks
<1>6. k = s[i].n \/ k \in s[i].lost
  BY <1>2, <1>4, <1>5 DEF Follows
<1>7. s[i] \in ToSet(s)
  BY <1>1, <1>3 DEF ToSet
<1> QED
  BY <1>6, <1>7 DEF Covered

(* A sequence of records reaches each time the number of its record. *)
LEMMA MarksAscend ==
  ASSUME NEW s \in Seq(LogRecords), NEW m, Marks(s, m), NoBarrier(s)
  PROVE  /\ \A i \in DOMAIN s : s[i].n = m[i] /\ m[0] < m[i] /\ m[i] <= m[Len(s)]
                /\ m[i - 1] < m[i]
         /\ Ascending(s)
         /\ s # <<>> => Last(s).n = m[Len(s)] /\ Len(s) \in DOMAIN s /\ Len(s) > 0
<1>1. /\ Len(s) \in Nat /\ DOMAIN s = 1..Len(s)
      /\ \A i \in 0..Len(s) : m[i] \in Nat
      /\ \A i, j \in 0..Len(s) : i <= j => m[i] <= m[j]
  BY MarksGrow, LenProperties
<1>2. ASSUME NEW i \in DOMAIN s
      PROVE  s[i].n = m[i] /\ m[0] < m[i] /\ m[i] <= m[Len(s)] /\ m[i - 1] < m[i]
  <2>1. Follows(s[i], m[i - 1], m[i]) /\ s[i] # Barrier
    BY <1>1 DEF Marks, NoBarrier
  <2>2. s[i].n = m[i] /\ m[i - 1] < m[i]
    BY <2>1 DEF Follows
  <2>3. m[0] <= m[i - 1] /\ m[i] <= m[Len(s)] /\ m[0] \in Nat /\ m[i - 1] \in Nat /\ m[i] \in Nat
    BY <1>1
  <2> QED
    BY <2>2, <2>3
<1>3. Ascending(s)
  <2> SUFFICES ASSUME NEW i \in DOMAIN s, NEW j \in DOMAIN s, i < j PROVE s[i].n < s[j].n
    BY DEF Ascending
  <2>1. m[i] <= m[j - 1] /\ m[j - 1] < m[j] /\ m[i] \in Nat /\ m[j - 1] \in Nat /\ m[j] \in Nat
    BY <1>1, <1>2
  <2> QED
    BY <1>2, <2>1
<1>4. s # <<>> => Last(s).n = m[Len(s)] /\ Len(s) \in DOMAIN s /\ Len(s) > 0
  <2> SUFFICES ASSUME s # <<>> PROVE Last(s).n = m[Len(s)] /\ Len(s) \in DOMAIN s /\ Len(s) > 0
    OBVIOUS
  <2>1. Len(s) \in DOMAIN s /\ Len(s) > 0
    BY <1>1, EmptySeq
  <2> QED
    BY <1>2, <2>1 DEF Last
<1> QED
  BY <1>2, <1>3, <1>4

(* Nothing reaches no further. *)
LEMMA LinksEmpty ==
  ASSUME NEW a, NEW b
  PROVE  Links(<<>>, a, b) <=> a = b /\ a \in Nat
<1>1. Len(<<>>) = 0 /\ 1..0 = {}
  OBVIOUS
<1>2. ASSUME Links(<<>>, a, b) PROVE a = b /\ a \in Nat
  BY <1>1, <1>2 DEF Links, Marks
<1>3. ASSUME a = b, a \in Nat PROVE Links(<<>>, a, b)
  <2> DEFINE m == [i \in 0..0 |-> a]
  <2>1. Marks(<<>>, m) /\ m[0] = a
    BY <1>1, <1>3 DEF Marks
  <2> QED
    BY <1>1, <1>3, <2>1 DEF Links
<1> QED
  BY <1>2, <1>3

(* One more element. *)
LEMMA MarksAppend ==
  ASSUME NEW s \in Seq(LogRecords), NEW m, Marks(s, m), NEW r \in LogRecords, NEW c \in Nat,
         Follows(r, m[Len(s)], c)
  PROVE  LET m2 == [i \in 0..(Len(s) + 1) |-> IF i <= Len(s) THEN m[i] ELSE c]
         IN  /\ Marks(Append(s, r), m2)
             /\ Len(Append(s, r)) = Len(s) + 1
             /\ \A i \in 0..Len(s) : m2[i] = m[i]
             /\ m2[Len(s) + 1] = c
<1> DEFINE t == Append(s, r)
           m2 == [i \in 0..(Len(s) + 1) |-> IF i <= Len(s) THEN m[i] ELSE c]
<1>1. /\ Len(s) \in Nat /\ Len(t) = Len(s) + 1
      /\ \A i \in 1..Len(s) : t[i] = s[i]
      /\ t[Len(s) + 1] = r
  BY LenProperties, AppendProperties
<1>2. \A i \in 0..Len(s) : m[i] \in Nat
  BY DEF Marks
<1>3. m2 \in [0..Len(t) -> Nat] /\ (\A i \in 0..Len(s) : m2[i] = m[i]) /\ m2[Len(s) + 1] = c
  BY <1>1, <1>2
<1>4. ASSUME NEW i \in 1..Len(t) PROVE Follows(t[i], m2[i - 1], m2[i])
  <2>1. CASE i <= Len(s)
    <3>1. Follows(s[i], m[i - 1], m[i])
      BY <1>1, <2>1 DEF Marks
    <3>2. t[i] = s[i] /\ m2[i - 1] = m[i - 1] /\ m2[i] = m[i]
      BY <1>1, <1>3, <2>1
    <3> QED
      BY <3>1, <3>2
  <2>2. CASE i = Len(s) + 1
    <3>1. t[i] = r /\ m2[i - 1] = m[Len(s)] /\ m2[i] = c
      BY <1>1, <1>3, <2>2
    <3> QED
      BY <3>1
  <2> QED
    BY <1>1, <2>1, <2>2
<1> QED
  BY <1>1, <1>3, <1>4 DEF Marks

(* The first element taken off. *)
LEMMA MarksTail ==
  ASSUME NEW s \in Seq(LogRecords), NEW m, Marks(s, m), s # <<>>
  PROVE  LET m2 == [i \in 0..(Len(s) - 1) |-> m[i + 1]]
         IN  /\ Marks(Tail(s), m2) /\ Len(Tail(s)) = Len(s) - 1
             /\ \A i \in 0..(Len(s) - 1) : m2[i] = m[i + 1]
             /\ Follows(Head(s), m[0], m[1])
             /\ \A i \in 1..(Len(s) - 1) : Tail(s)[i] = s[i + 1]
             /\ Head(s) = s[1] /\ Head(s) \in LogRecords /\ Tail(s) \in Seq(LogRecords)
             /\ Len(s) \in Nat \ {0} /\ DOMAIN s = 1..Len(s) /\ DOMAIN Tail(s) = 1..(Len(s) - 1)
<1> DEFINE m2 == [i \in 0..(Len(s) - 1) |-> m[i + 1]]
<1>1. /\ Len(s) \in Nat \ {0} /\ Len(Tail(s)) = Len(s) - 1 /\ Head(s) = s[1]
      /\ \A i \in 1..(Len(s) - 1) : Tail(s)[i] = s[i + 1]
      /\ Head(s) \in LogRecords /\ Tail(s) \in Seq(LogRecords)
      /\ DOMAIN s = 1..Len(s) /\ DOMAIN Tail(s) = 1..(Len(s) - 1)
  <2>1. Tail(s) \in Seq(LogRecords)
    BY HeadTailProperties
  <2> QED
    BY <2>1, LenProperties, EmptySeq, HeadTailProperties
<1>2. \A i \in 0..Len(s) : m[i] \in Nat
  BY DEF Marks
<1>3. m2 \in [0..(Len(s) - 1) -> Nat] /\ \A i \in 0..(Len(s) - 1) : m2[i] = m[i + 1]
  BY <1>1, <1>2
<1>4. ASSUME NEW i \in 1..(Len(s) - 1) PROVE Follows(Tail(s)[i], m2[i - 1], m2[i])
  <2>1. i + 1 \in 1..Len(s) /\ i + 1 - 1 = i
    BY <1>1
  <2>2. Follows(s[i + 1], m[i], m[i + 1])
    BY <2>1 DEF Marks
  <2>3. m2[i - 1] = m[i] /\ m2[i] = m[i + 1]
    BY <1>1, <1>3
  <2> QED
    BY <1>1, <2>2, <2>3
<1>5. Follows(Head(s), m[0], m[1])
  <2>1. 1 \in 1..Len(s) /\ 1 - 1 = 0
    BY <1>1
  <2> QED
    BY <1>1, <2>1 DEF Marks
<1> QED
  BY <1>1, <1>3, <1>4, <1>5 DEF Marks

(* A sequence of one, and one sequence after another. *)
LEMMA LinksAppend ==
  ASSUME NEW s \in Seq(LogRecords), NEW a, NEW b, Links(s, a, b),
         NEW r \in LogRecords, NEW c \in Nat, Follows(r, b, c)
  PROVE  Links(Append(s, r), a, c)
<1>1. PICK m : Marks(s, m) /\ m[0] = a /\ m[Len(s)] = b
  BY DEF Links
<1>2. Len(s) \in Nat
  BY LenProperties
<1> DEFINE m2 == [i \in 0..(Len(s) + 1) |-> IF i <= Len(s) THEN m[i] ELSE c]
<1>3. /\ Marks(Append(s, r), m2) /\ Len(Append(s, r)) = Len(s) + 1
      /\ \A i \in 0..Len(s) : m2[i] = m[i]
      /\ m2[Len(s) + 1] = c
  BY <1>1, MarksAppend
<1>4. m2[0] = a
  BY <1>1, <1>2, <1>3
<1> HIDE DEF m2
<1> QED
  BY <1>3, <1>4 DEF Links

(* One sequence after another. *)
LEMMA LinksConcat ==
  ASSUME NEW s \in Seq(LogRecords), NEW t \in Seq(LogRecords), NEW a, NEW b, NEW c,
         Links(s, a, b), Links(t, b, c)
  PROVE  Links(s \o t, a, c)
<1>1. PICK m : Marks(s, m) /\ m[0] = a /\ m[Len(s)] = b
  BY DEF Links
<1>2. PICK k : Marks(t, k) /\ k[0] = b /\ k[Len(t)] = c
  BY DEF Links
<1>3. /\ Len(s) \in Nat /\ Len(t) \in Nat /\ Len(s \o t) = Len(s) + Len(t)
      /\ \A i \in 1..(Len(s) + Len(t)) : (s \o t)[i] = IF i <= Len(s) THEN s[i] ELSE t[i - Len(s)]
  BY LenProperties, ConcatProperties
<1> DEFINE j == [i \in 0..(Len(s) + Len(t)) |-> IF i <= Len(s) THEN m[i] ELSE k[i - Len(s)]]
<1>4. (\A i \in 0..Len(s) : m[i] \in Nat) /\ (\A i \in 0..Len(t) : k[i] \in Nat)
  BY <1>1, <1>2 DEF Marks
<1>5. /\ j \in [0..(Len(s) + Len(t)) -> Nat]
      /\ \A i \in 0..Len(s) : j[i] = m[i]
      /\ \A i \in 0..Len(t) : j[i + Len(s)] = k[i]
  <2>1. \A i \in 0..(Len(s) + Len(t)) : j[i] = IF i <= Len(s) THEN m[i] ELSE k[i - Len(s)]
    OBVIOUS
  <2>2. \A i \in 0..Len(s) : j[i] = m[i]
    BY <1>3, <2>1
  <2>3. ASSUME NEW i \in 0..Len(t) PROVE j[i + Len(s)] = k[i]
    <3>1. CASE i = 0
      BY <1>1, <1>2, <1>3, <2>2, <3>1
    <3>2. CASE i > 0
      <4>1. i + Len(s) \in 0..(Len(s) + Len(t)) /\ ~(i + Len(s) <= Len(s))
            /\ i + Len(s) - Len(s) = i
        BY <1>3, <3>2
      <4> QED
        BY <2>1, <4>1
    <3> QED
      BY <1>3, <3>1, <3>2
  <2>4. j \in [0..(Len(s) + Len(t)) -> Nat]
    BY <1>3, <1>4
  <2> QED
    BY <2>2, <2>3, <2>4
<1>6. ASSUME NEW i \in 1..(Len(s) + Len(t)) PROVE Follows((s \o t)[i], j[i - 1], j[i])
  <2>1. CASE i <= Len(s)
    <3>1. Follows(s[i], m[i - 1], m[i])
      BY <1>1, <1>3, <2>1 DEF Marks
    <3>2. (s \o t)[i] = s[i] /\ j[i - 1] = m[i - 1] /\ j[i] = m[i]
      BY <1>3, <1>5, <2>1
    <3> QED
      BY <3>1, <3>2
  <2>2. CASE i > Len(s)
    <3>1. PICK h \in 1..Len(t) : i = h + Len(s) /\ h = i - Len(s)
      BY <1>3, <2>2
    <3>2. Follows(t[h], k[h - 1], k[h])
      BY <1>2, <3>1 DEF Marks
    <3>3. (s \o t)[i] = t[h]
      BY <1>3, <2>2, <3>1
    <3>4. j[i] = k[h] /\ j[i - 1] = k[h - 1]
      <4>1. h \in 0..Len(t) /\ h - 1 \in 0..Len(t) /\ i - 1 = (h - 1) + Len(s)
        BY <1>3, <3>1
      <4> QED
        BY <1>5, <3>1, <4>1
    <3> QED
      BY <3>2, <3>3, <3>4
  <2> QED
    BY <1>3, <2>1, <2>2
<1>7. j[0] = a /\ j[Len(s) + Len(t)] = c
  <2>1. j[0] = m[0]
    BY <1>3, <1>5
  <2>2. j[Len(t) + Len(s)] = k[Len(t)]
    BY <1>3, <1>5
  <2> QED
    BY <1>1, <1>2, <1>3, <2>1, <2>2
<1> HIDE DEF j
<1> QED
  BY <1>3, <1>5, <1>6, <1>7 DEF Links, Marks

\* A place of the channel that a send owns and has not filled.
HeldPlace == IF reserved THEN 1 ELSE 0

\* The records pushed: kept in the history, queued or dropped, all told so far
\* as m says.
Stream(s, m) ==
    /\ s = [next |-> s.next, dropped |-> s.dropped, records |-> s.records, queue |-> s.queue]
    /\ s.next \in Nat \ {0}
    /\ s.records \in Seq(LogRecords) /\ s.queue \in Seq(LogRecords)
    /\ Len(s.records) = s.next - 1
    /\ \A i \in DOMAIN s.records : s.records[i].n = i
    /\ Marks(s.queue, m)
    /\ m[Len(s.queue)] < s.next
    /\ s.dropped = (m[Len(s.queue)] + 1)..(s.next - 1)
    /\ Len(s.queue) + HeldPlace <= WriterCapacity

\* Records are added at the end of the queue, or none is.
Extends(s, m, t, k) ==
    /\ s.next <= t.next
    /\ Len(s.queue) <= Len(t.queue)
    /\ \A i \in 1..Len(s.queue) : t.queue[i] = s.queue[i]
    /\ \A i \in 0..Len(s.queue) : k[i] = m[i]
    /\ \A i \in (Len(s.queue) + 1)..Len(t.queue) : t.queue[i] # Barrier
    /\ Len(s.queue) < Len(t.queue) => s.next <= k[Len(t.queue)]

(* What a stream of records has for numbers. *)
LEMMA StreamNumbers ==
  ASSUME NEW s, NEW m, Stream(s, m)
  PROVE  /\ Len(s.queue) \in Nat /\ DOMAIN s.queue = 1..Len(s.queue)
         /\ Len(s.queue) <= WriterCapacity /\ WriterCapacity \in Nat \ {0}
         /\ \A i \in 0..Len(s.queue) : m[i] \in Nat
         /\ \A i, j \in 0..Len(s.queue) : i <= j => m[i] <= m[j]
         /\ m[Len(s.queue)] \in Nat /\ m[0] \in Nat
         /\ s.dropped = {} <=> m[Len(s.queue)] = s.next - 1
         /\ Capacity(s) \in Nat
         /\ HeldPlace \in {0, 1} /\ Capacity(s) = WriterCapacity - Len(s.queue) - HeldPlace
<1>1. s.queue \in Seq(LogRecords) /\ Marks(s.queue, m) /\ WriterCapacity \in Nat \ {0}
  BY LogAssumption DEF Stream
<1>2. /\ Len(s.queue) \in Nat /\ DOMAIN s.queue = 1..Len(s.queue)
      /\ \A i \in 0..Len(s.queue) : m[i] \in Nat
      /\ \A i, j \in 0..Len(s.queue) : i <= j => m[i] <= m[j]
  BY <1>1, MarksGrow, LenProperties
<1>3. m[Len(s.queue)] \in Nat /\ m[0] \in Nat
  BY <1>2
<1>4. s.dropped = {} <=> m[Len(s.queue)] = s.next - 1
  <2>1. \A i, j \in Int : i..j = {} <=> i > j
    OBVIOUS
  <2> QED
    BY <1>3, <2>1 DEF Stream
<1>5. Len(s.queue) + HeldPlace <= WriterCapacity
  BY DEF Stream
<1>6. HeldPlace \in {0, 1} /\ Capacity(s) = WriterCapacity - Len(s.queue) - HeldPlace
  BY DEF HeldPlace, Capacity
<1>7. Len(s.queue) <= WriterCapacity /\ Capacity(s) \in Nat
  BY <1>1, <1>2, <1>5, <1>6
<1> QED
  BY <1>1, <1>2, <1>3, <1>4, <1>6, <1>7

(* A numbered record at the end of the stream, told up to the one before. *)
LEMMA OneMoreRecord ==
  ASSUME NEW s, NEW m, Stream(s, m), Capacity(s) > 0, NEW r \in LogRecords,
         r.n = s.next, r.lost = s.dropped,
         NEW t, t = [next |-> s.next + 1, dropped |-> {}, records |-> Append(s.records, r),
                     queue |-> Append(s.queue, r)]
  PROVE  \E k : Stream(t, k) /\ Extends(s, m, t, k) /\ Len(t.queue) = Len(s.queue) + 1
<1>1. /\ Len(s.queue) \in Nat /\ DOMAIN s.queue = 1..Len(s.queue)
      /\ \A i \in 0..Len(s.queue) : m[i] \in Nat
      /\ m[Len(s.queue)] \in Nat
      /\ HeldPlace \in {0, 1} /\ Capacity(s) = WriterCapacity - Len(s.queue) - HeldPlace
      /\ WriterCapacity \in Nat
  BY StreamNumbers
<1>2. /\ s.next \in Nat \ {0} /\ s.queue \in Seq(LogRecords) /\ s.records \in Seq(LogRecords)
      /\ Marks(s.queue, m) /\ m[Len(s.queue)] < s.next
      /\ s.dropped = (m[Len(s.queue)] + 1)..(s.next - 1)
      /\ Len(s.records) = s.next - 1 /\ \A i \in DOMAIN s.records : s.records[i].n = i
  BY DEF Stream
<1>3. r # Barrier
  BY <1>2 DEF Barrier
<1>4. Follows(r, m[Len(s.queue)], s.next)
  BY <1>2, <1>3 DEF Follows
<1> DEFINE k == [i \in 0..(Len(s.queue) + 1) |-> IF i <= Len(s.queue) THEN m[i] ELSE s.next]
<1>5. /\ Marks(Append(s.queue, r), k) /\ Len(Append(s.queue, r)) = Len(s.queue) + 1
      /\ \A i \in 0..Len(s.queue) : k[i] = m[i]
      /\ k[Len(s.queue) + 1] = s.next
  <2>1. PICK q, n : q = s.queue /\ n = s.next
    OBVIOUS
  <2>2. q \in Seq(LogRecords) /\ Marks(q, m) /\ n \in Nat /\ Follows(r, m[Len(q)], n)
    BY <1>2, <1>4, <2>1
  <2>3. LET j == [i \in 0..(Len(q) + 1) |-> IF i <= Len(q) THEN m[i] ELSE n]
        IN  /\ Marks(Append(q, r), j)
            /\ Len(Append(q, r)) = Len(q) + 1
            /\ \A i \in 0..Len(q) : j[i] = m[i]
            /\ j[Len(q) + 1] = n
    <3> HIDE DEF k
    <3> QED
      BY <2>2, MarksAppend
  <2> QED
    BY <2>1, <2>3
<1>6. /\ Append(s.queue, r) \in Seq(LogRecords)
      /\ \A i \in 1..Len(s.queue) : Append(s.queue, r)[i] = s.queue[i]
      /\ Append(s.queue, r)[Len(s.queue) + 1] = r
  BY <1>2, AppendProperties
<1>7. /\ Append(s.records, r) \in Seq(LogRecords) /\ Len(Append(s.records, r)) = s.next
      /\ \A i \in DOMAIN Append(s.records, r) : Append(s.records, r)[i].n = i
  BY <1>2, AppendProperties, LenProperties
<1> HIDE DEF k
<1>8. /\ t.next = s.next + 1 /\ t.dropped = {} /\ t.records = Append(s.records, r)
      /\ t.queue = Append(s.queue, r)
  OBVIOUS
<1>9. (k[Len(t.queue)] + 1)..(t.next - 1) = {}
  BY <1>2, <1>5, <1>8
<1>10. Len(t.queue) + HeldPlace <= WriterCapacity
  BY <1>1, <1>5, <1>8
<1>11. Stream(t, k)
  BY <1>2, <1>5, <1>6, <1>7, <1>8, <1>9, <1>10 DEF Stream
<1>12. Extends(s, m, t, k)
  <2>1. s.next <= t.next /\ Len(s.queue) <= Len(t.queue)
    BY <1>1, <1>2, <1>5, <1>8
  <2>2. \A i \in (Len(s.queue) + 1)..Len(t.queue) : t.queue[i] # Barrier
    BY <1>1, <1>3, <1>5, <1>6, <1>8
  <2>3. Len(s.queue) < Len(t.queue) => s.next <= k[Len(t.queue)]
    BY <1>1, <1>2, <1>5, <1>8
  <2> QED
    BY <1>5, <1>6, <1>8, <2>1, <2>2, <2>3 DEF Extends
<1> QED
  BY <1>5, <1>8, <1>11, <1>12

(* A stream that stays extends itself. *)
LEMMA ExtendsItself ==
  ASSUME NEW s, NEW m, Stream(s, m)
  PROVE  Extends(s, m, s, m)
  BY StreamNumbers DEF Extends, Stream

(* Two additions are one. *)
LEMMA ExtendsTwice ==
  ASSUME NEW s, NEW m, NEW t, NEW k, NEW u, NEW j, Stream(s, m), Stream(t, k), Stream(u, j),
         Extends(s, m, t, k), Extends(t, k, u, j)
  PROVE  Extends(s, m, u, j)
<1>1. /\ Len(s.queue) \in Nat /\ Len(t.queue) \in Nat /\ Len(u.queue) \in Nat
      /\ s.next \in Nat /\ t.next \in Nat /\ u.next \in Nat
      /\ k[Len(t.queue)] \in Nat /\ j[Len(u.queue)] \in Nat
  BY StreamNumbers DEF Stream
<1>2. s.next <= u.next /\ Len(s.queue) <= Len(u.queue)
  BY <1>1 DEF Extends
<1>3. \A i \in 1..Len(s.queue) : u.queue[i] = s.queue[i]
  BY <1>1 DEF Extends
<1>4. \A i \in 0..Len(s.queue) : j[i] = m[i]
  BY <1>1 DEF Extends
<1>5. \A i \in (Len(s.queue) + 1)..Len(u.queue) : u.queue[i] # Barrier
  BY <1>1 DEF Extends
<1>6. Len(s.queue) < Len(u.queue) => s.next <= j[Len(u.queue)]
  <2>1. CASE Len(t.queue) < Len(u.queue)
    BY <1>1, <2>1 DEF Extends
  <2>2. CASE Len(t.queue) = Len(u.queue)
    <3>1. j[Len(u.queue)] = k[Len(t.queue)]
      BY <1>1, <2>2 DEF Extends
    <3> QED
      BY <1>1, <2>2, <3>1 DEF Extends
  <2> QED
    BY <1>1, <2>1, <2>2 DEF Extends
<1> QED
  BY <1>2, <1>3, <1>4, <1>5, <1>6 DEF Extends

(* report_dropped: with a free place, the stream has told everything. *)
LEMMA ReportedExtends ==
  ASSUME NEW s, NEW m, Stream(s, m)
  PROVE  \E k : /\ Stream(Reported(s), k) /\ Extends(s, m, Reported(s), k)
                /\ Len(Reported(s).queue) = Len(s.queue)
                    => Reported(s) = s /\ (s.dropped = {} \/ Capacity(s) = 0)
                /\ Reported(s).dropped # {} => Capacity(s) = 0 /\ Reported(s) = s
<1>1. CASE s.dropped = {} \/ Capacity(s) = 0
  <2>1. Reported(s) = s
    BY <1>1 DEF Reported
  <2> QED
    BY <1>1, <2>1, ExtendsItself
<1>2. CASE ~(s.dropped = {} \/ Capacity(s) = 0)
  <2>1. Capacity(s) > 0 /\ Len(s.queue) \in Nat
    BY <1>2, StreamNumbers
  <2> DEFINE r == [n |-> s.next, lost |-> s.dropped]
             t == [next |-> s.next + 1, dropped |-> {}, records |-> Append(s.records, r),
                   queue |-> Append(s.queue, r)]
  <2>2. Reported(s) = t
    BY <1>2 DEF Reported
  <2>3. r \in LogRecords /\ r.n = s.next /\ r.lost = s.dropped
    <3>1. s.next \in Nat /\ m[Len(s.queue)] \in Nat
          /\ s.dropped = (m[Len(s.queue)] + 1)..(s.next - 1)
      BY StreamNumbers DEF Stream
    <3>2. s.dropped \subseteq Nat
      BY <3>1
    <3> QED
      BY <3>1, <3>2 DEF LogRecords
  <2>4. \E k : Stream(t, k) /\ Extends(s, m, t, k) /\ Len(t.queue) = Len(s.queue) + 1
    <3> HIDE DEF r
    <3> QED
      BY <2>1, <2>3, OneMoreRecord
  <2>5. t.dropped = {}
    OBVIOUS
  <2> HIDE DEF t
  <2> QED
    BY <2>1, <2>2, <2>4, <2>5
<1> QED
  BY <1>1, <1>2

(* push, once what was dropped is reported. *)
LEMMA PushedExtends ==
  ASSUME NEW s, NEW m, Stream(s, m), Capacity(s) > 0 => s.dropped = {}
  PROVE  \E k : /\ Stream(Pushed(s), k) /\ Extends(s, m, Pushed(s), k)
                /\ Len(Pushed(s).queue) = Len(s.queue) => Capacity(s) = 0
                /\ Pushed(s).dropped # {} => Capacity(Pushed(s)) = 0
<1> DEFINE r == [n |-> s.next, lost |-> {}]
<1>1. s.next \in Nat \ {0} /\ r \in LogRecords /\ r.n = s.next /\ r.lost = {}
  BY DEF Stream, LogRecords
<1> HIDE DEF r
<1>2. CASE Capacity(s) > 0
  <2> DEFINE t == [next |-> s.next + 1, dropped |-> {}, records |-> Append(s.records, r),
                   queue |-> Append(s.queue, r)]
  <2>1. Pushed(s) = t
    BY <1>2 DEF Pushed, r
  <2>2. \E k : Stream(t, k) /\ Extends(s, m, t, k) /\ Len(t.queue) = Len(s.queue) + 1
    BY <1>1, <1>2, OneMoreRecord
  <2>3. Len(s.queue) \in Nat /\ t.dropped = {}
    BY StreamNumbers
  <2> HIDE DEF t
  <2> QED
    BY <2>1, <2>2, <2>3
<1>3. CASE Capacity(s) = 0
  <2> DEFINE t == [next |-> s.next + 1, dropped |-> s.dropped \cup {s.next},
                   records |-> Append(s.records, r), queue |-> s.queue]
  <2>1. Pushed(s) = t
    BY <1>3 DEF Pushed, r
  <2>2. /\ t.next = s.next + 1 /\ t.dropped = s.dropped \cup {s.next}
        /\ t.records = Append(s.records, r) /\ t.queue = s.queue
    OBVIOUS
  <2>3. /\ Append(s.records, r) \in Seq(LogRecords) /\ Len(Append(s.records, r)) = s.next
        /\ \A i \in DOMAIN Append(s.records, r) : Append(s.records, r)[i].n = i
    <3>1. /\ s.records \in Seq(LogRecords) /\ Len(s.records) = s.next - 1
          /\ \A i \in DOMAIN s.records : s.records[i].n = i
      BY DEF Stream
    <3> QED
      BY <1>1, <3>1, AppendProperties, LenProperties
  <2>4. s.dropped \cup {s.next} = (m[Len(s.queue)] + 1)..(t.next - 1)
    <3>1. /\ m[Len(s.queue)] \in Nat /\ m[Len(s.queue)] < s.next
          /\ s.dropped = (m[Len(s.queue)] + 1)..(s.next - 1)
      BY StreamNumbers DEF Stream
    <3> QED
      BY <1>1, <2>2, <3>1
  <2> HIDE DEF t
  <2>5. Stream(t, m)
    <3>1. t = [next |-> t.next, dropped |-> t.dropped, records |-> t.records, queue |-> t.queue]
      BY DEF t
    <3>2. m[Len(s.queue)] < t.next
      <4>1. m[Len(s.queue)] \in Nat /\ m[Len(s.queue)] < s.next
        BY StreamNumbers DEF Stream
      <4> QED
        BY <1>1, <2>2, <4>1
    <3>3. /\ s.queue \in Seq(LogRecords) /\ Marks(s.queue, m)
          /\ Len(s.queue) + HeldPlace <= WriterCapacity
      BY DEF Stream
    <3>4. t.next \in Nat \ {0} /\ t.next - 1 = s.next
      BY <1>1, <2>2
    <3>5. Len(t.records) = t.next - 1
      BY <2>2, <2>3, <3>4
    <3> QED
      BY <2>2, <2>3, <2>4, <3>1, <3>2, <3>3, <3>4, <3>5 DEF Stream
  <2>6. Extends(s, m, t, m)
    BY <1>1, <2>2, StreamNumbers DEF Extends
  <2>7. Capacity(t) = 0
    BY <1>3, <2>2 DEF Capacity
  <2> QED
    BY <1>3, <2>1, <2>5, <2>6, <2>7
<1>4. Capacity(s) \in Nat
  BY StreamNumbers
<1> QED
  BY <1>2, <1>3, <1>4

\* The writer's batch: what it took and has not published.
Unpublished == IF writer.at \in {"report", "gather", "publish"} THEN writer.batch ELSE <<>>
WriterHolds ==
    /\ writer = [at |-> writer.at, batch |-> writer.batch, ack |-> writer.ack]
    /\ writer.at \in {"recv", "report", "gather", "publish", "append"}
    /\ writer.batch \in Seq(LogRecords) /\ writer.ack \in BOOLEAN
    /\ writer.at = "recv" => writer.batch = <<>>
    /\ writer.at = "report" => Len(writer.batch) = 1
    /\ writer.at \in {"gather", "publish"} => writer.batch # <<>> /\ NoBarrier(writer.batch)
    /\ writer.ack => writer.at \in {"publish", "append"}

\* A flush: before its first barrier enters, with the first on its way, between
\* the two, with the second on its way, with both answered.
BeforeFirst ==
    \/ barrier.at \in {"idle", "begun"}
    \/ barrier.at \in {"sending", "placed"} /\ barrier.round = 1
First == barrier.at = "waiting" /\ barrier.round = 1
Between ==
    \/ barrier.at = "acked" /\ barrier.round = 1
    \/ barrier.at \in {"sending", "placed"} /\ barrier.round = 2
Second == barrier.at = "waiting" /\ barrier.round = 2
Drained ==
    \/ barrier.at = "acked" /\ barrier.round = 2
    \/ barrier.at = "done"
FlushTypes ==
    /\ barrier = [at |-> barrier.at, round |-> barrier.round, before |-> barrier.before]
    /\ barrier.at \in {"idle", "begun", "sending", "placed", "waiting", "acked", "done",
                       "timedOut"}
    /\ BeforeFirst \/ First \/ Between \/ Second \/ Drained \/ barrier.at = "timedOut"
    /\ barrier.at = "begun" => barrier.round = 1
    /\ reserved = (barrier.at = "placed")

\* Where the barrier on its way is: queued, taken, or taken with a batch.
BarrierQueued(b) ==
    /\ b \in DOMAIN recent.queue /\ recent.queue[b] = Barrier
    /\ \A c \in DOMAIN recent.queue : recent.queue[c] = Barrier => c = b
    /\ writer.batch # <<Barrier>> /\ ~writer.ack
BarrierTaken ==
    NoBarrier(recent.queue) /\ ~writer.ack /\ writer.at = "report" /\ writer.batch = <<Barrier>>
BarrierGathered == NoBarrier(recent.queue) /\ writer.ack
NoneOnItsWay == NoBarrier(recent.queue) /\ writer.batch # <<Barrier>> /\ ~writer.ack
BarrierPlace ==
    /\ BeforeFirst \/ Between \/ Drained => NoneOnItsWay
    /\ First \/ Second => BarrierTaken \/ BarrierGathered \/ \E b : BarrierQueued(b)

\* The flush waits for the numbers up to w.
Awaited(w) ==
    /\ w \in Nat /\ w < recent.next
    /\ barrier.at = "idle" => w = recent.next - 1
    /\ barrier.at # "idle" => barrier.before = 1..w

\* Until the first barrier is answered, a dropped record among them was dropped
\* at a full queue, so that more than a batch stands before the barrier: there
\* is time for its notice.  Then all of them are published or queued, and the
\* second barrier comes after them.
InTime(m, w) ==
    LET unsaid == m[Len(recent.queue)] < w
    IN  /\ BeforeFirst /\ unsaid /\ writer.at = "gather" =>
            Len(writer.batch) + Len(recent.queue) >= WriterCapacity
        /\ First /\ unsaid =>
            /\ ~BarrierGathered
            /\ BarrierTaken => Len(recent.queue) < WriterCapacity
            /\ \A b \in DOMAIN recent.queue : recent.queue[b] = Barrier =>
                /\ b = Len(recent.queue)
                /\ writer.at = "gather" => Len(writer.batch) + b > WriterCapacity
        /\ Between => ~unsaid
        /\ Second =>
            /\ BarrierTaken \/ BarrierGathered => w <= m[0]
            /\ \A b \in DOMAIN recent.queue : recent.queue[b] = Barrier => w <= m[b]
        /\ Drained => w <= newest

Published == newest \in Nat /\ 1..newest \subseteq told /\ ordered

\* The inductive invariant of the records: published, in the writer's batch,
\* queued and dropped, together they are all numbers in their order.
LogAt(m, w) ==
    /\ WriterHolds /\ FlushTypes /\ Published
    /\ Stream(recent, m)
    /\ Links(Unpublished, newest, m[0])
    /\ BarrierPlace /\ Awaited(w) /\ InTime(m, w)
LogInv == \E m, w : LogAt(m, w)

(* The numbers of a reachable log. *)
LEMMA LogNumbers ==
  ASSUME NEW m, NEW w, LogAt(m, w)
  PROVE  /\ Len(recent.queue) \in Nat /\ DOMAIN recent.queue = 1..Len(recent.queue)
         /\ Len(recent.queue) <= WriterCapacity /\ WriterCapacity \in Nat \ {0}
         /\ recent.next \in Nat \ {0}
         /\ \A i \in 0..Len(recent.queue) : m[i] \in Nat
         /\ \A i, j \in 0..Len(recent.queue) : i <= j => m[i] <= m[j]
         /\ m[Len(recent.queue)] \in Nat /\ m[0] \in Nat /\ m[0] <= m[Len(recent.queue)]
         /\ m[Len(recent.queue)] < recent.next
         /\ recent.dropped = {} <=> m[Len(recent.queue)] = recent.next - 1
         /\ HeldPlace \in {0, 1} /\ (barrier.at # "placed" => HeldPlace = 0)
         /\ Capacity(recent) \in Nat
         /\ Capacity(recent) = WriterCapacity - Len(recent.queue) - HeldPlace
         /\ w \in Nat /\ w < recent.next
         /\ newest \in Nat /\ Len(writer.batch) \in Nat
<1>1. Stream(recent, m) /\ w \in Nat /\ w < recent.next /\ newest \in Nat
      /\ Len(writer.batch) \in Nat
  BY LenProperties DEF LogAt, Awaited, Published, WriterHolds
<1>2. /\ Len(recent.queue) \in Nat /\ DOMAIN recent.queue = 1..Len(recent.queue)
      /\ Len(recent.queue) <= WriterCapacity /\ WriterCapacity \in Nat \ {0}
      /\ \A i \in 0..Len(recent.queue) : m[i] \in Nat
      /\ \A i, j \in 0..Len(recent.queue) : i <= j => m[i] <= m[j]
      /\ m[Len(recent.queue)] \in Nat /\ m[0] \in Nat
      /\ recent.dropped = {} <=> m[Len(recent.queue)] = recent.next - 1
      /\ Capacity(recent) \in Nat
      /\ HeldPlace \in {0, 1} /\ Capacity(recent) = WriterCapacity - Len(recent.queue) - HeldPlace
  BY <1>1, StreamNumbers
<1>3. m[0] <= m[Len(recent.queue)]
  BY <1>2
<1>4. recent.next \in Nat \ {0} /\ m[Len(recent.queue)] < recent.next
  BY <1>1 DEF Stream
<1>5. barrier.at # "placed" => HeldPlace = 0
  BY DEF LogAt, FlushTypes, HeldPlace
<1> QED
  BY <1>1, <1>2, <1>3, <1>4, <1>5

(* A step that leaves the flush where it is and adds records at the end of   *)
(* the queue.                                                                *)
LEMMA PlaceKept ==
  ASSUME NEW m, NEW w, LogAt(m, w), NEW k, Extends(recent, m, recent', k),
         Stream(recent, k)', UNCHANGED barrier,
         writer'.batch = writer.batch, writer'.ack = writer.ack,
         writer.batch # <<Barrier>> \/ UNCHANGED writer
  PROVE  BarrierPlace'
<1>1. /\ Len(recent.queue) \in Nat /\ DOMAIN recent.queue = 1..Len(recent.queue)
  BY LogNumbers
<1>2. Len(recent'.queue) \in Nat /\ DOMAIN recent'.queue = 1..Len(recent'.queue)
  BY LenProperties DEF Stream
<1>3. \A b \in DOMAIN recent'.queue : recent'.queue[b] = Barrier =>
          b \in DOMAIN recent.queue /\ recent.queue[b] = Barrier
  BY <1>1, <1>2 DEF Extends
<1>4. \A b \in DOMAIN recent.queue :
        b \in DOMAIN recent'.queue /\ recent'.queue[b] = recent.queue[b]
  BY <1>1, <1>2 DEF Extends
<1>5. NoBarrier(recent.queue) => NoBarrier(recent'.queue)
  BY <1>3 DEF NoBarrier
<1>6. /\ BeforeFirst' <=> BeforeFirst
      /\ First' <=> First
      /\ Between' <=> Between
      /\ Second' <=> Second
      /\ Drained' <=> Drained
  BY DEF BeforeFirst, First, Between, Second, Drained
<1>7. NoneOnItsWay => NoneOnItsWay'
  BY <1>5 DEF NoneOnItsWay
<1>8. (BarrierTaken => BarrierTaken') /\ (BarrierGathered => BarrierGathered')
  BY <1>5 DEF BarrierTaken, BarrierGathered
<1>9. \A b : BarrierQueued(b) => BarrierQueued(b)'
  BY <1>3, <1>4 DEF BarrierQueued
<1> QED
  BY <1>6, <1>7, <1>8, <1>9 DEF LogAt, BarrierPlace

(* What is gathered and queued, with more of it. *)
LEMMA MoreQueued ==
  ASSUME NEW a \in Nat, NEW b \in Nat
  PROVE  /\ a + b >= b
         /\ \A c, d \in Nat : b <= c /\ a + b >= d => a + c >= d
  OBVIOUS

(* push *)
LEMMA PushKeepsLog ==
  ASSUME NEW m, NEW w, LogAt(m, w), Push
  PROVE  LogInv'
<1>1. /\ recent' = Pushed(Reported(recent))
      /\ UNCHANGED <<writer, barrier, reserved, told, ordered, newest>>
  BY DEF Push
<1>2. Stream(recent, m)
  BY DEF LogAt
<1>3. PICK j : /\ Stream(Reported(recent), j) /\ Extends(recent, m, Reported(recent), j)
               /\ Len(Reported(recent).queue) = Len(recent.queue)
                    => Reported(recent) = recent /\ (recent.dropped = {} \/ Capacity(recent) = 0)
               /\ Reported(recent).dropped # {} => Capacity(recent) = 0 /\ Reported(recent) = recent
  BY <1>2, ReportedExtends
<1>4. Capacity(Reported(recent)) > 0 => Reported(recent).dropped = {}
  BY <1>3
<1>5. PICK k : /\ Stream(recent', k) /\ Extends(Reported(recent), j, recent', k)
               /\ Len(recent'.queue) = Len(Reported(recent).queue) => Capacity(Reported(recent)) = 0
               /\ recent'.dropped # {} => Capacity(recent') = 0
  BY <1>1, <1>3, <1>4, PushedExtends
<1>6. Extends(recent, m, recent', k)
  BY <1>2, <1>3, <1>5, ExtendsTwice
<1>7. Stream(recent, k)' /\ (recent'.dropped # {} => Capacity(recent)' = 0)
  BY <1>1, <1>5 DEF Stream, HeldPlace, Capacity
<1>8. BarrierPlace'
  BY <1>1, <1>6, <1>7, PlaceKept
<1>v. PICK v : v = IF barrier.at = "idle" THEN recent'.next - 1 ELSE w
  OBVIOUS
<1>9. /\ Len(recent.queue) \in Nat /\ Len(recent'.queue) \in Nat
      /\ DOMAIN recent.queue = 1..Len(recent.queue) /\ DOMAIN recent'.queue = 1..Len(recent'.queue)
      /\ recent'.next \in Nat \ {0} /\ recent.next \in Nat
      /\ k[Len(recent'.queue)] \in Nat /\ m[Len(recent.queue)] \in Nat /\ Len(writer.batch) \in Nat
      /\ recent'.dropped = {} <=> k[Len(recent'.queue)] = recent'.next - 1
      /\ k[Len(recent'.queue)] < recent'.next
      /\ w \in Nat /\ w < recent.next /\ recent.next <= recent'.next /\ WriterCapacity \in Nat
      /\ barrier.at # "placed" =>
            Capacity(recent)' = WriterCapacity - Len(recent'.queue)
  <2>1. /\ Len(recent'.queue) \in Nat /\ DOMAIN recent'.queue = 1..Len(recent'.queue)
        /\ k[Len(recent'.queue)] \in Nat
        /\ recent'.dropped = {} <=> k[Len(recent'.queue)] = recent'.next - 1
    BY <1>5, StreamNumbers
  <2>2. recent'.next \in Nat \ {0} /\ k[Len(recent'.queue)] < recent'.next
    BY <1>5 DEF Stream
  <2>3. recent.next <= recent'.next
    BY <1>6 DEF Extends
  <2>4. barrier.at # "placed" => Capacity(recent)' = WriterCapacity - Len(recent'.queue)
    <3>1. barrier.at # "placed" => reserved' = FALSE
      BY <1>1 DEF LogAt, FlushTypes
    <3>2. reserved' = FALSE => Capacity(recent)' = WriterCapacity - Len(recent'.queue) - 0
      BY DEF Capacity
    <3> QED
      BY <2>1, <3>1, <3>2, LogNumbers
  <2> QED
    BY <2>1, <2>2, <2>3, <2>4, LogNumbers
<1>10. Awaited(v)'
  <2>1. v \in Nat /\ v < recent'.next
    BY <1>v, <1>9
  <2>2. /\ barrier.at = "idle" => v = recent'.next - 1
        /\ barrier.at # "idle" => barrier.before = 1..v
    BY <1>v DEF LogAt, Awaited
  <2> QED
    BY <1>1, <2>1, <2>2 DEF Awaited
<1>11. /\ BeforeFirst' <=> BeforeFirst
       /\ First' <=> First
       /\ Between' <=> Between
       /\ Second' <=> Second
       /\ Drained' <=> Drained
  BY <1>1 DEF BeforeFirst, First, Between, Second, Drained
<1>12. /\ Len(recent'.queue) > Len(recent.queue) => recent.next <= k[Len(recent'.queue)]
       /\ Len(recent'.queue) >= Len(recent.queue)
       /\ Len(recent'.queue) = Len(recent.queue)
            => k[Len(recent'.queue)] = m[Len(recent.queue)]
       /\ k[0] = m[0]
  BY <1>6, <1>9 DEF Extends
<1>13. \A b \in DOMAIN recent'.queue : recent'.queue[b] = Barrier =>
          b \in DOMAIN recent.queue /\ recent.queue[b] = Barrier /\ k[b] = m[b]
  BY <1>6, <1>9 DEF Extends
<1>14. InTime(k, v)'
  <2> DEFINE unsaid == k[Len(recent'.queue)] < v
  <2>1. unsaid /\ barrier.at # "idle" =>
            Len(recent'.queue) = Len(recent.queue) /\ m[Len(recent.queue)] < w
    BY <1>v, <1>9, <1>12
  <2>2. barrier.at = "idle" /\ unsaid => Len(recent'.queue) = WriterCapacity
    BY <1>v, <1>7, <1>9
  <2>3. BeforeFirst' /\ unsaid /\ writer'.at = "gather" =>
            Len(writer'.batch) + Len(recent'.queue) >= WriterCapacity
    <3>1. barrier.at # "idle" /\ BeforeFirst /\ unsaid /\ writer.at = "gather" =>
            Len(writer.batch) + Len(recent.queue) >= WriterCapacity
      BY <2>1 DEF LogAt, InTime
    <3>2. barrier.at # "idle" /\ BeforeFirst /\ unsaid /\ writer.at = "gather" =>
            Len(writer.batch) + Len(recent'.queue) >= WriterCapacity
      <4>1. /\ Len(recent.queue) \in Nat /\ Len(recent'.queue) \in Nat /\ WriterCapacity \in Nat
            /\ Len(writer.batch) \in Nat /\ Len(recent'.queue) >= Len(recent.queue)
        BY <1>9, <1>12
      <4>2. Len(writer.batch) + Len(recent.queue) >= WriterCapacity =>
            Len(writer.batch) + Len(recent'.queue) >= WriterCapacity
        BY <4>1, MoreQueued
      <4> HIDE DEF unsaid
      <4> QED
        BY <3>1, <4>2
    <3>3. barrier.at = "idle" /\ unsaid =>
            Len(writer.batch) + Len(recent'.queue) >= WriterCapacity
      <4>1. Len(writer.batch) \in Nat /\ WriterCapacity \in Nat
        BY <1>9
      <4>2. Len(recent'.queue) = WriterCapacity =>
            Len(writer.batch) + Len(recent'.queue) >= WriterCapacity
        BY <4>1, MoreQueued
      <4> HIDE DEF unsaid
      <4> QED
        BY <2>2, <4>2
    <3> QED
      BY <1>1, <1>11, <3>2, <3>3
  <2>4. (BarrierTaken' => BarrierTaken \/ ~First) /\ (BarrierGathered' => writer.ack)
    <3>1. BarrierTaken' => writer.at = "report" /\ writer.batch = <<Barrier>>
      BY <1>1 DEF BarrierTaken
    <3>2. First => BarrierTaken \/ BarrierGathered \/ \E b : BarrierQueued(b)
      BY DEF LogAt, BarrierPlace
    <3>3. writer.at = "report" => ~BarrierGathered
      BY DEF BarrierGathered, LogAt, WriterHolds
    <3> QED
      BY <1>1, <3>1, <3>2, <3>3 DEF BarrierQueued, BarrierGathered
  <2>5. First /\ writer.ack => BarrierGathered
    BY DEF LogAt, BarrierPlace, BarrierTaken, BarrierQueued
  <2>6. First' /\ unsaid =>
            /\ ~BarrierGathered'
            /\ BarrierTaken' => Len(recent'.queue) < WriterCapacity
            /\ \A b \in DOMAIN recent'.queue : recent'.queue[b] = Barrier =>
                /\ b = Len(recent'.queue)
                /\ writer'.at = "gather" => Len(writer'.batch) + b > WriterCapacity
    <3> SUFFICES ASSUME First', unsaid
                 PROVE  /\ ~BarrierGathered'
                        /\ BarrierTaken' => Len(recent'.queue) < WriterCapacity
                        /\ \A b \in DOMAIN recent'.queue : recent'.queue[b] = Barrier =>
                            /\ b = Len(recent'.queue)
                            /\ writer'.at = "gather" => Len(writer'.batch) + b > WriterCapacity
      OBVIOUS
    <3>1. First /\ barrier.at # "idle"
      BY <1>11 DEF First
    <3>2. Len(recent'.queue) = Len(recent.queue) /\ m[Len(recent.queue)] < w
      BY <2>1, <3>1
    <3>3. /\ ~BarrierGathered
          /\ BarrierTaken => Len(recent.queue) < WriterCapacity
          /\ \A b \in DOMAIN recent.queue : recent.queue[b] = Barrier =>
              /\ b = Len(recent.queue)
              /\ writer.at = "gather" => Len(writer.batch) + b > WriterCapacity
      BY <3>1, <3>2 DEF LogAt, InTime
    <3> QED
      BY <1>1, <1>13, <2>4, <2>5, <3>1, <3>2, <3>3
  <2>7. Between' => ~unsaid
    <3>1. Between => w <= m[Len(recent.queue)] /\ barrier.at # "idle"
      BY <1>9 DEF LogAt, InTime, Between
    <3> QED
      BY <1>v, <1>9, <1>11, <2>1, <3>1
  <2>8. Second' =>
            /\ BarrierTaken' \/ BarrierGathered' => v <= k[0]
            /\ \A b \in DOMAIN recent'.queue : recent'.queue[b] = Barrier => v <= k[b]
    <3> SUFFICES ASSUME Second
                 PROVE  /\ BarrierTaken' \/ BarrierGathered' => v <= k[0]
                        /\ \A b \in DOMAIN recent'.queue : recent'.queue[b] = Barrier => v <= k[b]
      BY <1>11
    <3>1. v = w
      BY <1>v DEF Second
    <3>2. BarrierTaken' \/ BarrierGathered' => BarrierTaken \/ BarrierGathered
      <4>1. BarrierTaken' \/ BarrierGathered' => writer.ack \/ writer.batch = <<Barrier>>
        BY <1>1 DEF BarrierTaken, BarrierGathered
      <4>2. BarrierTaken \/ BarrierGathered \/ \E b : BarrierQueued(b)
        BY DEF LogAt, BarrierPlace
      <4> QED
        BY <4>1, <4>2 DEF BarrierQueued
    <3>3. /\ BarrierTaken \/ BarrierGathered => w <= m[0]
          /\ \A b \in DOMAIN recent.queue : recent.queue[b] = Barrier => w <= m[b]
      BY DEF LogAt, InTime
    <3> QED
      BY <1>12, <1>13, <3>1, <3>2, <3>3
  <2>9. Drained' => v <= newest'
    BY <1>v, <1>1, <1>11 DEF LogAt, InTime, Drained
  <2> QED
    BY <2>3, <2>6, <2>7, <2>8, <2>9 DEF InTime
<1>15. WriterHolds' /\ FlushTypes' /\ Published' /\ Links(Unpublished, newest, m[0])'
  BY <1>1, <1>11 DEF LogAt, WriterHolds, FlushTypes, Published, Unpublished
<1> QED
  BY <1>7, <1>8, <1>10, <1>12, <1>14, <1>15 DEF LogInv, LogAt

(* recv: the first of the queue is taken, and a send that waits for a place   *)
(* gets the one it frees.                                                    *)
LEMMA ReceivedStream ==
  ASSUME NEW m, NEW w, LogAt(m, w), Received
  PROVE  \E k :
         /\ Stream(recent, k)' /\ FlushTypes' /\ Awaited(w)'
         /\ Follows(Head(recent.queue), m[0], k[0]) /\ k[0] = m[1] /\ k[0] \in Nat
         /\ Head(recent.queue) \in LogRecords /\ Head(recent.queue) = recent.queue[1]
         /\ Len(recent'.queue) = Len(recent.queue) - 1 /\ Len(recent'.queue) \in Nat
         /\ Len(recent.queue) \in Nat \ {0}
         /\ \A i \in 0..Len(recent'.queue) : k[i] = m[i + 1]
         /\ \A i \in 1..Len(recent'.queue) : recent'.queue[i] = recent.queue[i + 1]
         /\ k[Len(recent'.queue)] = m[Len(recent.queue)]
         /\ DOMAIN recent'.queue = 1..Len(recent'.queue)
<1>1. /\ recent.queue # <<>> /\ recent' = [recent EXCEPT !.queue = Tail(@)]
      /\ \/ barrier.at = "sending" /\ reserved' = TRUE
            /\ barrier' = [barrier EXCEPT !.at = "placed"]
         \/ barrier.at # "sending" /\ UNCHANGED <<reserved, barrier>>
  BY DEF Received
<1>2. /\ recent = [next |-> recent.next, dropped |-> recent.dropped,
                   records |-> recent.records, queue |-> recent.queue]
      /\ recent.next \in Nat \ {0}
      /\ recent.records \in Seq(LogRecords) /\ recent.queue \in Seq(LogRecords)
      /\ Len(recent.records) = recent.next - 1
      /\ \A i \in DOMAIN recent.records : recent.records[i].n = i
      /\ Marks(recent.queue, m)
      /\ m[Len(recent.queue)] < recent.next
      /\ recent.dropped = (m[Len(recent.queue)] + 1)..(recent.next - 1)
      /\ Len(recent.queue) + HeldPlace <= WriterCapacity
  BY DEF LogAt, Stream
<1>3. recent' = [next |-> recent.next, dropped |-> recent.dropped,
                 records |-> recent.records, queue |-> Tail(recent.queue)]
  BY <1>1, <1>2
<1>k. PICK k : k = [i \in 0..(Len(recent.queue) - 1) |-> m[i + 1]]
  OBVIOUS
<1>4. /\ Marks(Tail(recent.queue), k)
      /\ Len(Tail(recent.queue)) = Len(recent.queue) - 1
      /\ \A i \in 0..(Len(recent.queue) - 1) : k[i] = m[i + 1]
      /\ Follows(Head(recent.queue), m[0], m[1])
      /\ \A i \in 1..(Len(recent.queue) - 1) : Tail(recent.queue)[i] = recent.queue[i + 1]
      /\ Head(recent.queue) = recent.queue[1] /\ Head(recent.queue) \in LogRecords
      /\ Tail(recent.queue) \in Seq(LogRecords)
      /\ Len(recent.queue) \in Nat \ {0}
      /\ DOMAIN Tail(recent.queue) = 1..(Len(recent.queue) - 1)
  <2>1. PICK q : q = recent.queue
    OBVIOUS
  <2>2. q \in Seq(LogRecords) /\ Marks(q, m) /\ q # <<>>
    BY <1>1, <1>2, <2>1
  <2>3. LET j == [i \in 0..(Len(q) - 1) |-> m[i + 1]]
        IN  /\ Marks(Tail(q), j) /\ Len(Tail(q)) = Len(q) - 1
            /\ \A i \in 0..(Len(q) - 1) : j[i] = m[i + 1]
            /\ Follows(Head(q), m[0], m[1])
            /\ \A i \in 1..(Len(q) - 1) : Tail(q)[i] = q[i + 1]
            /\ Head(q) = q[1] /\ Head(q) \in LogRecords /\ Tail(q) \in Seq(LogRecords)
            /\ Len(q) \in Nat \ {0} /\ DOMAIN q = 1..Len(q)
            /\ DOMAIN Tail(q) = 1..(Len(q) - 1)
    BY <2>2, MarksTail
  <2> QED
    BY <1>k, <2>1, <2>3
<1>5. PICK len \in Nat \ {0} : len = Len(recent.queue)
  BY <1>4
<1>6. /\ k[0] = m[1] /\ k[len - 1] = m[len] /\ m[1] \in Nat
      /\ recent'.queue = Tail(recent.queue) /\ recent'.next = recent.next
      /\ recent'.dropped = recent.dropped /\ recent'.records = recent.records
      /\ Len(recent'.queue) = len - 1
  <2>1. 0 \in 0..(len - 1) /\ len - 1 \in 0..(len - 1) /\ 0 + 1 = 1 /\ len - 1 + 1 = len
        /\ 1 \in 0..len
    BY <1>5
  <2>2. k[0] = m[1] /\ k[len - 1] = m[len]
    BY <1>4, <1>5, <2>1
  <2>3. m[1] \in Nat
    BY <1>2, <1>5, <2>1 DEF Marks
  <2>4. /\ recent'.queue = Tail(recent.queue) /\ recent'.next = recent.next
        /\ recent'.dropped = recent.dropped /\ recent'.records = recent.records
    BY <1>3
  <2> QED
    BY <1>4, <1>5, <2>2, <2>3, <2>4
<1>7. /\ barrier = [at |-> barrier.at, round |-> barrier.round, before |-> barrier.before]
      /\ reserved = (barrier.at = "placed")
  BY DEF LogAt, FlushTypes
<1>8. /\ barrier'.round = barrier.round /\ barrier'.before = barrier.before
      /\ barrier'.at = IF barrier.at = "sending" THEN "placed" ELSE barrier.at
      /\ barrier' = [at |-> barrier'.at, round |-> barrier'.round, before |-> barrier'.before]
      /\ reserved' = (barrier'.at = "placed")
      /\ barrier.at = "sending" => HeldPlace = 0
      /\ barrier.at # "sending" => HeldPlace' = HeldPlace
      /\ HeldPlace' \in {0, 1} /\ HeldPlace \in {0, 1}
  BY <1>1, <1>7 DEF HeldPlace
<1>9. Len(recent'.queue) + HeldPlace' <= WriterCapacity
  BY <1>2, <1>5, <1>6, <1>8, LogAssumption
<1>10. Stream(recent, k)'
  <2>1. /\ recent' = [next |-> recent'.next, dropped |-> recent'.dropped,
                     records |-> recent'.records, queue |-> recent'.queue]
        /\ recent'.next \in Nat \ {0}
        /\ recent'.records \in Seq(LogRecords) /\ recent'.queue \in Seq(LogRecords)
        /\ Len(recent'.records) = recent'.next - 1
        /\ \A i \in DOMAIN recent'.records : recent'.records[i].n = i
    BY <1>2, <1>3, <1>4, <1>6
  <2>2. /\ Marks(recent'.queue, k)
        /\ k[Len(recent'.queue)] < recent'.next
        /\ recent'.dropped = (k[Len(recent'.queue)] + 1)..(recent'.next - 1)
    BY <1>2, <1>4, <1>5, <1>6
  <2> QED
    BY <1>9, <2>1, <2>2 DEF Stream
<1>11. FlushTypes' /\ Awaited(w)'
  <2>1. FlushTypes'
    BY <1>8 DEF LogAt, FlushTypes, BeforeFirst, First, Between, Second, Drained
  <2>2. Awaited(w)'
    BY <1>6, <1>8 DEF LogAt, Awaited
  <2> QED
    BY <2>1, <2>2
<1>12. /\ Follows(Head(recent.queue), m[0], k[0]) /\ k[0] = m[1] /\ k[0] \in Nat
       /\ Head(recent.queue) \in LogRecords /\ Head(recent.queue) = recent.queue[1]
       /\ Len(recent'.queue) = Len(recent.queue) - 1 /\ Len(recent'.queue) \in Nat
       /\ Len(recent.queue) \in Nat \ {0}
       /\ \A i \in 0..Len(recent'.queue) : k[i] = m[i + 1]
       /\ \A i \in 1..Len(recent'.queue) : recent'.queue[i] = recent.queue[i + 1]
       /\ k[Len(recent'.queue)] = m[Len(recent.queue)]
       /\ DOMAIN recent'.queue = 1..Len(recent'.queue)
  BY <1>4, <1>5, <1>6
<1> QED
  BY <1>10, <1>11, <1>12

(* recv leaves the flush in its phase, with the barrier one place nearer.    *)
LEMMA ReceivedPhase ==
  ASSUME NEW m, NEW w, LogAt(m, w), Received
  PROVE  /\ BeforeFirst' <=> BeforeFirst
         /\ First' <=> First
         /\ Between' <=> Between
         /\ Second' <=> Second
         /\ Drained' <=> Drained
         /\ NoBarrier(recent.queue) => Head(recent.queue) # Barrier /\ NoBarrier(recent'.queue)
         /\ \A b : BarrierQueued(b) =>
              IF b = 1 THEN Head(recent.queue) = Barrier /\ NoBarrier(recent'.queue)
              ELSE /\ Head(recent.queue) # Barrier
                   /\ b - 1 \in DOMAIN recent'.queue /\ recent'.queue[b - 1] = Barrier
                   /\ \A c \in DOMAIN recent'.queue : recent'.queue[c] = Barrier => c = b - 1
<1>1. \/ barrier.at = "sending" /\ barrier' = [barrier EXCEPT !.at = "placed"]
      \/ barrier.at # "sending" /\ barrier' = barrier
  BY DEF Received
<1>2. barrier = [at |-> barrier.at, round |-> barrier.round, before |-> barrier.before]
  BY DEF LogAt, FlushTypes
<1>3. /\ BeforeFirst' <=> BeforeFirst
      /\ First' <=> First
      /\ Between' <=> Between
      /\ Second' <=> Second
      /\ Drained' <=> Drained
  BY <1>1, <1>2 DEF BeforeFirst, First, Between, Second, Drained
<1>4. PICK len \in Nat \ {0} :
        /\ len = Len(recent.queue) /\ DOMAIN recent.queue = 1..len
        /\ Head(recent.queue) = recent.queue[1]
        /\ DOMAIN recent'.queue = 1..(len - 1)
        /\ \A i \in 1..(len - 1) : recent'.queue[i] = recent.queue[i + 1]
  <2>1. DOMAIN recent.queue = 1..Len(recent.queue)
    BY LogNumbers
  <2>2. /\ Head(recent.queue) = recent.queue[1]
        /\ Len(recent'.queue) = Len(recent.queue) - 1
        /\ Len(recent.queue) \in Nat \ {0}
        /\ \A i \in 1..Len(recent'.queue) : recent'.queue[i] = recent.queue[i + 1]
        /\ DOMAIN recent'.queue = 1..Len(recent'.queue)
    BY ReceivedStream
  <2> QED
    BY <2>1, <2>2
<1>5. 1 \in 1..len /\ \A c \in 1..(len - 1) : c + 1 \in 1..len /\ c + 1 # 1
  BY <1>4
<1>6. NoBarrier(recent.queue) => Head(recent.queue) # Barrier /\ NoBarrier(recent'.queue)
  BY <1>4, <1>5 DEF NoBarrier
<1>7. ASSUME NEW b, BarrierQueued(b)
      PROVE  IF b = 1 THEN Head(recent.queue) = Barrier /\ NoBarrier(recent'.queue)
              ELSE /\ Head(recent.queue) # Barrier
                   /\ b - 1 \in DOMAIN recent'.queue /\ recent'.queue[b - 1] = Barrier
                   /\ \A c \in DOMAIN recent'.queue : recent'.queue[c] = Barrier => c = b - 1
  <2>1. b \in 1..len /\ recent.queue[b] = Barrier
        /\ \A c \in 1..len : recent.queue[c] = Barrier => c = b
    BY <1>4, <1>7 DEF BarrierQueued
  <2>2. CASE b = 1
    BY <1>4, <1>5, <2>1, <2>2 DEF NoBarrier
  <2>3. CASE b # 1
    <3>1. b - 1 \in 1..(len - 1) /\ b - 1 + 1 = b /\ 1 \in 1..len
      BY <1>4, <2>1, <2>3
    <3>2. \A c \in 1..(len - 1) : recent'.queue[c] = Barrier => c = b - 1
      BY <1>4, <1>5, <2>1
    <3> QED
      BY <1>4, <2>1, <2>3, <3>1, <3>2
  <2> QED
    BY <2>2, <2>3
<1> QED
  BY <1>3, <1>6, <1>7

(* A batch of one record. *)
LEMMA LinksOne ==
  ASSUME NEW r \in LogRecords, NEW a \in Nat, NEW c \in Nat, Follows(r, a, c)
  PROVE  Links(<<r>>, a, c)
<1>1. Links(<<>>, a, a) /\ <<>> \in Seq(LogRecords) /\ Append(<<>>, r) = <<r>>
  BY LinksEmpty
<1> QED
  BY <1>1, LinksAppend

(* recv: a batch begins. *)
LEMMA TakeFirstKeepsLog ==
  ASSUME NEW m, NEW w, LogAt(m, w), TakeFirst
  PROVE  LogInv'
<1>1. /\ writer.at = "recv" /\ Received /\ UNCHANGED <<told, ordered, newest>>
      /\ writer' = [writer EXCEPT !.at = "report", !.batch = <<Head(recent.queue)>>]
  BY DEF TakeFirst
<1>2. /\ writer = [at |-> writer.at, batch |-> writer.batch, ack |-> writer.ack]
      /\ writer.batch = <<>> /\ writer.ack = FALSE
  BY <1>1 DEF LogAt, WriterHolds
<1>3. PICK k :
         /\ Stream(recent, k)' /\ FlushTypes' /\ Awaited(w)'
         /\ Follows(Head(recent.queue), m[0], k[0]) /\ k[0] = m[1] /\ k[0] \in Nat
         /\ Head(recent.queue) \in LogRecords /\ Head(recent.queue) = recent.queue[1]
         /\ Len(recent'.queue) = Len(recent.queue) - 1 /\ Len(recent'.queue) \in Nat
         /\ Len(recent.queue) \in Nat \ {0}
         /\ \A i \in 0..Len(recent'.queue) : k[i] = m[i + 1]
         /\ \A i \in 1..Len(recent'.queue) : recent'.queue[i] = recent.queue[i + 1]
         /\ k[Len(recent'.queue)] = m[Len(recent.queue)]
         /\ DOMAIN recent'.queue = 1..Len(recent'.queue)
  BY <1>1, ReceivedStream
<1>4. /\ writer'.at = "report" /\ writer'.batch = <<Head(recent.queue)>> /\ writer'.ack = FALSE
      /\ writer' = [at |-> writer'.at, batch |-> writer'.batch, ack |-> writer'.ack]
      /\ Len(writer'.batch) = 1 /\ writer'.batch \in Seq(LogRecords)
  <2>1. /\ writer'.at = "report" /\ writer'.batch = <<Head(recent.queue)>> /\ writer'.ack = FALSE
        /\ writer' = [at |-> writer'.at, batch |-> writer'.batch, ack |-> writer'.ack]
    BY <1>1, <1>2
  <2>2. \A r \in LogRecords : Len(<<r>>) = 1 /\ <<r>> \in Seq(LogRecords)
    OBVIOUS
  <2> QED
    BY <1>3, <2>1, <2>2
<1>5. WriterHolds' /\ Published'
  BY <1>1, <1>4 DEF LogAt, WriterHolds, Published
<1>6. Links(Unpublished, newest, k[0])'
  <2>1. newest = m[0] /\ newest \in Nat
    BY <1>1, LinksEmpty DEF LogAt, Unpublished, Published
  <2>2. Links(<<Head(recent.queue)>>, newest, k[0])
    BY <1>3, <2>1, LinksOne
  <2>3. Unpublished' = <<Head(recent.queue)>>
    BY <1>4 DEF Unpublished
  <2> QED
    BY <1>1, <2>2, <2>3
<1>7. /\ BeforeFirst' <=> BeforeFirst
      /\ First' <=> First
      /\ Between' <=> Between
      /\ Second' <=> Second
      /\ Drained' <=> Drained
      /\ NoBarrier(recent.queue) => Head(recent.queue) # Barrier /\ NoBarrier(recent'.queue)
      /\ \A b : BarrierQueued(b) =>
              IF b = 1 THEN Head(recent.queue) = Barrier /\ NoBarrier(recent'.queue)
              ELSE /\ Head(recent.queue) # Barrier
                   /\ b - 1 \in DOMAIN recent'.queue /\ recent'.queue[b - 1] = Barrier
                   /\ \A c \in DOMAIN recent'.queue : recent'.queue[c] = Barrier => c = b - 1
  BY <1>1, ReceivedPhase
<1>8. writer'.batch = <<Barrier>> <=> Head(recent.queue) = Barrier
  BY <1>4
<1>9. BarrierPlace'
  <2>1. BeforeFirst' \/ Between' \/ Drained' => NoneOnItsWay'
    BY <1>4, <1>7, <1>8 DEF LogAt, BarrierPlace, NoneOnItsWay
  <2>2. First' \/ Second' => \E b : BarrierQueued(b)
    BY <1>1, <1>2, <1>7 DEF LogAt, BarrierPlace, BarrierTaken, BarrierGathered
  <2>3. ASSUME NEW b, BarrierQueued(b)
        PROVE  BarrierTaken' \/ BarrierQueued(b - 1)'
    BY <1>4, <1>7, <1>8, <2>3 DEF BarrierTaken, BarrierQueued
  <2> QED
    BY <2>1, <2>2, <2>3 DEF BarrierPlace
<1>10. PICK len \in Nat \ {0} :
         /\ len = Len(recent.queue) /\ DOMAIN recent.queue = 1..len
         /\ Len(recent'.queue) = len - 1 /\ DOMAIN recent'.queue = 1..(len - 1)
         /\ k[len - 1] = m[len] /\ k[0] = m[1] /\ Head(recent.queue) = recent.queue[1]
         /\ \A b \in 1..(len - 1) : /\ b + 1 \in 1..len /\ recent'.queue[b] = recent.queue[b + 1]
                                    /\ k[b] = m[b + 1]
         /\ len <= WriterCapacity /\ 1 \in 1..len
  <2>1. DOMAIN recent.queue = 1..Len(recent.queue) /\ Len(recent.queue) <= WriterCapacity
    BY LogNumbers
  <2>2. PICK len \in Nat \ {0} : len = Len(recent.queue)
    BY <1>3
  <2>3. Len(recent'.queue) = len - 1 /\ DOMAIN recent'.queue = 1..(len - 1)
    BY <1>3, <2>2
  <2>4. k[len - 1] = m[len]
    BY <1>3, <2>2, <2>3
  <2>5. \A b \in 1..(len - 1) : b + 1 \in 1..len /\ b \in 0..(len - 1)
    OBVIOUS
  <2>6. \A b \in 1..(len - 1) : /\ b + 1 \in 1..len /\ recent'.queue[b] = recent.queue[b + 1]
                                /\ k[b] = m[b + 1]
    BY <1>3, <2>2, <2>3, <2>5
  <2>7. len <= WriterCapacity /\ 1 \in 1..len
    BY <2>1, <2>2
  <2>8. k[0] = m[1] /\ Head(recent.queue) = recent.queue[1]
    BY <1>3, <2>2
  <2> WITNESS len \in Nat \ {0}
  <2> QED
    BY <2>1, <2>2, <2>3, <2>4, <2>6, <2>7, <2>8, Zenon
<1>11. InTime(k, w)'
  <2>1. InTime(m, w)
    BY DEF LogAt
  <2>2. /\ First /\ m[len] < w =>
            \A b \in 1..len : recent.queue[b] = Barrier => b = len
        /\ Between => ~(m[len] < w)
        /\ Second => \A b \in 1..len : recent.queue[b] = Barrier => w <= m[b]
        /\ Drained => w <= newest
    BY <1>10, <2>1 DEF InTime
  <2>3. ~BarrierGathered' /\ (BarrierTaken' => recent.queue[1] = Barrier)
    BY <1>4, <1>8, <1>10 DEF BarrierGathered, BarrierTaken
  <2>4. len - 1 < WriterCapacity
    BY <1>10, LogAssumption
  <2>5. First' /\ k[len - 1] < w =>
            \A b \in 1..(len - 1) : recent'.queue[b] = Barrier => b = len - 1
    BY <1>7, <1>10, <2>2
  <2>6. Second' =>
            /\ BarrierTaken' => w <= k[0]
            /\ \A b \in 1..(len - 1) : recent'.queue[b] = Barrier => w <= k[b]
    BY <1>7, <1>10, <2>2, <2>3
  <2> QED
    BY <1>1, <1>4, <1>7, <1>10, <2>2, <2>3, <2>4, <2>5, <2>6 DEF InTime
<1> QED
  BY <1>3, <1>5, <1>6, <1>9, <1>11 DEF LogInv, LogAt

(* try_recv while a batch is gathered. *)
LEMMA GatherKeepsLog ==
  ASSUME NEW m, NEW w, LogAt(m, w), Gather
  PROVE  LogInv'
<1>1. /\ writer.at = "gather" /\ Received /\ UNCHANGED <<told, ordered, newest>>
      /\ Len(writer.batch) < BatchCapacity
      /\ writer' = IF Head(recent.queue) = Barrier
                   THEN [writer EXCEPT !.at = "publish", !.ack = TRUE]
                   ELSE [writer EXCEPT !.batch = Append(@, Head(recent.queue))]
  BY DEF Gather
<1>2. /\ writer = [at |-> writer.at, batch |-> writer.batch, ack |-> writer.ack]
      /\ writer.batch \in Seq(LogRecords) /\ writer.batch # <<>> /\ NoBarrier(writer.batch)
      /\ writer.ack = FALSE
      /\ Len(writer.batch) \in Nat \ {0} /\ DOMAIN writer.batch = 1..Len(writer.batch)
  <2>1. /\ writer = [at |-> writer.at, batch |-> writer.batch, ack |-> writer.ack]
        /\ writer.batch \in Seq(LogRecords) /\ writer.batch # <<>> /\ NoBarrier(writer.batch)
        /\ writer.ack = FALSE
    BY <1>1 DEF LogAt, WriterHolds
  <2> QED
    BY <2>1, LenProperties, EmptySeq
<1>3. PICK k :
         /\ Stream(recent, k)' /\ FlushTypes' /\ Awaited(w)'
         /\ Follows(Head(recent.queue), m[0], k[0]) /\ k[0] = m[1] /\ k[0] \in Nat
         /\ Head(recent.queue) \in LogRecords /\ Head(recent.queue) = recent.queue[1]
         /\ Len(recent'.queue) = Len(recent.queue) - 1 /\ Len(recent'.queue) \in Nat
         /\ Len(recent.queue) \in Nat \ {0}
         /\ \A i \in 0..Len(recent'.queue) : k[i] = m[i + 1]
         /\ \A i \in 1..Len(recent'.queue) : recent'.queue[i] = recent.queue[i + 1]
         /\ k[Len(recent'.queue)] = m[Len(recent.queue)]
         /\ DOMAIN recent'.queue = 1..Len(recent'.queue)
  BY <1>1, ReceivedStream
<1>4. /\ BeforeFirst' <=> BeforeFirst
      /\ First' <=> First
      /\ Between' <=> Between
      /\ Second' <=> Second
      /\ Drained' <=> Drained
      /\ NoBarrier(recent.queue) => Head(recent.queue) # Barrier /\ NoBarrier(recent'.queue)
      /\ \A b : BarrierQueued(b) =>
              IF b = 1 THEN Head(recent.queue) = Barrier /\ NoBarrier(recent'.queue)
              ELSE /\ Head(recent.queue) # Barrier
                   /\ b - 1 \in DOMAIN recent'.queue /\ recent'.queue[b - 1] = Barrier
                   /\ \A c \in DOMAIN recent'.queue : recent'.queue[c] = Barrier => c = b - 1
  BY <1>1, ReceivedPhase
<1>5. First \/ Second => \E b : BarrierQueued(b)
  BY <1>1, <1>2 DEF LogAt, BarrierPlace, BarrierTaken, BarrierGathered
<1>6. PICK len \in Nat \ {0} :
         /\ len = Len(recent.queue) /\ DOMAIN recent.queue = 1..len
         /\ Len(recent'.queue) = len - 1 /\ DOMAIN recent'.queue = 1..(len - 1)
         /\ k[len - 1] = m[len] /\ k[0] = m[1] /\ Head(recent.queue) = recent.queue[1]
         /\ \A b \in 1..(len - 1) : /\ b + 1 \in 1..len /\ recent'.queue[b] = recent.queue[b + 1]
                                    /\ k[b] = m[b + 1]
         /\ len <= WriterCapacity /\ 1 \in 1..len
  <2>1. DOMAIN recent.queue = 1..Len(recent.queue) /\ Len(recent.queue) <= WriterCapacity
    BY LogNumbers
  <2>2. PICK len \in Nat \ {0} : len = Len(recent.queue)
    BY <1>3
  <2>3. Len(recent'.queue) = len - 1 /\ DOMAIN recent'.queue = 1..(len - 1)
    BY <1>3, <2>2
  <2>4. k[len - 1] = m[len]
    BY <1>3, <2>2, <2>3
  <2>5. \A b \in 1..(len - 1) : b + 1 \in 1..len /\ b \in 0..(len - 1)
    OBVIOUS
  <2>6. \A b \in 1..(len - 1) : /\ b + 1 \in 1..len /\ recent'.queue[b] = recent.queue[b + 1]
                                /\ k[b] = m[b + 1]
    BY <1>3, <2>2, <2>3, <2>5
  <2>7. len <= WriterCapacity /\ 1 \in 1..len
    BY <2>1, <2>2
  <2>8. k[0] = m[1] /\ Head(recent.queue) = recent.queue[1]
    BY <1>3, <2>2
  <2> WITNESS len \in Nat \ {0}
  <2> QED
    BY <2>1, <2>2, <2>3, <2>4, <2>6, <2>7, <2>8, Zenon
<1>7. /\ BeforeFirst /\ m[len] < w => Len(writer.batch) + len >= WriterCapacity
      /\ First /\ m[len] < w =>
            \A b \in 1..len : recent.queue[b] = Barrier =>
                b = len /\ Len(writer.batch) + b > WriterCapacity
      /\ Between => ~(m[len] < w)
      /\ Second => \A b \in 1..len : recent.queue[b] = Barrier => w <= m[b]
      /\ Drained => w <= newest
  <2>1. InTime(m, w)
    BY DEF LogAt
  <2> QED
    BY <1>1, <1>6, <2>1 DEF InTime
<1>8. Links(writer.batch, newest, m[0]) /\ Published'
  BY <1>1 DEF LogAt, Unpublished, Published
<1>9. CASE Head(recent.queue) # Barrier
  <2>1. /\ writer'.at = "gather" /\ writer'.ack = FALSE
        /\ writer'.batch = Append(writer.batch, Head(recent.queue))
        /\ writer' = [at |-> writer'.at, batch |-> writer'.batch, ack |-> writer'.ack]
    BY <1>1, <1>2, <1>9
  <2>2. /\ writer'.batch \in Seq(LogRecords) /\ Len(writer'.batch) = Len(writer.batch) + 1
        /\ DOMAIN writer'.batch = 1..(Len(writer.batch) + 1)
        /\ \A i \in 1..Len(writer.batch) : writer'.batch[i] = writer.batch[i]
        /\ writer'.batch[Len(writer.batch) + 1] = Head(recent.queue)
    BY <1>2, <1>3, <2>1, AppendProperties, LenProperties
  <2>3. NoBarrier(writer'.batch) /\ writer'.batch # <<>> /\ writer'.batch # <<Barrier>>
    <3>1. NoBarrier(writer'.batch)
      BY <1>2, <1>9, <2>2 DEF NoBarrier
    <3>2. writer'.batch # <<Barrier>>
      BY <3>1 DEF NoBarrier
    <3> QED
      BY <1>2, <2>2, <3>1, <3>2
  <2>4. WriterHolds'
    BY <2>1, <2>2, <2>3 DEF WriterHolds
  <2>5. Links(Unpublished, newest, k[0])'
    <3>1. Links(writer'.batch, newest, k[0])
      <4>1. Links(Append(writer.batch, Head(recent.queue)), newest, k[0])
        BY <1>2, <1>3, <1>8, LinksAppend
      <4> QED
        BY <2>1, <4>1
    <3>2. Unpublished' = writer'.batch
      BY <2>1 DEF Unpublished
    <3> QED
      BY <1>1, <3>1, <3>2
  <2>6. BarrierPlace'
    <3>1. BeforeFirst' \/ Between' \/ Drained' => NoneOnItsWay'
      BY <1>4, <2>1, <2>3 DEF LogAt, BarrierPlace, NoneOnItsWay
    <3>2. ASSUME NEW b, BarrierQueued(b) PROVE BarrierQueued(b - 1)'
      BY <1>4, <1>9, <2>1, <2>3, <3>2 DEF BarrierQueued
    <3> QED
      BY <1>4, <1>5, <3>1, <3>2 DEF BarrierPlace
  <2>7. InTime(k, w)'
    <3>1. BeforeFirst' /\ k[len - 1] < w => Len(writer'.batch) + (len - 1) >= WriterCapacity
      <4>1. Len(writer'.batch) + (len - 1) = Len(writer.batch) + len
        BY <1>2, <2>2
      <4> QED
        BY <1>4, <1>6, <1>7, <4>1
    <3>2. First' /\ k[len - 1] < w =>
            \A b \in 1..(len - 1) : recent'.queue[b] = Barrier =>
                b = len - 1 /\ Len(writer'.batch) + b > WriterCapacity
      <4> SUFFICES ASSUME First, k[len - 1] < w, NEW b \in 1..(len - 1), recent'.queue[b] = Barrier
                   PROVE  b = len - 1 /\ Len(writer'.batch) + b > WriterCapacity
        BY <1>4
      <4>1. PICK g \in Nat : g = Len(writer.batch)
        BY <1>2
      <4>2. b + 1 = len /\ g + (b + 1) > WriterCapacity
        BY <1>6, <1>7, <4>1
      <4>3. Len(writer'.batch) = g + 1
        BY <2>2, <4>1
      <4>4. b = len - 1 /\ (g + 1) + b > WriterCapacity
        BY <4>2, LogAssumption
      <4> QED
        BY <4>3, <4>4
    <3>3. Second' => \A b \in 1..(len - 1) : recent'.queue[b] = Barrier => w <= k[b]
      BY <1>4, <1>6, <1>7
    <3>4. ~BarrierGathered' /\ ~BarrierTaken'
      BY <2>1 DEF BarrierGathered, BarrierTaken
    <3> QED
      BY <1>1, <1>4, <1>6, <1>7, <3>1, <3>2, <3>3, <3>4 DEF InTime
  <2> QED
    BY <1>3, <1>8, <2>4, <2>5, <2>6, <2>7 DEF LogInv, LogAt
<1>10. CASE Head(recent.queue) = Barrier
  <2>1. /\ writer'.at = "publish" /\ writer'.ack = TRUE /\ writer'.batch = writer.batch
        /\ writer' = [at |-> writer'.at, batch |-> writer'.batch, ack |-> writer'.ack]
    BY <1>1, <1>2, <1>10
  <2>2. WriterHolds'
    BY <1>2, <2>1 DEF WriterHolds
  <2>3. Links(Unpublished, newest, k[0])'
    <3>1. k[0] = m[0]
      BY <1>3, <1>10 DEF Follows
    <3>2. Unpublished' = writer.batch
      BY <2>1 DEF Unpublished
    <3> QED
      BY <1>1, <1>8, <3>1, <3>2
  <2>4. ~NoBarrier(recent.queue)
    BY <1>6, <1>10 DEF NoBarrier
  <2>5. BarrierPlace'
    <3>1. ~(BeforeFirst \/ Between \/ Drained)
      BY <2>4 DEF LogAt, BarrierPlace, NoneOnItsWay
    <3>2. ASSUME NEW b, BarrierQueued(b) PROVE BarrierGathered'
      BY <1>4, <1>10, <2>1, <3>2 DEF BarrierGathered
    <3> QED
      BY <1>4, <1>5, <3>1, <3>2 DEF BarrierPlace
  <2>6. InTime(k, w)'
    <3>1. ~(First /\ m[len] < w)
      <4> SUFFICES ASSUME First, m[len] < w PROVE FALSE
        OBVIOUS
      <4>1. Len(writer.batch) + 1 > WriterCapacity
        BY <1>6, <1>7, <1>10
      <4> QED
        BY <1>1, <1>2, <4>1, LogAssumption
    <3>2. Second' => w <= k[0] /\ \A b \in 1..(len - 1) : recent'.queue[b] = Barrier => w <= k[b]
      BY <1>4, <1>6, <1>7, <1>10
    <3>3. writer'.at # "gather"
      BY <2>1
    <3> QED
      BY <1>1, <1>4, <1>6, <1>7, <3>1, <3>2, <3>3 DEF InTime
  <2> QED
    BY <1>3, <1>8, <2>2, <2>3, <2>5, <2>6 DEF LogInv, LogAt
<1> QED
  BY <1>9, <1>10

(* A barrier taken is the whole of what the writer has taken.                *)
LEMMA OnlyTheBarrier ==
  ASSUME NEW a, NEW b, Links(<<Barrier>>, a, b)
  PROVE  a = b /\ a \in Nat
<1>1. PICK m : Marks(<<Barrier>>, m) /\ m[0] = a /\ m[Len(<<Barrier>>)] = b
  BY DEF Links
<1>2. Len(<<Barrier>>) = 1 /\ <<Barrier>>[1] = Barrier /\ 1 \in 1..1 /\ 1 - 1 = 0 /\ 0 \in 0..1
  OBVIOUS
<1>3. Follows(Barrier, m[0], m[1]) /\ m[0] \in Nat
  BY <1>1, <1>2 DEF Marks
<1> QED
  BY <1>1, <1>2, <1>3 DEF Follows

(* report_dropped: the records told of only get more; after it nothing is    *)
(* left to report but at a full queue, which it left as it was.              *)
LEMMA ReportTells ==
  ASSUME NEW m, NEW w, LogAt(m, w), recent' = Reported(recent), UNCHANGED reserved
  PROVE  \E k : /\ Stream(recent, k)' /\ Extends(recent, m, recent', k)
                /\ recent.next <= recent'.next /\ k[0] = m[0]
                /\ w <= m[Len(recent.queue)] => w <= k[Len(recent'.queue)]
                /\ ~(w <= k[Len(recent'.queue)]) \/ recent'.next - 1 # k[Len(recent'.queue)] =>
                     /\ recent' = recent /\ Capacity(recent) = 0
                     /\ k[Len(recent'.queue)] = m[Len(recent.queue)]
<1>1. Stream(recent, m)
  BY DEF LogAt
<1>2. PICK k : /\ Stream(Reported(recent), k) /\ Extends(recent, m, Reported(recent), k)
               /\ Reported(recent).dropped # {} => Capacity(recent) = 0 /\ Reported(recent) = recent
  BY <1>1, ReportedExtends
<1>3. Stream(recent, k)'
  BY <1>2 DEF Stream, HeldPlace
<1>4. Extends(recent, m, recent', k)
  BY <1>2
<1>5. /\ Len(recent'.queue) \in Nat /\ k[Len(recent'.queue)] \in Nat
      /\ recent'.dropped = {} <=> k[Len(recent'.queue)] = recent'.next - 1
      /\ recent'.next \in Nat \ {0} /\ k[Len(recent'.queue)] < recent'.next
  BY <1>2, StreamNumbers DEF Stream
<1>6. /\ Len(recent.queue) \in Nat /\ m[Len(recent.queue)] \in Nat
      /\ w \in Nat /\ w < recent.next /\ recent.next \in Nat
  BY LogNumbers
<1>7. recent.next <= recent'.next /\ k[0] = m[0]
  BY <1>4, <1>6 DEF Extends
<1>8. w <= m[Len(recent.queue)] => w <= k[Len(recent'.queue)]
  <2>1. CASE Len(recent'.queue) = Len(recent.queue)
    BY <1>4, <1>6, <2>1 DEF Extends
  <2>2. CASE Len(recent.queue) < Len(recent'.queue)
    <3>1. recent.next <= k[Len(recent'.queue)]
      BY <1>4, <2>2 DEF Extends
    <3> QED
      BY <1>5, <1>6, <3>1
  <2>3. Len(recent.queue) <= Len(recent'.queue)
    BY <1>4 DEF Extends
  <2> QED
    BY <1>5, <1>6, <2>1, <2>2, <2>3
<1>9. ~(w <= k[Len(recent'.queue)]) \/ recent'.next - 1 # k[Len(recent'.queue)] =>
        /\ recent' = recent /\ Capacity(recent) = 0
        /\ k[Len(recent'.queue)] = m[Len(recent.queue)]
  <2> SUFFICES ASSUME ~(w <= k[Len(recent'.queue)]) \/ recent'.next - 1 # k[Len(recent'.queue)]
               PROVE  /\ recent' = recent /\ Capacity(recent) = 0
                      /\ k[Len(recent'.queue)] = m[Len(recent.queue)]
    OBVIOUS
  <2>1. recent'.dropped # {}
    BY <1>5, <1>6, <1>7
  <2>2. recent' = recent /\ Capacity(recent) = 0
    BY <1>2, <2>1
  <2> QED
    BY <1>4, <1>6, <2>2 DEF Extends
<1> QED
  BY <1>3, <1>4, <1>7, <1>8, <1>9

(* report_dropped, then the barrier is answered or a batch is gathered.      *)
LEMMA ReportDroppedKeepsLog ==
  ASSUME NEW m, NEW w, LogAt(m, w), ReportDropped
  PROVE  LogInv'
<1>1. /\ writer.at = "report" /\ recent' = Reported(recent)
      /\ UNCHANGED <<reserved, told, ordered, newest>>
  BY DEF ReportDropped
<1>2. /\ writer = [at |-> writer.at, batch |-> writer.batch, ack |-> writer.ack]
      /\ writer.batch \in Seq(LogRecords) /\ Len(writer.batch) = 1 /\ writer.ack = FALSE
  BY <1>1 DEF LogAt, WriterHolds
<1>3. PICK k : /\ Stream(recent, k)' /\ Extends(recent, m, recent', k)
               /\ recent.next <= recent'.next /\ k[0] = m[0]
               /\ w <= m[Len(recent.queue)] => w <= k[Len(recent'.queue)]
               /\ ~(w <= k[Len(recent'.queue)])
                    \/ recent'.next - 1 # k[Len(recent'.queue)] =>
                    /\ recent' = recent /\ Capacity(recent) = 0
                    /\ k[Len(recent'.queue)] = m[Len(recent.queue)]
  BY <1>1, ReportTells
<1>4. /\ Len(recent.queue) \in Nat /\ DOMAIN recent.queue = 1..Len(recent.queue)
      /\ Capacity(recent) = WriterCapacity - Len(recent.queue) - HeldPlace
      /\ HeldPlace \in {0, 1} /\ (barrier.at # "placed" => HeldPlace = 0)
      /\ m[Len(recent.queue)] \in Nat /\ w \in Nat /\ w < recent.next /\ recent.next \in Nat
      /\ WriterCapacity \in Nat
  BY LogNumbers
<1>5. /\ Len(recent'.queue) \in Nat /\ DOMAIN recent'.queue = 1..Len(recent'.queue)
      /\ recent'.next \in Nat /\ k[Len(recent'.queue)] < recent'.next
      /\ k[Len(recent'.queue)] \in Nat
  <2>1. /\ recent'.queue \in Seq(LogRecords) /\ recent'.next \in Nat
        /\ k[Len(recent'.queue)] < recent'.next /\ Marks(recent'.queue, k)
    BY <1>3 DEF Stream
  <2>2. Len(recent'.queue) \in Nat /\ DOMAIN recent'.queue = 1..Len(recent'.queue)
    BY <2>1, LenProperties
  <2> QED
    BY <2>1, <2>2 DEF Marks
<1>6. Links(writer.batch, newest, m[0]) /\ Published'
  BY <1>1 DEF LogAt, Unpublished, Published
<1>7. NoBarrier(recent.queue) => NoBarrier(recent'.queue)
  BY <1>3, <1>4, <1>5 DEF Extends, NoBarrier
<1>8. CASE writer.batch = <<Barrier>>
  <2>1. /\ barrier' = IF barrier.at = "waiting" THEN [barrier EXCEPT !.at = "acked"] ELSE barrier
        /\ writer' = [writer EXCEPT !.at = "recv", !.batch = <<>>]
    BY <1>8 DEF ReportDropped, Acknowledged
  <2>2. /\ writer'.at = "recv" /\ writer'.batch = <<>> /\ writer'.ack = FALSE
        /\ writer' = [at |-> writer'.at, batch |-> writer'.batch, ack |-> writer'.ack]
    BY <1>2, <2>1
  <2>3. WriterHolds'
    BY <2>2, EmptySeq DEF WriterHolds
  <2>4. newest = m[0] /\ newest \in Nat
    BY <1>6, <1>8, OnlyTheBarrier
  <2>5. Links(Unpublished, newest, k[0])'
    BY <1>1, <1>3, <2>2, <2>4, LinksEmpty DEF Unpublished
  <2>6. ~(BeforeFirst \/ Between \/ Drained) /\ barrier.at # "idle"
    BY <1>8 DEF LogAt, BarrierPlace, NoneOnItsWay, BeforeFirst
  <2>7. First \/ Second => BarrierTaken
    BY <1>2, <1>8 DEF LogAt, BarrierPlace, BarrierGathered, BarrierQueued
  <2>8. barrier = [at |-> barrier.at, round |-> barrier.round, before |-> barrier.before]
        /\ (First \/ Second \/ barrier.at = "timedOut") /\ reserved = (barrier.at = "placed")
    BY <2>6 DEF LogAt, FlushTypes
  <2>9. /\ barrier'.before = barrier.before /\ barrier'.round = barrier.round
        /\ barrier' = [at |-> barrier'.at, round |-> barrier'.round, before |-> barrier'.before]
        /\ barrier'.at = IF barrier.at = "waiting" THEN "acked" ELSE barrier.at
        /\ barrier.at \in {"waiting", "timedOut"}
    BY <2>1, <2>8 DEF First, Second
  <2>10. /\ ~BeforeFirst' /\ ~First' /\ ~Second'
         /\ Between' <=> First
         /\ Drained' <=> Second
    BY <2>8, <2>9 DEF BeforeFirst, First, Between, Second, Drained
  <2>11. FlushTypes'
    BY <1>1, <2>8, <2>9, <2>10 DEF FlushTypes
  <2>12. Awaited(w)'
    BY <1>3, <1>4, <1>5, <2>6, <2>9 DEF LogAt, Awaited
  <2>13. BarrierPlace'
    <3>1. First \/ Second => NoBarrier(recent'.queue)
      BY <1>7, <2>7 DEF BarrierTaken
    <3> QED
      BY <2>2, <2>10, <3>1 DEF BarrierPlace, NoneOnItsWay
  <2>14. InTime(k, w)'
    <3>1. First => w <= k[Len(recent'.queue)]
      <4> SUFFICES ASSUME First, ~(w <= k[Len(recent'.queue)]) PROVE FALSE
        OBVIOUS
      <4>1. Capacity(recent) = 0 /\ ~(w <= m[Len(recent.queue)])
        BY <1>3
      <4>2. Len(recent.queue) = WriterCapacity
        BY <1>4, <4>1 DEF First
      <4>3. Len(recent.queue) < WriterCapacity
        BY <1>4, <2>7, <4>1 DEF LogAt, InTime
      <4> QED
        BY <1>4, <4>2, <4>3
    <3>3. First => ~(k[Len(recent'.queue)] < w)
      BY <1>4, <1>5, <3>1
    <3>2. Second => w <= newest'
      BY <1>1, <2>4, <2>7 DEF LogAt, InTime
    <3> QED
      BY <2>10, <3>2, <3>3 DEF InTime
  <2> QED
    BY <1>3, <1>6, <2>3, <2>5, <2>11, <2>12, <2>13, <2>14 DEF LogInv, LogAt
<1>9. CASE writer.batch # <<Barrier>>
  <2>1. UNCHANGED barrier /\ writer' = [writer EXCEPT !.at = "gather"]
    BY <1>9 DEF ReportDropped
  <2>2. /\ writer'.at = "gather" /\ writer'.batch = writer.batch /\ writer'.ack = FALSE
        /\ writer' = [at |-> writer'.at, batch |-> writer'.batch, ack |-> writer'.ack]
    BY <1>2, <2>1
  <2>3. NoBarrier(writer.batch) /\ writer.batch # <<>>
    <3>1. DOMAIN writer.batch = 1..1 /\ writer.batch = <<writer.batch[1]>>
      BY <1>2, LenProperties
    <3> QED
      BY <1>2, <1>9, <3>1, EmptySeq DEF NoBarrier
  <2>4. WriterHolds'
    BY <1>2, <2>2, <2>3 DEF WriterHolds
  <2>5. Links(Unpublished, newest, k[0])'
    BY <1>1, <1>3, <1>6, <2>2 DEF Unpublished
  <2>6. BarrierPlace'
    BY <1>2, <1>3, <1>9, <2>1, <2>2, PlaceKept
  <2>7. /\ BeforeFirst' <=> BeforeFirst
        /\ First' <=> First
        /\ Between' <=> Between
        /\ Second' <=> Second
        /\ Drained' <=> Drained
    BY <2>1 DEF BeforeFirst, First, Between, Second, Drained
  <2>8. FlushTypes'
    BY <1>1, <2>1, <2>7 DEF LogAt, FlushTypes
  <2>9. PICK v : v = IF barrier.at = "idle" THEN recent'.next - 1 ELSE w
    OBVIOUS
  <2>10. v \in Nat /\ v < recent'.next
    BY <1>3, <1>4, <1>5, <2>9
  <2>11. Awaited(v)'
    <3>1. /\ barrier.at = "idle" => v = recent'.next - 1
          /\ barrier.at # "idle" => barrier.before = 1..v
      BY <2>9 DEF LogAt, Awaited
    <3> QED
      BY <2>1, <2>10, <3>1 DEF Awaited
  <2>12. k[Len(recent'.queue)] < v => /\ recent' = recent /\ Capacity(recent) = 0
                                      /\ k[Len(recent'.queue)] = m[Len(recent.queue)]
    BY <1>3, <1>5, <2>10
  <2>13. InTime(k, v)'
    <3>1. BeforeFirst' /\ k[Len(recent'.queue)] < v =>
            Len(writer'.batch) + Len(recent'.queue) >= WriterCapacity
      <4> SUFFICES ASSUME k[Len(recent'.queue)] < v
                   PROVE  Len(writer'.batch) + Len(recent'.queue) >= WriterCapacity
        OBVIOUS
      <4>1. Len(recent.queue) = WriterCapacity \/ Len(recent.queue) = WriterCapacity - 1
        BY <1>4, <2>12
      <4>2. Len(writer'.batch) = 1 /\ Len(recent'.queue) = Len(recent.queue)
        BY <1>2, <2>2, <2>12
      <4> QED
        BY <1>4, <4>1, <4>2
    <3>2. First' /\ k[Len(recent'.queue)] < v =>
            \A b \in DOMAIN recent'.queue : recent'.queue[b] = Barrier =>
                b = Len(recent'.queue) /\ Len(writer'.batch) + b > WriterCapacity
      <4> SUFFICES ASSUME First, k[Len(recent'.queue)] < v, NEW b \in DOMAIN recent.queue,
                          recent.queue[b] = Barrier
                   PROVE  b = Len(recent.queue) /\ Len(writer.batch) + b > WriterCapacity
        BY <2>2, <2>7, <2>12
      <4>1. v = w /\ m[Len(recent.queue)] < w
        BY <2>9, <2>12 DEF First
      <4>2. b = Len(recent.queue)
        BY <4>1 DEF LogAt, InTime
      <4>3. Len(recent.queue) = WriterCapacity
        BY <1>4, <2>12 DEF First
      <4> QED
        BY <1>2, <1>4, <4>2, <4>3
    <3>3. Between => ~(k[Len(recent'.queue)] < v)
      <4> SUFFICES ASSUME Between PROVE ~(k[Len(recent'.queue)] < v)
        OBVIOUS
      <4>1. v = w /\ w <= m[Len(recent.queue)]
        BY <1>4, <2>9 DEF LogAt, InTime, Between
      <4> QED
        BY <1>3, <1>4, <1>5, <4>1
    <3>4. Second => \A b \in DOMAIN recent'.queue : recent'.queue[b] = Barrier => v <= k[b]
      <4> SUFFICES ASSUME Second, NEW b \in DOMAIN recent'.queue, recent'.queue[b] = Barrier
                   PROVE  v <= k[b]
        OBVIOUS
      <4>1. b \in DOMAIN recent.queue /\ recent.queue[b] = Barrier /\ k[b] = m[b]
        BY <1>3, <1>4, <1>5 DEF Extends
      <4>2. v = w
        BY <2>9 DEF Second
      <4> QED
        BY <4>1, <4>2 DEF LogAt, InTime
    <3>5. Drained => v <= newest'
      BY <1>1, <2>9 DEF LogAt, InTime, Drained
    <3>6. ~BarrierTaken' /\ ~BarrierGathered'
      BY <2>2 DEF BarrierTaken, BarrierGathered
    <3> QED
      BY <2>7, <3>1, <3>2, <3>3, <3>4, <3>5, <3>6 DEF InTime
  <2> QED
    BY <1>3, <1>6, <2>4, <2>5, <2>6, <2>8, <2>11, <2>13 DEF LogInv, LogAt
<1> QED
  BY <1>8, <1>9

(* The batch is full, or no record came in time. *)
LEMMA GatherEndsKeepsLog ==
  ASSUME NEW m, NEW w, LogAt(m, w), GatherEnds
  PROVE  LogInv'
<1>1. /\ writer.at = "gather" /\ UNCHANGED <<recent, barrier, reserved, told, ordered, newest>>
      /\ writer' = [writer EXCEPT !.at = "publish"]
  BY DEF GatherEnds
<1>2. /\ writer = [at |-> writer.at, batch |-> writer.batch, ack |-> writer.ack]
      /\ writer.batch \in Seq(LogRecords) /\ writer.batch # <<>> /\ NoBarrier(writer.batch)
      /\ writer.ack = FALSE
  BY <1>1 DEF LogAt, WriterHolds
<1>3. /\ writer'.at = "publish" /\ writer'.batch = writer.batch /\ writer'.ack = FALSE
      /\ writer' = [at |-> writer'.at, batch |-> writer'.batch, ack |-> writer'.ack]
  BY <1>1, <1>2
<1>4. WriterHolds' /\ Published' /\ FlushTypes' /\ Awaited(w)'
  <2>1. WriterHolds'
    BY <1>2, <1>3 DEF WriterHolds
  <2>2. Published' /\ FlushTypes' /\ Awaited(w)'
    BY <1>1 DEF LogAt, Published, FlushTypes, Awaited, BeforeFirst, First, Between, Second, Drained
  <2> QED
    BY <2>1, <2>2
<1>5. Stream(recent, m)'
  BY <1>1 DEF LogAt, Stream, HeldPlace
<1>6. Links(Unpublished, newest, m[0])'
  BY <1>1, <1>3 DEF LogAt, Unpublished
<1>7. /\ BeforeFirst' <=> BeforeFirst
      /\ First' <=> First
      /\ Between' <=> Between
      /\ Second' <=> Second
      /\ Drained' <=> Drained
  BY <1>1 DEF BeforeFirst, First, Between, Second, Drained
<1>8. /\ ~BarrierTaken' /\ ~BarrierGathered' /\ ~BarrierTaken /\ ~BarrierGathered
      /\ NoneOnItsWay => NoneOnItsWay'
      /\ \A b : BarrierQueued(b) => BarrierQueued(b)'
  BY <1>1, <1>2, <1>3 DEF BarrierTaken, BarrierGathered, BarrierQueued, NoneOnItsWay
<1>9. BarrierPlace'
  BY <1>7, <1>8 DEF LogAt, BarrierPlace
<1>10. InTime(m, w)'
  <2>1. writer'.at # "gather"
    BY <1>3
  <2> QED
    BY <1>1, <1>7, <1>8, <2>1 DEF LogAt, InTime
<1> QED
  BY <1>4, <1>5, <1>6, <1>9, <1>10 DEF LogInv, LogAt

(* A batch told is all numbers from the last published to its own last, in   *)
(* their order.                                                              *)
LEMMA BatchTells ==
  ASSUME NEW s \in Seq(LogRecords), NEW a, NEW b, Links(s, a, b), NoBarrier(s), s # <<>>
  PROVE  /\ a \in Nat /\ b \in Nat /\ a < b /\ Last(s).n = b
         /\ (a + 1)..b \subseteq Covered(s)
         /\ \A i \in DOMAIN s : s[i].n > IF i = 1 THEN a ELSE s[i - 1].n
         /\ \A i \in DOMAIN s : s[i].n <= b /\ s[i].n > a /\ \A k \in s[i].lost : k < s[i].n
         /\ Ascending(s)
<1>1. PICK m : Marks(s, m) /\ m[0] = a /\ m[Len(s)] = b
  BY DEF Links
<1>2. /\ \A i \in DOMAIN s : s[i].n = m[i] /\ m[0] < m[i] /\ m[i] <= m[Len(s)] /\ m[i - 1] < m[i]
      /\ Ascending(s)
      /\ Last(s).n = m[Len(s)] /\ Len(s) \in DOMAIN s /\ Len(s) > 0
  BY <1>1, MarksAscend
<1>3. /\ Len(s) \in Nat /\ DOMAIN s = 1..Len(s)
      /\ \A i \in 0..Len(s) : m[i] \in Nat
  BY <1>1, MarksGrow, LenProperties
<1>4. a \in Nat /\ b \in Nat
  BY <1>1, <1>3
<1>5. (a + 1)..b \subseteq Covered(s)
  BY <1>1, MarksTell
<1>6. ASSUME NEW i \in DOMAIN s PROVE s[i].n > IF i = 1 THEN a ELSE s[i - 1].n
  <2>1. CASE i = 1
    BY <1>1, <1>2, <1>3, <1>6, <2>1
  <2>2. CASE i # 1
    <3>1. i - 1 \in DOMAIN s /\ i - 1 \in 0..Len(s) /\ i \in 0..Len(s)
      BY <1>3, <2>2
    <3> QED
      BY <1>2, <1>3, <2>2, <3>1
  <2> QED
    BY <2>1, <2>2
<1>7. ASSUME NEW i \in DOMAIN s, NEW k \in s[i].lost PROVE k < s[i].n
  <2>1. Follows(s[i], m[i - 1], m[i]) /\ s[i] # Barrier
    BY <1>1, <1>3 DEF Marks, NoBarrier
  <2>2. i - 1 \in 0..Len(s) /\ i \in 0..Len(s)
    BY <1>3
  <2>3. m[i - 1] \in Nat /\ m[i] \in Nat
    BY <1>3, <2>2
  <2>4. s[i].n = m[i] /\ s[i].lost = (m[i - 1] + 1)..(m[i] - 1)
    BY <2>1 DEF Follows
  <2> QED
    BY <1>7, <2>3, <2>4
<1> QED
  BY <1>1, <1>2, <1>4, <1>5, <1>6, <1>7

(* The batch goes to the panel. *)
LEMMA LogPublishKeepsLog ==
  ASSUME NEW m, NEW w, LogAt(m, w), LogPublish
  PROVE  LogInv'
<1>1. /\ writer.at = "publish" /\ UNCHANGED <<recent, barrier, reserved>>
      /\ writer' = [writer EXCEPT !.at = "append"]
      /\ told' = told \cup Covered(writer.batch)
      /\ ordered' = (ordered /\ \A i \in DOMAIN writer.batch :
                        writer.batch[i].n > IF i = 1 THEN newest ELSE writer.batch[i-1].n)
      /\ newest' = Last(writer.batch).n
  BY DEF LogPublish, Covered
<1>2. /\ writer = [at |-> writer.at, batch |-> writer.batch, ack |-> writer.ack]
      /\ writer.batch \in Seq(LogRecords) /\ writer.batch # <<>> /\ NoBarrier(writer.batch)
      /\ writer.ack \in BOOLEAN
  BY <1>1 DEF LogAt, WriterHolds
<1>3. /\ writer'.at = "append" /\ writer'.batch = writer.batch /\ writer'.ack = writer.ack
      /\ writer' = [at |-> writer'.at, batch |-> writer'.batch, ack |-> writer'.ack]
  BY <1>1, <1>2
<1>4. Links(writer.batch, newest, m[0])
  BY <1>1 DEF LogAt, Unpublished
<1>5. /\ newest \in Nat /\ m[0] \in Nat /\ newest < m[0] /\ newest' = m[0]
      /\ (newest + 1)..m[0] \subseteq Covered(writer.batch)
      /\ \A i \in DOMAIN writer.batch :
            writer.batch[i].n > IF i = 1 THEN newest ELSE writer.batch[i - 1].n
  BY <1>1, <1>2, <1>4, BatchTells
<1>6. Published'
  <2>1. 1..newest \subseteq told /\ ordered
    BY DEF LogAt, Published
  <2>2. 1..m[0] \subseteq 1..newest \cup (newest + 1)..m[0]
    BY <1>5
  <2>3. ordered'
    BY <1>1, <1>5, <2>1
  <2>4. 1..newest' \subseteq told'
    BY <1>1, <1>5, <2>1, <2>2
  <2> QED
    BY <1>5, <2>3, <2>4 DEF Published
<1>7. WriterHolds' /\ FlushTypes' /\ Awaited(w)'
  <2>1. WriterHolds'
    BY <1>2, <1>3 DEF WriterHolds
  <2>2. FlushTypes' /\ Awaited(w)'
    BY <1>1 DEF LogAt, FlushTypes, Awaited, BeforeFirst, First, Between, Second, Drained
  <2> QED
    BY <2>1, <2>2
<1>8. Stream(recent, m)'
  BY <1>1 DEF LogAt, Stream, HeldPlace
<1>9. Links(Unpublished, newest, m[0])'
  <2>1. Links(<<>>, newest', m[0])
    BY <1>5, LinksEmpty
  <2>2. Unpublished' = <<>>
    BY <1>3 DEF Unpublished
  <2> QED
    BY <2>1, <2>2
<1>10. /\ BeforeFirst' <=> BeforeFirst
       /\ First' <=> First
       /\ Between' <=> Between
       /\ Second' <=> Second
       /\ Drained' <=> Drained
  BY <1>1 DEF BeforeFirst, First, Between, Second, Drained
<1>11. /\ ~BarrierTaken' /\ ~BarrierTaken
       /\ BarrierGathered' <=> BarrierGathered
       /\ NoneOnItsWay => NoneOnItsWay'
       /\ \A b : BarrierQueued(b) => BarrierQueued(b)'
  BY <1>1, <1>2, <1>3 DEF BarrierTaken, BarrierGathered, BarrierQueued, NoneOnItsWay
<1>12. BarrierPlace'
  BY <1>10, <1>11 DEF LogAt, BarrierPlace
<1>13. InTime(m, w)'
  <2>1. writer'.at # "gather"
    BY <1>3
  <2>2. w \in Nat
    BY DEF LogAt, Awaited
  <2>3. Drained => w <= newest'
    <3>1. Drained => w <= newest
      BY DEF LogAt, InTime
    <3> QED
      BY <1>5, <2>2, <3>1
  <2> QED
    BY <1>1, <1>10, <1>11, <2>1, <2>3 DEF LogAt, InTime
<1> QED
  BY <1>6, <1>7, <1>8, <1>9, <1>12, <1>13 DEF LogInv, LogAt

(* The file has the batch, and the flush it carried is answered. *)
LEMMA AppendedKeepsLog ==
  ASSUME NEW m, NEW w, LogAt(m, w), Appended
  PROVE  LogInv'
<1>1. /\ writer.at = "append" /\ UNCHANGED <<recent, reserved, told, ordered, newest>>
      /\ writer' = [at |-> "recv", batch |-> <<>>, ack |-> FALSE]
      /\ barrier' = IF writer.ack /\ barrier.at = "waiting"
                    THEN [barrier EXCEPT !.at = "acked"] ELSE barrier
  BY DEF Appended, Acknowledged
<1>2. Stream(recent, m)'
  BY <1>1 DEF LogAt, Stream, HeldPlace
<1>3. WriterHolds' /\ Published'
  BY <1>1, EmptySeq DEF LogAt, WriterHolds, Published
<1>4. newest = m[0] /\ newest \in Nat
  BY <1>1, LinksEmpty DEF LogAt, Unpublished
<1>5. Links(Unpublished, newest, m[0])'
  <2>1. Links(<<>>, newest, m[0])
    BY <1>1 DEF LogAt, Unpublished
  <2>2. Unpublished' = <<>>
    BY <1>1 DEF Unpublished
  <2> QED
    BY <1>1, <2>1, <2>2
<1>6. m[Len(recent.queue)] \in Nat /\ w \in Nat
  BY LogNumbers
<1>7. barrier = [at |-> barrier.at, round |-> barrier.round, before |-> barrier.before]
  BY DEF LogAt, FlushTypes
<1>8. CASE writer.ack
  <2>1. ~(BeforeFirst \/ Between \/ Drained)
    BY <1>8 DEF LogAt, BarrierPlace, NoneOnItsWay
  <2>2. First \/ Second => BarrierGathered
    BY <1>8 DEF LogAt, BarrierPlace, BarrierTaken, BarrierQueued
  <2>3. First \/ Second \/ barrier.at = "timedOut"
    BY <2>1 DEF LogAt, FlushTypes
  <2>4. /\ barrier'.before = barrier.before /\ barrier'.round = barrier.round
        /\ barrier' = [at |-> barrier'.at, round |-> barrier'.round, before |-> barrier'.before]
        /\ barrier'.at = IF barrier.at = "waiting" THEN "acked" ELSE barrier.at
        /\ barrier.at \in {"waiting", "timedOut"}
    BY <1>1, <1>7, <1>8, <2>3 DEF First, Second
  <2>5. /\ ~BeforeFirst' /\ ~First' /\ ~Second'
        /\ Between' <=> First
        /\ Drained' <=> Second
    BY <2>3, <2>4 DEF BeforeFirst, First, Between, Second, Drained
  <2>6. FlushTypes' /\ Awaited(w)'
    <3>1. FlushTypes'
      BY <1>1, <2>3, <2>4, <2>5 DEF LogAt, FlushTypes
    <3>2. Awaited(w)'
      BY <1>1, <2>4 DEF LogAt, Awaited
    <3> QED
      BY <3>1, <3>2
  <2>7. BarrierPlace'
    <3>1. First \/ Second => NoBarrier(recent'.queue)
      BY <1>1, <2>2 DEF BarrierGathered
    <3> QED
      BY <1>1, <2>5, <3>1 DEF BarrierPlace, NoneOnItsWay
  <2>8. InTime(m, w)'
    <3>1. First => ~(m[Len(recent'.queue)] < w)
      BY <1>1, <2>2 DEF LogAt, InTime
    <3>2. Second => w <= newest'
      BY <1>1, <1>4, <2>2 DEF LogAt, InTime
    <3> QED
      BY <2>5, <3>1, <3>2 DEF InTime
  <2> QED
    BY <1>2, <1>3, <1>5, <2>6, <2>7, <2>8 DEF LogInv, LogAt
<1>9. CASE ~writer.ack
  <2>1. UNCHANGED barrier
    BY <1>1, <1>9
  <2>2. /\ BeforeFirst' <=> BeforeFirst
        /\ First' <=> First
        /\ Between' <=> Between
        /\ Second' <=> Second
        /\ Drained' <=> Drained
    BY <2>1 DEF BeforeFirst, First, Between, Second, Drained
  <2>3. FlushTypes' /\ Awaited(w)'
    BY <1>1, <2>1, <2>2 DEF LogAt, FlushTypes, Awaited
  <2>4. /\ ~BarrierTaken' /\ ~BarrierTaken /\ ~BarrierGathered /\ ~BarrierGathered'
        /\ NoneOnItsWay => NoneOnItsWay'
        /\ \A b : BarrierQueued(b) => BarrierQueued(b)'
    BY <1>1, <1>9 DEF BarrierTaken, BarrierGathered, BarrierQueued, NoneOnItsWay
  <2>5. BarrierPlace'
    BY <2>2, <2>4 DEF LogAt, BarrierPlace
  <2>6. InTime(m, w)'
    <3>1. writer'.at # "gather"
      BY <1>1
    <3> QED
      BY <1>1, <2>2, <2>4, <3>1 DEF LogAt, InTime
  <2> QED
    BY <1>2, <1>3, <1>5, <2>3, <2>5, <2>6 DEF LogInv, LogAt
<1> QED
  BY <1>8, <1>9

(* A barrier enters at the end of the queue, in its place or a free one.     *)
LEMMA BarrierEnters ==
  ASSUME NEW m, NEW w, LogAt(m, w),
         recent' = [recent EXCEPT !.queue = Append(@, Barrier)],
         Capacity(recent) > 0 \/ barrier.at = "placed",
         reserved' = FALSE, UNCHANGED <<writer, told, ordered, newest>>,
         NEW r, barrier' = [barrier EXCEPT !.at = "waiting", !.round = r],
         barrier.at # "idle",
         (BeforeFirst /\ r = 1) \/ (Between /\ r = 2)
  PROVE  LogInv'
<1>1. /\ recent = [next |-> recent.next, dropped |-> recent.dropped,
                   records |-> recent.records, queue |-> recent.queue]
      /\ recent.next \in Nat \ {0}
      /\ recent.records \in Seq(LogRecords) /\ recent.queue \in Seq(LogRecords)
      /\ Len(recent.records) = recent.next - 1
      /\ \A i \in DOMAIN recent.records : recent.records[i].n = i
      /\ Marks(recent.queue, m)
      /\ m[Len(recent.queue)] < recent.next
      /\ recent.dropped = (m[Len(recent.queue)] + 1)..(recent.next - 1)
      /\ Len(recent.queue) + HeldPlace <= WriterCapacity
  BY DEF LogAt, Stream
<1>2. recent' = [next |-> recent.next, dropped |-> recent.dropped,
                 records |-> recent.records, queue |-> Append(recent.queue, Barrier)]
  BY <1>1
<1>3. /\ Len(recent.queue) \in Nat /\ m[Len(recent.queue)] \in Nat /\ m[0] \in Nat
      /\ Capacity(recent) = WriterCapacity - Len(recent.queue) - HeldPlace
      /\ (barrier.at # "placed" => HeldPlace = 0) /\ (barrier.at = "placed" => HeldPlace = 1)
      /\ w \in Nat /\ WriterCapacity \in Nat /\ DOMAIN recent.queue = 1..Len(recent.queue)
      /\ Len(writer.batch) \in Nat
  <2>1. barrier.at = "placed" => HeldPlace = 1
    BY DEF LogAt, FlushTypes, HeldPlace
  <2> QED
    BY <2>1, LogNumbers
<1>4. PICK k :
        /\ Marks(Append(recent.queue, Barrier), k)
        /\ \A i \in 0..Len(recent.queue) : k[i] = m[i]
        /\ k[Len(recent.queue) + 1] = m[Len(recent.queue)]
  <2>1. Barrier \in LogRecords /\ Follows(Barrier, m[Len(recent.queue)], m[Len(recent.queue)])
    BY DEF Barrier, LogRecords, Follows
  <2>2. PICK q, c : q = recent.queue /\ c = m[Len(recent.queue)]
    OBVIOUS
  <2>3. q \in Seq(LogRecords) /\ Marks(q, m) /\ c \in Nat /\ Follows(Barrier, m[Len(q)], c)
    BY <1>1, <1>3, <2>1, <2>2
  <2>4. LET j == [i \in 0..(Len(q) + 1) |-> IF i <= Len(q) THEN m[i] ELSE c]
        IN  /\ Marks(Append(q, Barrier), j)
            /\ Len(Append(q, Barrier)) = Len(q) + 1
            /\ \A i \in 0..Len(q) : j[i] = m[i]
            /\ j[Len(q) + 1] = c
    BY <2>1, <2>3, MarksAppend
  <2> QED
    BY <2>2, <2>4
<1>5. PICK len \in Nat :
        /\ len = Len(recent.queue) /\ DOMAIN recent.queue = 1..len
        /\ Len(recent'.queue) = len + 1 /\ DOMAIN recent'.queue = 1..(len + 1)
        /\ \A i \in 1..len : recent'.queue[i] = recent.queue[i]
        /\ recent'.queue[len + 1] = Barrier /\ recent'.queue \in Seq(LogRecords)
        /\ k[len + 1] = m[len] /\ k[0] = m[0]
  <2>1. Barrier \in LogRecords
    BY DEF Barrier, LogRecords
  <2>2. recent'.queue = Append(recent.queue, Barrier)
    BY <1>2
  <2>3. /\ Append(recent.queue, Barrier) \in Seq(LogRecords)
        /\ Len(Append(recent.queue, Barrier)) = Len(recent.queue) + 1
        /\ \A i \in 1..Len(recent.queue) : Append(recent.queue, Barrier)[i] = recent.queue[i]
        /\ Append(recent.queue, Barrier)[Len(recent.queue) + 1] = Barrier
    BY <1>1, <2>1, AppendProperties
  <2>4. DOMAIN Append(recent.queue, Barrier) = 1..(Len(recent.queue) + 1)
    BY <2>3, LenProperties
  <2>5. k[0] = m[0]
    BY <1>3, <1>4
  <2> QED
    BY <1>3, <1>4, <2>2, <2>3, <2>4, <2>5
<1>6. Stream(recent, k)'
  <2>1. /\ recent' = [next |-> recent'.next, dropped |-> recent'.dropped,
                     records |-> recent'.records, queue |-> recent'.queue]
        /\ recent'.next = recent.next
        /\ recent'.dropped = recent.dropped /\ recent'.records = recent.records
        /\ Marks(recent'.queue, k)
    BY <1>2, <1>4
  <2>2. Len(recent'.queue) + HeldPlace' <= WriterCapacity
    <3>1. HeldPlace' = 0
      BY DEF HeldPlace
    <3>2. len + 1 <= WriterCapacity
      BY <1>1, <1>3, <1>5
    <3> QED
      BY <1>5, <3>1, <3>2
  <2>3. /\ k[Len(recent'.queue)] < recent'.next
        /\ recent'.dropped = (k[Len(recent'.queue)] + 1)..(recent'.next - 1)
    BY <1>1, <1>5, <2>1
  <2> QED
    BY <1>1, <1>5, <2>1, <2>2, <2>3 DEF Stream
<1>7. barrier = [at |-> barrier.at, round |-> barrier.round, before |-> barrier.before]
  BY DEF LogAt, FlushTypes
<1>8. /\ barrier'.at = "waiting" /\ barrier'.round = r /\ barrier'.before = barrier.before
      /\ barrier' = [at |-> barrier'.at, round |-> barrier'.round, before |-> barrier'.before]
  BY <1>7
<1>9. /\ First' <=> BeforeFirst /\ r = 1
      /\ Second' <=> Between /\ r = 2
      /\ ~BeforeFirst' /\ ~Between' /\ ~Drained'
      /\ First' \/ Second'
  <2>1. BeforeFirst => ~Between
    BY DEF BeforeFirst, Between
  <2> QED
    BY <1>8, <2>1 DEF BeforeFirst, First, Between, Second, Drained
<1>10. FlushTypes' /\ Awaited(w)'
  <2>1. FlushTypes'
    BY <1>8, <1>9 DEF FlushTypes
  <2>2. recent'.next = recent.next
    BY <1>2
  <2>3. Awaited(w)'
    BY <1>8, <2>2 DEF LogAt, Awaited
  <2> QED
    BY <2>1, <2>3
<1>11. WriterHolds' /\ Published' /\ Links(Unpublished, newest, k[0])'
  BY <1>5 DEF LogAt, WriterHolds, Published, Unpublished
<1>12. BarrierQueued(len + 1)'
  <2>1. NoneOnItsWay
    BY DEF LogAt, BarrierPlace
  <2>2. \A c \in 1..len : recent'.queue[c] # Barrier
    BY <1>5, <2>1 DEF NoneOnItsWay, NoBarrier
  <2>3. \A c \in 1..(len + 1) : recent'.queue[c] = Barrier => c = len + 1
    <3>1. \A c \in 1..(len + 1) : c \in 1..len \/ c = len + 1
      OBVIOUS
    <3> QED
      BY <2>2, <3>1
  <2>4. len + 1 \in 1..(len + 1)
    OBVIOUS
  <2> QED
    BY <1>5, <2>1, <2>3, <2>4 DEF NoneOnItsWay, BarrierQueued
<1>13. BarrierPlace'
  BY <1>9, <1>12 DEF BarrierPlace
<1>14. InTime(k, w)'
  <2>1. ~BarrierGathered' /\ ~BarrierTaken'
    BY <1>12 DEF BarrierGathered, BarrierTaken, BarrierQueued, NoBarrier
  <2>2. \A b \in DOMAIN recent'.queue : recent'.queue[b] = Barrier => b = len + 1
    BY <1>12 DEF BarrierQueued
  <2>3. First' /\ k[len + 1] < w /\ writer'.at = "gather" =>
            Len(writer'.batch) + (len + 1) > WriterCapacity
    <3> SUFFICES ASSUME BeforeFirst, m[len] < w, writer.at = "gather"
                 PROVE  Len(writer.batch) + (len + 1) > WriterCapacity
      BY <1>5, <1>9
    <3>1. Len(writer.batch) + len >= WriterCapacity
      BY <1>5 DEF LogAt, InTime
    <3> QED
      BY <1>3, <3>1
  <2>4. Second' => w <= k[len + 1]
    <3>1. Between => ~(m[len] < w)
      BY <1>5 DEF LogAt, InTime
    <3> QED
      BY <1>3, <1>5, <1>9, <3>1
  <2> QED
    BY <1>5, <1>9, <2>1, <2>2, <2>3, <2>4 DEF InTime
<1> QED
  BY <1>6, <1>10, <1>11, <1>13, <1>14 DEF LogInv, LogAt

(* A step of the flush alone, that leaves the barriers where they are. *)
LEMMA FlushGoesOn ==
  ASSUME NEW m, NEW w, LogAt(m, w), UNCHANGED <<recent, writer, told, ordered, newest>>,
         UNCHANGED HeldPlace \/ reserved' = FALSE, FlushTypes', Awaited(w)',
         barrier'.at # "idle" \/ UNCHANGED barrier,
         BeforeFirst' => BeforeFirst, Between' => Between, Drained' => Drained,
         (~First' /\ ~Second') \/ UNCHANGED barrier
  PROVE  LogInv'
<1>1. Stream(recent, m)'
  <2>1. Len(recent'.queue) + HeldPlace' <= WriterCapacity
    <3>1. /\ Len(recent.queue) \in Nat /\ HeldPlace \in {0, 1} /\ WriterCapacity \in Nat
          /\ Capacity(recent) \in Nat
          /\ Capacity(recent) = WriterCapacity - Len(recent.queue) - HeldPlace
      BY LogNumbers
    <3>2. HeldPlace' = HeldPlace \/ HeldPlace' = 0
      BY DEF HeldPlace
    <3> QED
      BY <3>1, <3>2
  <2> QED
    BY <2>1 DEF LogAt, Stream
<1>2. WriterHolds' /\ Published' /\ Links(Unpublished, newest, m[0])'
  BY DEF LogAt, WriterHolds, Published, Unpublished
<1>3. /\ BarrierTaken' <=> BarrierTaken
      /\ BarrierGathered' <=> BarrierGathered
      /\ NoneOnItsWay => NoneOnItsWay'
      /\ \A b : BarrierQueued(b) => BarrierQueued(b)'
  BY DEF BarrierTaken, BarrierGathered, BarrierQueued, NoneOnItsWay
<1>4. (First' => First) /\ (Second' => Second)
  BY DEF First, Second
<1>5. BarrierPlace'
  BY <1>3, <1>4 DEF LogAt, BarrierPlace
<1>6. InTime(m, w)'
  BY <1>3, <1>4 DEF LogAt, InTime
<1> QED
  BY <1>1, <1>2, <1>5, <1>6 DEF LogInv, LogAt

(* flush() *)
LEMMA FlushKeepsLog ==
  ASSUME NEW m, NEW w, LogAt(m, w), Flush
  PROVE  LogInv'
<1>1. UNCHANGED <<writer, reserved, told, ordered, newest>>
  BY DEF Flush, SendBarrier
<1>2. /\ barrier = [at |-> barrier.at, round |-> barrier.round, before |-> barrier.before]
      /\ reserved = (barrier.at = "placed")
      /\ BeforeFirst \/ First \/ Between \/ Second \/ Drained \/ barrier.at = "timedOut"
      /\ barrier.at = "begun" => barrier.round = 1
      /\ barrier.at \in {"idle", "begun", "sending", "placed", "waiting", "acked", "done",
                         "timedOut"}
  BY DEF LogAt, FlushTypes
<1>3. CASE /\ barrier.at = "idle" /\ UNCHANGED recent
           /\ barrier' = [at |-> "begun", round |-> 1, before |-> 1..(recent.next - 1)]
  <2>1. /\ barrier'.at = "begun" /\ barrier'.round = 1
        /\ barrier'.before = 1..(recent.next - 1)
        /\ barrier' = [at |-> barrier'.at, round |-> barrier'.round, before |-> barrier'.before]
    BY <1>3
  <2>2. BeforeFirst /\ BeforeFirst' /\ ~First' /\ ~Between' /\ ~Second' /\ ~Drained'
    BY <1>3, <2>1 DEF BeforeFirst, First, Between, Second, Drained
  <2>3. FlushTypes'
    BY <1>1, <1>2, <1>3, <2>1, <2>2 DEF FlushTypes
  <2>4. Awaited(w)'
    BY <1>3, <2>1 DEF LogAt, Awaited
  <2>5. UNCHANGED HeldPlace
    BY <1>1 DEF HeldPlace
  <2> QED
    BY <1>1, <1>3, <2>1, <2>2, <2>3, <2>4, <2>5, FlushGoesOn
<1>4. CASE SendBarrier("begun", 1)
  <2>1. BeforeFirst /\ barrier.at = "begun" /\ reserved = FALSE
    BY <1>2, <1>4 DEF SendBarrier, BeforeFirst
  <2>2. CASE Capacity(recent) > 0
    <3>1. /\ recent' = [recent EXCEPT !.queue = Append(@, Barrier)]
          /\ barrier' = [barrier EXCEPT !.at = "waiting", !.round = 1]
      BY <1>4, <2>2 DEF SendBarrier
    <3> QED
      BY <1>1, <2>1, <2>2, <3>1, BarrierEnters
  <2>3. CASE ~(Capacity(recent) > 0)
    <3>1. UNCHANGED recent /\ barrier' = [barrier EXCEPT !.at = "sending", !.round = 1]
      BY <1>4, <2>3 DEF SendBarrier
    <3>2. /\ barrier'.at = "sending" /\ barrier'.round = 1 /\ barrier'.before = barrier.before
          /\ barrier' = [at |-> barrier'.at, round |-> barrier'.round, before |-> barrier'.before]
      BY <1>2, <3>1
    <3>3. BeforeFirst' /\ ~First' /\ ~Between' /\ ~Second' /\ ~Drained'
      BY <3>2 DEF BeforeFirst, First, Between, Second, Drained
    <3>4. FlushTypes'
      BY <1>1, <2>1, <3>2, <3>3 DEF FlushTypes
    <3>5. Awaited(w)'
      BY <2>1, <3>1, <3>2 DEF LogAt, Awaited
    <3>6. UNCHANGED HeldPlace
      BY <1>1 DEF HeldPlace
    <3> QED
      BY <1>1, <2>1, <3>1, <3>2, <3>3, <3>4, <3>5, <3>6, FlushGoesOn
  <2> QED
    BY <2>2, <2>3
<1>5. CASE barrier.round = 1 /\ SendBarrier("acked", 2)
  <2>1. Between /\ barrier.at = "acked" /\ reserved = FALSE
    BY <1>2, <1>5 DEF SendBarrier, Between
  <2>2. CASE Capacity(recent) > 0
    <3>1. /\ recent' = [recent EXCEPT !.queue = Append(@, Barrier)]
          /\ barrier' = [barrier EXCEPT !.at = "waiting", !.round = 2]
      BY <1>5, <2>2 DEF SendBarrier
    <3> QED
      BY <1>1, <2>1, <2>2, <3>1, BarrierEnters
  <2>3. CASE ~(Capacity(recent) > 0)
    <3>1. UNCHANGED recent /\ barrier' = [barrier EXCEPT !.at = "sending", !.round = 2]
      BY <1>5, <2>3 DEF SendBarrier
    <3>2. /\ barrier'.at = "sending" /\ barrier'.round = 2 /\ barrier'.before = barrier.before
          /\ barrier' = [at |-> barrier'.at, round |-> barrier'.round, before |-> barrier'.before]
      BY <1>2, <3>1
    <3>3. Between' /\ ~First' /\ ~BeforeFirst' /\ ~Second' /\ ~Drained'
      BY <3>2 DEF BeforeFirst, First, Between, Second, Drained
    <3>4. FlushTypes'
      BY <1>1, <2>1, <3>2, <3>3 DEF FlushTypes
    <3>5. Awaited(w)'
      BY <2>1, <3>1, <3>2 DEF LogAt, Awaited
    <3>6. UNCHANGED HeldPlace
      BY <1>1 DEF HeldPlace
    <3> QED
      BY <1>1, <2>1, <3>1, <3>2, <3>3, <3>4, <3>5, <3>6, FlushGoesOn
  <2> QED
    BY <2>2, <2>3
<1>6. CASE /\ barrier.at = "acked" /\ barrier.round = 2 /\ UNCHANGED recent
           /\ barrier' = [barrier EXCEPT !.at = "done"]
  <2>1. /\ barrier'.at = "done" /\ barrier'.round = 2 /\ barrier'.before = barrier.before
        /\ barrier' = [at |-> barrier'.at, round |-> barrier'.round, before |-> barrier'.before]
    BY <1>2, <1>6
  <2>2. Drained /\ Drained' /\ ~First' /\ ~Between' /\ ~Second' /\ ~BeforeFirst'
    BY <1>6, <2>1 DEF BeforeFirst, First, Between, Second, Drained
  <2>3. FlushTypes'
    BY <1>1, <1>2, <1>6, <2>1, <2>2 DEF FlushTypes
  <2>4. Awaited(w)'
    BY <1>6, <2>1 DEF LogAt, Awaited
  <2>5. UNCHANGED HeldPlace
    BY <1>1 DEF HeldPlace
  <2> QED
    BY <1>1, <1>6, <2>1, <2>2, <2>3, <2>4, <2>5, FlushGoesOn
<1> QED
  BY <1>3, <1>4, <1>5, <1>6 DEF Flush

(* The place is filled. *)
LEMMA FillPlaceKeepsLog ==
  ASSUME NEW m, NEW w, LogAt(m, w), FillPlace
  PROVE  LogInv'
<1>1. /\ barrier.at = "placed" /\ reserved' = FALSE
      /\ recent' = [recent EXCEPT !.queue = Append(@, Barrier)]
      /\ barrier' = [barrier EXCEPT !.at = "waiting"]
      /\ UNCHANGED <<writer, told, ordered, newest>>
  BY DEF FillPlace
<1>2. /\ barrier = [at |-> barrier.at, round |-> barrier.round, before |-> barrier.before]
      /\ BeforeFirst \/ First \/ Between \/ Second \/ Drained \/ barrier.at = "timedOut"
  BY DEF LogAt, FlushTypes
<1>3. (BeforeFirst /\ barrier.round = 1) \/ (Between /\ barrier.round = 2)
  BY <1>1, <1>2 DEF BeforeFirst, First, Between, Second, Drained
<1>4. barrier' = [barrier EXCEPT !.at = "waiting", !.round = barrier.round]
  BY <1>1, <1>2
<1>5. PICK r : r = barrier.round
  OBVIOUS
<1>6. barrier' = [barrier EXCEPT !.at = "waiting", !.round = r]
  BY <1>4, <1>5
<1> QED
  BY <1>1, <1>3, <1>5, <1>6, BarrierEnters

(* The two seconds passed. *)
LEMMA FlushTimesOutKeepsLog ==
  ASSUME NEW m, NEW w, LogAt(m, w), FlushTimesOut
  PROVE  LogInv'
<1>1. /\ barrier.at \in {"sending", "placed", "waiting"} /\ reserved' = FALSE
      /\ barrier' = [barrier EXCEPT !.at = "timedOut"]
      /\ UNCHANGED <<recent, writer, told, ordered, newest>>
  BY DEF FlushTimesOut
<1>2. barrier = [at |-> barrier.at, round |-> barrier.round, before |-> barrier.before]
  BY DEF LogAt, FlushTypes
<1>3. /\ barrier'.at = "timedOut" /\ barrier'.before = barrier.before
      /\ barrier' = [at |-> barrier'.at, round |-> barrier'.round, before |-> barrier'.before]
  BY <1>1, <1>2
<1>4. ~BeforeFirst' /\ ~First' /\ ~Between' /\ ~Second' /\ ~Drained'
  BY <1>3 DEF BeforeFirst, First, Between, Second, Drained
<1>5. FlushTypes'
  BY <1>1, <1>3 DEF FlushTypes
<1>6. Awaited(w)'
  BY <1>1, <1>3 DEF LogAt, Awaited
<1> QED
  BY <1>1, <1>3, <1>4, <1>5, <1>6, FlushGoesOn

(* The panel does not touch the log. *)
LEMMA PanelKeepsLog ==
  ASSUME NEW m, NEW w, LogAt(m, w),
         UNCHANGED <<recent, writer, barrier, reserved, told, ordered, newest>>
  PROVE  LogInv'
<1>1. FlushTypes' /\ Awaited(w)'
  BY DEF LogAt, FlushTypes, Awaited, BeforeFirst, First, Between, Second, Drained
<1>2. UNCHANGED HeldPlace
  BY DEF HeldPlace
<1>3. (BeforeFirst' => BeforeFirst) /\ (Between' => Between) /\ (Drained' => Drained)
  BY DEF BeforeFirst, Between, Drained
<1> QED
  BY <1>1, <1>2, <1>3, FlushGoesOn

(* The log begins with no number told and no flush. *)
LEMMA LogBegins ==
  LogInit => LogInv
<1> SUFFICES ASSUME LogInit PROVE LogInv
  OBVIOUS
<1>1. /\ recent = [next |-> 1, dropped |-> {}, records |-> <<>>, queue |-> <<>>]
      /\ writer = [at |-> "recv", batch |-> <<>>, ack |-> FALSE]
      /\ barrier = [at |-> "idle", round |-> 0, before |-> {}]
      /\ reserved = FALSE /\ told = {} /\ ordered = TRUE /\ newest = 0
  BY DEF LogInit
<1>2. PICK m : Marks(<<>>, m) /\ m[0] = 0 /\ m[Len(<<>>)] = 0
  BY LinksEmpty DEF Links
<1>3. Len(<<>>) = 0 /\ <<>> \in Seq(LogRecords) /\ 1..0 = {} /\ DOMAIN <<>> = {}
  BY EmptySeq
<1>4. Stream(recent, m)
  <2>1. (0 + 1)..(1 - 1) = {}
    OBVIOUS
  <2> QED
    BY <1>1, <1>2, <1>3, <2>1, LogAssumption DEF Stream, HeldPlace
<1>5. BeforeFirst /\ ~First /\ ~Between /\ ~Second /\ ~Drained
  BY <1>1 DEF BeforeFirst, First, Between, Second, Drained
<1>6. WriterHolds /\ FlushTypes /\ Published
  BY <1>1, <1>3, <1>5 DEF WriterHolds, FlushTypes, Published
<1>7. Links(Unpublished, newest, m[0])
  BY <1>1, <1>2, LinksEmpty DEF Unpublished
<1>8. BarrierPlace
  BY <1>1, <1>3, <1>5 DEF BarrierPlace, NoneOnItsWay, NoBarrier
<1>9. Awaited(0)
  BY <1>1 DEF Awaited
<1>10. InTime(m, 0)
  <2>1. writer.at # "gather"
    BY <1>1
  <2> QED
    BY <1>5, <2>1 DEF InTime
<1> QED
  BY <1>4, <1>6, <1>7, <1>8, <1>9, <1>10 DEF LogInv, LogAt

(* Every step keeps the numbers in their order and the flush in time. *)
LEMMA LogStays ==
  LogInv /\ [LogNext]_logVars => LogInv'
<1> SUFFICES ASSUME NEW m, NEW w, LogAt(m, w), [LogNext]_logVars PROVE LogInv'
  BY DEF LogInv
<1>1. CASE UNCHANGED logVars
  BY <1>1, PanelKeepsLog DEF logVars
<1>2. CASE OpenPanel \/ Listen \/ ReadRecent \/ HistoryArrives \/ BatchArrives
             \/ ClearPanel \/ ClosePanel
  BY <1>2, PanelKeepsLog
     DEF OpenPanel, Listen, ReadRecent, HistoryArrives, BatchArrives, ClearPanel, ClosePanel
<1> QED
  BY <1>1, <1>2, PushKeepsLog, TakeFirstKeepsLog, ReportDroppedKeepsLog, GatherKeepsLog,
     GatherEndsKeepsLog, LogPublishKeepsLog, AppendedKeepsLog, FlushKeepsLog,
     FillPlaceKeepsLog, FlushTimesOutKeepsLog DEF LogNext
-----------------------------------------------------------------------------
(* The records of a sequence. *)
LEMMA RecordsOf ==
  ASSUME NEW s \in Seq(LogRecords)
  PROVE  /\ Len(s) \in Nat /\ DOMAIN s = 1..Len(s)
         /\ \A i \in 1..Len(s) : s[i] \in LogRecords /\ s[i].n \in Nat
<1>1. /\ Len(s) \in Nat /\ DOMAIN s = 1..Len(s)
      /\ \A i \in 1..Len(s) : s[i] \in LogRecords
  BY LenProperties
<1>2. \A r \in LogRecords : r.n \in Nat
  BY DEF LogRecords
<1> QED
  BY <1>1, <1>2

\* No entry is numbered past this.
UpTo(s, b) == \A i \in DOMAIN s : s[i].n <= b

(* mergeLogBatch: nothing of the batch, or all of it from its first entry    *)
(* numbered past the last.                                                   *)
LEMMA MergeFrom ==
  ASSUME NEW previous \in Seq(LogRecords), NEW batch \in Seq(LogRecords), NEW after \in Nat
  PROVE  \/ /\ Merge(previous, batch, after) = previous
            /\ \A i \in DOMAIN batch : batch[i].n <= after
         \/ \E f \in DOMAIN batch :
              /\ Merge(previous, batch, after) = previous \o SubSeq(batch, f, Len(batch))
              /\ batch[f].n > after
              /\ \A j \in 1..(f - 1) : batch[j].n <= after
<1>1. /\ Len(batch) \in Nat /\ DOMAIN batch = 1..Len(batch)
      /\ \A i \in DOMAIN batch : batch[i] \in LogRecords /\ batch[i].n \in Nat
  BY RecordsOf
<1> DEFINE Past == {i \in DOMAIN batch : batch[i].n > after}
<1>2. CASE Past = {}
  <2>1. \A i \in DOMAIN batch : ~(batch[i].n > after)
    BY <1>2
  <2>2. Merge(previous, batch, after) = previous
    BY <2>1 DEF Merge
  <2>3. \A i \in DOMAIN batch : batch[i].n <= after
    BY <1>1, <2>1
  <2> QED
    BY <2>2, <2>3
<1>3. CASE Past # {}
  <2>1. Past \in SUBSET Nat
    BY <1>1
  <2>2. PICK x \in Past : \A y \in Past : x <= y
    BY <1>3, <2>1, SmallestNumber
  <2>3. \A j \in 1..(x - 1) : batch[j].n <= after
    BY <1>1, <2>2
  <2> DEFINE P(i) == /\ batch[i].n > after
                     /\ \A j \in 1..(i - 1) : batch[j].n <= after
             f == CHOOSE i \in DOMAIN batch : P(i)
  <2>4. \E i \in DOMAIN batch : P(i)
    BY <2>2, <2>3
  <2>5. f \in DOMAIN batch /\ P(f)
    <3> HIDE DEF P
    <3> QED
      BY <2>4
  <2>6. Merge(previous, batch, after) = previous \o SubSeq(batch, f, Len(batch))
    BY <2>2 DEF Merge
  <2> HIDE DEF f
  <2> QED
    BY <2>5, <2>6
<1> QED
  BY <1>2, <1>3

(* Each entry of a batch merged from its entry f on is there. *)
LEMMA EntryMerged ==
  ASSUME NEW batch, NEW shown, NEW l \in Nat, NEW n \in Nat, NEW f \in 1..n,
         DOMAIN shown = 1..(l + (n - f + 1)),
         \A i \in DOMAIN shown : i \notin 1..l => shown[i] = batch[f + (i - l) - 1],
         NEW i \in f..n
  PROVE  batch[i] \in ToSet(shown)
<1>1. PICK x \in Int : x = l + (i - f + 1)
  <2>1. l + (i - f + 1) \in Int
    OBVIOUS
  <2> QED
    BY <2>1
<1>2. x \in 1..(l + (n - f + 1)) /\ x \notin 1..l /\ f + (x - l) - 1 = i
  <2>1. x >= l + 1 /\ x <= l + (n - f + 1)
    BY <1>1
  <2>2. f + (x - l) - 1 = i
    BY <1>1
  <2> QED
    BY <2>1, <2>2
<1>3. x \in DOMAIN shown /\ shown[x] = batch[f + (x - l) - 1]
  BY <1>2
<1>4. batch[f + (x - l) - 1] = batch[i]
  BY <1>2
<1>5. \E y \in DOMAIN shown : batch[i] = shown[y]
  BY <1>3, <1>4, Zenon
<1> QED
  BY <1>5 DEF ToSet

(* What is shown after a merge: in order, up to the last number it reached,  *)
(* with all that was shown and all of the batch that was not.                *)
LEMMA MergeShows ==
  ASSUME NEW lines \in Seq(LogRecords), NEW batch \in Seq(LogRecords), NEW last \in Nat,
         Ascending(lines), UpTo(lines, last), Ascending(batch),
         NEW shown, shown = Merge(lines, batch, last),
         NEW reached \in Nat, last <= reached, UpTo(batch, reached)
  PROVE  /\ shown \in Seq(LogRecords) /\ Ascending(shown)
         /\ UpTo(shown, reached)
         /\ Covered(lines) \subseteq Covered(shown)
         /\ \A i \in DOMAIN batch : batch[i].n > last => batch[i] \in ToSet(shown)
<1>1. /\ Len(lines) \in Nat /\ DOMAIN lines = 1..Len(lines)
      /\ \A i \in 1..Len(lines) : lines[i].n \in Nat
      /\ Len(batch) \in Nat /\ DOMAIN batch = 1..Len(batch)
      /\ \A i \in 1..Len(batch) : batch[i] \in LogRecords /\ batch[i].n \in Nat
  BY RecordsOf
<1>2. CASE shown = lines /\ \A i \in DOMAIN batch : batch[i].n <= last
  <2>1. \A i \in DOMAIN batch : ~(batch[i].n > last)
    BY <1>1, <1>2
  <2>2. UpTo(lines, reached)
    BY <1>1 DEF UpTo
  <2> QED
    BY <1>2, <2>1, <2>2
<1>3. ASSUME NEW f \in DOMAIN batch, shown = lines \o SubSeq(batch, f, Len(batch)),
             batch[f].n > last, \A j \in 1..(f - 1) : batch[j].n <= last
      PROVE  /\ shown \in Seq(LogRecords) /\ Ascending(shown)
             /\ UpTo(shown, reached)
             /\ Covered(lines) \subseteq Covered(shown)
             /\ \A i \in DOMAIN batch : batch[i].n > last => batch[i] \in ToSet(shown)
  <2>1. PICK l, n, t : l = Len(lines) /\ n = Len(batch) /\ t = SubSeq(batch, f, Len(batch))
    OBVIOUS
  <2>2. l \in Nat /\ n \in Nat /\ f \in 1..n
    BY <1>1, <2>1
  <2>3. /\ t \in Seq(LogRecords) /\ Len(t) = n - f + 1
        /\ \A i \in 1..(n - f + 1) : t[i] = batch[f + i - 1]
    BY <1>1, <2>1, <2>2, SubSeqProperties
  <2>4. /\ shown \in Seq(LogRecords) /\ Len(shown) = l + (n - f + 1)
        /\ \A i \in 1..(l + (n - f + 1)) : shown[i] = IF i <= l THEN lines[i] ELSE t[i - l]
    BY <1>3, <2>1, <2>3, ConcatProperties
  <2>5. DOMAIN shown = 1..(l + (n - f + 1))
    BY <2>4, LenProperties
  <2>6. \A i \in 1..l : i \in DOMAIN shown /\ shown[i] = lines[i]
    BY <2>2, <2>4, <2>5
  <2>8. \A i \in DOMAIN shown : i \notin 1..l =>
            f + (i - l) - 1 \in f..n /\ shown[i] = batch[f + (i - l) - 1]
    <3> SUFFICES ASSUME NEW i \in DOMAIN shown, i \notin 1..l
                 PROVE  f + (i - l) - 1 \in f..n /\ shown[i] = batch[f + (i - l) - 1]
      OBVIOUS
    <3>1. ~(i <= l) /\ i - l \in 1..(n - f + 1) /\ f + (i - l) - 1 \in f..n
          /\ i \in 1..(l + (n - f + 1))
      BY <2>2, <2>5
    <3> QED
      BY <2>3, <2>4, <3>1
  <2>9. \A i \in f..n : i \in 1..n /\ batch[i].n > last /\ batch[i].n \in Nat
    <3> SUFFICES ASSUME NEW i \in f..n PROVE i \in 1..n /\ batch[i].n > last /\ batch[i].n \in Nat
      OBVIOUS
    <3>1. i \in 1..n /\ f \in 1..n /\ (f = i \/ f < i)
      BY <2>2
    <3>2. f = i \/ batch[f].n < batch[i].n
      BY <1>1, <2>1, <3>1 DEF Ascending
    <3>3. batch[i].n \in Nat /\ batch[f].n \in Nat
      BY <1>1, <2>1, <3>1
    <3> QED
      BY <1>3, <3>1, <3>2, <3>3
  <2>10. UpTo(shown, reached)
    <3> SUFFICES ASSUME NEW i \in DOMAIN shown PROVE shown[i].n <= reached
      BY DEF UpTo
    <3>1. CASE i \in 1..l
      BY <1>1, <2>1, <2>6, <3>1 DEF UpTo
    <3>2. CASE i \notin 1..l
      BY <1>1, <2>1, <2>8, <2>9, <3>2 DEF UpTo
    <3> QED
      BY <3>1, <3>2
  <2>11. Ascending(shown)
    <3> SUFFICES ASSUME NEW i \in DOMAIN shown, NEW j \in DOMAIN shown, i < j
                 PROVE  shown[i].n < shown[j].n
      BY DEF Ascending
    <3>1. i \in Nat /\ j \in Nat
      BY <2>2, <2>5
    <3>2. CASE i \in 1..l /\ j \in 1..l
      BY <1>1, <2>1, <2>6, <3>2 DEF Ascending
    <3>3. CASE i \in 1..l /\ j \notin 1..l
      <4>1. shown[i].n <= last /\ shown[i].n \in Nat
        BY <1>1, <2>1, <2>6, <3>3 DEF UpTo
      <4>2. shown[j].n > last /\ shown[j].n \in Nat
        BY <2>8, <2>9, <3>3
      <4> QED
        BY <4>1, <4>2
    <3>4. CASE i \notin 1..l
      <4>1. j \notin 1..l
        BY <2>2, <2>5, <3>1, <3>4
      <4>2. PICK p, q : /\ p = f + (i - l) - 1 /\ q = f + (j - l) - 1
                        /\ p \in f..n /\ q \in f..n /\ shown[i] = batch[p] /\ shown[j] = batch[q]
        BY <2>8, <3>4, <4>1
      <4>3. p < q
        BY <2>2, <3>1, <4>2
      <4>4. p \in DOMAIN batch /\ q \in DOMAIN batch
        BY <1>1, <2>1, <2>9, <4>2
      <4> QED
        BY <4>2, <4>3, <4>4 DEF Ascending
    <3> QED
      BY <3>2, <3>3, <3>4
  <2>12. Covered(lines) \subseteq Covered(shown)
    <3>1. ToSet(lines) \subseteq ToSet(shown)
      <4> SUFFICES ASSUME NEW i \in DOMAIN lines PROVE lines[i] \in ToSet(shown)
        BY DEF ToSet
      <4>1. i \in DOMAIN shown /\ shown[i] = lines[i]
        BY <1>1, <2>1, <2>6
      <4> QED
        BY <4>1 DEF ToSet
    <3> QED
      BY <3>1 DEF Covered
  <2>13. ASSUME NEW i \in DOMAIN batch, batch[i].n > last PROVE batch[i] \in ToSet(shown)
    <3>1. i \in f..n
      <4>1. i \in 1..n /\ batch[i].n \in Nat
        BY <1>1, <2>1
      <4>2. ~(i \in 1..(f - 1))
        BY <1>3, <2>13, <4>1
      <4> QED
        BY <2>2, <4>1, <4>2
    <3>2. \A j \in DOMAIN shown : j \notin 1..l => shown[j] = batch[f + (j - l) - 1]
      BY <2>8
    <3> QED
      BY <2>2, <2>5, <3>1, <3>2, EntryMerged
  <2> QED
    BY <2>4, <2>10, <2>11, <2>12, <2>13
<1> QED
  BY <1>2, <1>3, MergeFrom

(* The whole batch, where it goes on from. *)
LEMMA MergeWhole ==
  ASSUME NEW previous \in Seq(LogRecords), NEW batch \in Seq(LogRecords), NEW after \in Nat,
         NEW a, NEW b, Links(batch, a, b), NoBarrier(batch), batch # <<>>, after <= a
  PROVE  Merge(previous, batch, after) = previous \o batch
<1>1. /\ Len(batch) \in Nat \ {0} /\ DOMAIN batch = 1..Len(batch)
      /\ \A i \in 1..Len(batch) : batch[i].n \in Nat
  BY RecordsOf, EmptySeq
<1>2. a \in Nat /\ \A i \in DOMAIN batch : batch[i].n > a
  BY BatchTells
<1>3. 1 \in DOMAIN batch
  BY <1>1
<1>4. \A i \in DOMAIN batch : ~(batch[i].n <= after)
  BY <1>1, <1>2
<1>5. PICK f \in DOMAIN batch :
        /\ Merge(previous, batch, after) = previous \o SubSeq(batch, f, Len(batch))
        /\ \A j \in 1..(f - 1) : batch[j].n <= after
  BY <1>3, <1>4, MergeFrom
<1>6. f = 1
  <2>1. f # 1 => 1 \in 1..(f - 1)
    BY <1>1, <1>5
  <2> QED
    BY <1>3, <1>4, <1>5, <2>1
<1>7. SubSeq(batch, 1, Len(batch)) = batch
  BY SubSeqFull
<1> QED
  BY <1>5, <1>6, <1>7

\* What was given to the panel, up to a number, is shown or told of by what is.
Displayed(lines, from, to) ==
    /\ lines \in Seq(LogRecords) /\ to \in Nat
    /\ Ascending(lines)
    /\ UpTo(lines, to)
    /\ (from + 1)..to \subseteq Covered(lines)

(* A batch that starts within what is shown leaves nothing out.              *)
LEMMA MergeKeepsUp ==
  ASSUME NEW lines, NEW from \in Nat, NEW last, Displayed(lines, from, last),
         NEW batch \in Seq(LogRecords), NEW a, NEW b, Links(batch, a, b), NoBarrier(batch),
         a <= last
  PROVE  /\ Displayed(Merge(lines, batch, last), from, Later(last, LastSeq(batch, last)))
         /\ b <= Later(last, LastSeq(batch, last))
         /\ b \in Nat
<1>1. lines \in Seq(LogRecords) /\ last \in Nat
  BY DEF Displayed
<1>2. PICK reached, shown : /\ reached = Later(last, LastSeq(batch, last))
                            /\ shown = Merge(lines, batch, last)
  OBVIOUS
<1>3. CASE batch = <<>>
  <2>1. a = b /\ a \in Nat
    BY <1>3, LinksEmpty
  <2>2. reached = last
    BY <1>1, <1>2, <1>3 DEF Later, LastSeq
  <2>3. shown = lines
    BY <1>2, <1>3 DEF Merge
  <2> QED
    BY <1>2, <2>1, <2>2, <2>3
<1>4. CASE batch # <<>>
  <2>1. /\ a \in Nat /\ b \in Nat /\ a < b /\ Last(batch).n = b
        /\ (a + 1)..b \subseteq Covered(batch)
        /\ \A i \in DOMAIN batch : batch[i].n <= b /\ \A k \in batch[i].lost : k < batch[i].n
        /\ Ascending(batch)
    BY <1>4, BatchTells
  <2>2. reached \in Nat /\ last <= reached /\ b <= reached /\ (reached = last \/ reached = b)
    BY <1>1, <1>2, <1>4, <2>1 DEF Later, LastSeq
  <2>3. \A i \in 1..Len(batch) : batch[i].n \in Nat /\ batch[i] \in LogRecords
        /\ DOMAIN batch = 1..Len(batch)
    BY RecordsOf
  <2>4. UpTo(batch, reached)
    BY <2>1, <2>2, <2>3, RecordsOf DEF UpTo
  <2>5. /\ shown \in Seq(LogRecords) /\ Ascending(shown)
        /\ UpTo(shown, reached)
        /\ Covered(lines) \subseteq Covered(shown)
        /\ \A i \in DOMAIN batch : batch[i].n > last => batch[i] \in ToSet(shown)
    <3>1. Ascending(lines) /\ UpTo(lines, last)
      BY DEF Displayed
    <3> QED
      BY <1>1, <1>2, <2>1, <2>2, <2>4, <3>1, MergeShows
  <2>6. ASSUME NEW k \in (from + 1)..reached PROVE k \in Covered(shown)
    <3>1. CASE k <= last
      <4>1. k \in (from + 1)..last
        BY <1>1, <2>2, <2>6, <3>1
      <4> QED
        BY <2>5, <4>1 DEF Displayed
    <3>2. CASE k > last
      <4>1. k \in (a + 1)..b
        BY <1>1, <2>1, <2>2, <2>6, <3>2
      <4>2. PICK i \in DOMAIN batch : k = batch[i].n \/ k \in batch[i].lost
        BY <2>1, <4>1 DEF Covered, ToSet
      <4>3. batch[i].n \in Nat
        BY RecordsOf
      <4>4. k \in Nat /\ (k = batch[i].n \/ k < batch[i].n)
        BY <2>1, <4>1, <4>2
      <4>5. batch[i].n > last
        BY <1>1, <3>2, <4>3, <4>4
      <4>6. batch[i] \in ToSet(shown)
        BY <2>5, <4>5
      <4> QED
        BY <4>2, <4>6 DEF Covered
    <3> QED
      BY <1>1, <2>2, <2>6, <3>1, <3>2
  <2> QED
    BY <1>2, <2>1, <2>2, <2>5, <2>6 DEF Displayed
<1> QED
  BY <1>3, <1>4

\* The history numbers its records from 1.
Numbered(history) == \A i \in DOMAIN history : history[i].n = i

(* The history shows all its numbers past the cleared ones. *)
LEMMA HistoryShows ==
  ASSUME NEW history \in Seq(LogRecords), Numbered(history),
         NEW cleared \in Nat
  PROVE  /\ Displayed(Merge(<<>>, history, cleared), cleared, Later(LastSeq(history, 0), cleared))
         /\ Len(history) <= Later(LastSeq(history, 0), cleared)
         /\ Later(LastSeq(history, 0), cleared) \in Nat
<1>1. PICK len \in Nat : len = Len(history) /\ DOMAIN history = 1..len
  BY RecordsOf
<1>2. PICK reached, shown : /\ reached = Later(LastSeq(history, 0), cleared)
                            /\ shown = Merge(<<>>, history, cleared)
  OBVIOUS
<1>3. LastSeq(history, 0) = len
  <2>1. CASE history = <<>>
    BY <1>1, <2>1, EmptySeq DEF LastSeq
  <2>2. CASE history # <<>>
    <3>1. len \in DOMAIN history
      BY <1>1, <2>2, EmptySeq
    <3> QED
      BY <1>1, <2>2, <3>1 DEF LastSeq, Last, Numbered
  <2> QED
    BY <2>1, <2>2
<1>4. /\ reached \in Nat /\ cleared <= reached /\ len <= reached
      /\ reached = cleared \/ reached = len
  BY <1>1, <1>2, <1>3 DEF Later
<1>5. /\ shown \in Seq(LogRecords) /\ Ascending(shown)
      /\ UpTo(shown, reached)
      /\ \A i \in DOMAIN history : history[i].n > cleared => history[i] \in ToSet(shown)
  <2>1. <<>> \in Seq(LogRecords) /\ Ascending(<<>>) /\ UpTo(<<>>, cleared)
    <3>1. DOMAIN <<>> = {}
      OBVIOUS
    <3> QED
      BY <3>1, EmptySeq DEF Ascending, UpTo
  <2>2. Ascending(history) /\ UpTo(history, reached)
    <3>1. Ascending(history)
      BY Zenon DEF Ascending, Numbered
    <3>2. \A i \in 1..len : i <= reached
      BY <1>1, <1>4
    <3>3. UpTo(history, reached)
      BY <1>1, <3>2 DEF Numbered, UpTo
    <3> QED
      BY <3>1, <3>3
  <2> QED
    BY <1>2, <1>4, <2>1, <2>2, MergeShows
<1>6. ASSUME NEW k \in (cleared + 1)..reached PROVE k \in Covered(shown)
  <2>1. k \in DOMAIN history /\ history[k].n = k /\ k > cleared
    <3>1. k \in 1..len /\ k > cleared
      BY <1>1, <1>4, <1>6
    <3> QED
      BY <1>1, <3>1 DEF Numbered
  <2>2. history[k] \in ToSet(shown)
    BY <1>5, <2>1
  <2> QED
    BY <2>1, <2>2 DEF Covered
<1> QED
  BY <1>1, <1>2, <1>4, <1>5, <1>6 DEF Displayed
-----------------------------------------------------------------------------
\* The batches on their way go on from what the panel was given, to the newest.
Batches == {s \in Seq(LogRecords) : s # <<>> /\ NoBarrier(s)}
EventsFollow(e) ==
    /\ events \in Seq(Batches) /\ newest \in Nat
    /\ e \in [0..Len(events) -> 0..newest]
    /\ e[Len(events)] = newest
    /\ \A i \in 1..Len(events) : Links(events[i], e[i - 1], e[i])

PanelTypes ==
    /\ panel = [at |-> panel.at, pending |-> panel.pending, lines |-> panel.lines,
                last |-> panel.last, cleared |-> panel.cleared, opens |-> panel.opens]
    /\ panel.at \in {"closed", "subscribing", "loading", "following"}
    /\ panel.pending \in Seq(LogRecords) /\ panel.cleared \in Nat
    /\ ~Listening => events = <<>> /\ panel.pending = <<>>
    /\ reply = [at |-> reply.at, history |-> reply.history]
    /\ reply.history \in Seq(LogRecords) /\ Numbered(reply.history)

\* While it loads, what it was given since a number the history reaches.
PanelLoads(given) ==
    \E from \in 0..newest :
        /\ Links(panel.pending, from, given) /\ NoBarrier(panel.pending)
        /\ reply.at = "sent" => from <= Len(reply.history)
\* While it follows, what it was given is shown or told of by what it shows.
PanelFollows(given) ==
    given <= panel.last /\ Displayed(panel.lines, panel.cleared, panel.last)

\* The inductive invariant of the panel.
PanelAt(e) ==
    /\ PanelTypes /\ EventsFollow(e)
    /\ panel.at = "loading" => PanelLoads(e[0])
    /\ panel.at = "following" => PanelFollows(e[0])
PanelInv == \E e : PanelAt(e)

(* The newest number published was pushed. *)
LEMMA NewestWasPushed ==
  ASSUME LogInv
  PROVE  /\ newest \in Nat /\ newest <= Len(recent.records)
         /\ recent.records \in Seq(LogRecords) /\ Numbered(recent.records)
<1>1. PICK m, w : LogAt(m, w)
  BY DEF LogInv
<1>2. /\ m[0] \in Nat /\ m[Len(recent.queue)] \in Nat /\ m[0] <= m[Len(recent.queue)]
      /\ m[Len(recent.queue)] < recent.next
  BY <1>1, LogNumbers
<1>3. /\ recent.next \in Nat \ {0} /\ recent.records \in Seq(LogRecords)
      /\ Len(recent.records) = recent.next - 1 /\ Numbered(recent.records)
  BY <1>1 DEF LogAt, Stream, Numbered
<1>4. newest \in Nat
  BY <1>1 DEF LogAt, Published
<1>5. newest <= m[0]
  <2>1. Unpublished \in Seq(LogRecords)
    BY <1>1, EmptySeq DEF LogAt, WriterHolds, Unpublished
  <2>2. PICK k : Marks(Unpublished, k) /\ k[0] = newest /\ k[Len(Unpublished)] = m[0]
    BY <1>1 DEF LogAt, Links
  <2>3. Len(Unpublished) \in Nat /\ \A i, j \in 0..Len(Unpublished) : i <= j => k[i] <= k[j]
    BY <2>1, <2>2, MarksGrow
  <2>4. k[0] <= k[Len(Unpublished)]
    BY <2>3
  <2> QED
    BY <2>2, <2>4
<1> QED
  BY <1>2, <1>3, <1>4, <1>5

(* What was given to the panel. *)
LEMMA GivenToThePanel ==
  ASSUME NEW e, EventsFollow(e)
  PROVE  e[0] \in 0..newest /\ newest \in Nat /\ (events = <<>> => e[0] = newest)
<1>1. Len(events) \in Nat /\ newest \in Nat /\ e \in [0..Len(events) -> 0..newest]
  BY LenProperties DEF EventsFollow
<1>2. e[0] \in 0..newest
  BY <1>1
<1> QED
  BY <1>1, <1>2 DEF EventsFollow

(* The first of the batches arrives. *)
LEMMA FirstOfTheBatches ==
  ASSUME NEW e, EventsFollow(e), events # <<>>, events' = Tail(events), UNCHANGED newest
  PROVE  \E g : /\ EventsFollow(g)'
                /\ Head(events) \in Batches /\ Links(Head(events), e[0], g[0])
<1>1. /\ events \in Seq(Batches) /\ newest \in Nat
      /\ e \in [0..Len(events) -> 0..newest] /\ e[Len(events)] = newest
      /\ \A i \in 1..Len(events) : Links(events[i], e[i - 1], e[i])
  BY DEF EventsFollow
<1>2. /\ Len(events) \in Nat \ {0} /\ Head(events) = events[1] /\ Head(events) \in Batches
      /\ Tail(events) \in Seq(Batches) /\ Len(Tail(events)) = Len(events) - 1
      /\ \A i \in 1..(Len(events) - 1) : Tail(events)[i] = events[i + 1]
  <2>1. Len(events) \in Nat \ {0}
    BY <1>1, LenProperties, EmptySeq
  <2>2. /\ Head(events) \in Batches /\ Tail(events) \in Seq(Batches)
        /\ Len(Tail(events)) = Len(events) - 1
        /\ \A i \in 1..Len(Tail(events)) : Tail(events)[i] = events[i + 1]
    BY <1>1, HeadTailProperties
  <2> QED
    BY <1>1, <2>1, <2>2
<1>3. PICK len \in Nat \ {0} : len = Len(events)
  BY <1>2
<1>4. PICK g : g = [i \in 0..(len - 1) |-> e[i + 1]]
  OBVIOUS
<1>5. /\ g \in [0..(len - 1) -> 0..newest] /\ g[0] = e[1] /\ g[len - 1] = newest
      /\ \A i \in 0..(len - 1) : g[i] = e[i + 1]
  <2>1. \A i \in 0..(len - 1) : i + 1 \in 0..len /\ g[i] = e[i + 1]
    BY <1>3, <1>4
  <2>2. 0 \in 0..(len - 1) /\ len - 1 \in 0..(len - 1) /\ len - 1 + 1 = len /\ 0 + 1 = 1
    BY <1>3
  <2>3. g[0] = e[1] /\ g[len - 1] = e[len]
    BY <2>1, <2>2
  <2>4. g \in [0..(len - 1) -> 0..newest]
    BY <1>1, <1>3, <1>4, <2>1
  <2> QED
    BY <1>1, <1>3, <2>1, <2>3, <2>4
<1>6. ASSUME NEW i \in 1..(len - 1) PROVE Links(Tail(events)[i], g[i - 1], g[i])
  <2>1. i + 1 \in 1..len /\ i + 1 - 1 = i /\ i - 1 \in 0..(len - 1) /\ i \in 0..(len - 1)
        /\ i - 1 + 1 = i
    BY <1>3
  <2>2. Links(events[i + 1], e[i], e[i + 1])
    BY <1>1, <1>3, <2>1
  <2>3. g[i - 1] = e[i] /\ g[i] = e[i + 1] /\ Tail(events)[i] = events[i + 1]
    BY <1>2, <1>3, <1>5, <2>1
  <2> QED
    BY <2>2, <2>3
<1>7. EventsFollow(g)'
  BY <1>1, <1>2, <1>3, <1>5, <1>6 DEF EventsFollow
<1>8. Links(Head(events), e[0], g[0])
  <2>1. 1 \in 1..len /\ 1 - 1 = 0
    BY <1>3
  <2>2. Links(events[1], e[0], e[1])
    BY <1>1, <1>3, <2>1
  <2> QED
    BY <1>2, <1>5, <2>2
<1> QED
  BY <1>2, <1>7, <1>8

(* One more batch is published to the panel. *)
LEMMA OneMoreBatch ==
  ASSUME NEW e, EventsFollow(e), NEW s \in Batches, NEW b \in Nat, Links(s, newest, b),
         events' = Append(events, s), newest' = b
  PROVE  \E g : EventsFollow(g)' /\ g[0] = e[0] /\ newest <= b
<1>1. /\ events \in Seq(Batches) /\ newest \in Nat
      /\ e \in [0..Len(events) -> 0..newest] /\ e[Len(events)] = newest
      /\ \A i \in 1..Len(events) : Links(events[i], e[i - 1], e[i])
  BY DEF EventsFollow
<1>2. PICK len \in Nat : len = Len(events)
  BY <1>1, LenProperties
<1>3. /\ events' \in Seq(Batches) /\ Len(events') = len + 1
      /\ \A i \in 1..len : events'[i] = events[i]
      /\ events'[len + 1] = s
  BY <1>1, <1>2, AppendProperties
<1>4. newest < b
  BY BatchTells DEF Batches
<1>5. PICK g : g = [i \in 0..(len + 1) |-> IF i <= len THEN e[i] ELSE b]
  OBVIOUS
<1>6. /\ \A i \in 0..len : g[i] = e[i] /\ i \in 0..(len + 1)
      /\ g[len + 1] = b /\ g \in [0..(len + 1) -> 0..b] /\ g[0] = e[0]
  <2>1. \A i \in 0..len : g[i] = e[i] /\ i \in 0..(len + 1)
    BY <1>2, <1>5
  <2>2. g[len + 1] = b /\ 0 \in 0..len
    BY <1>2, <1>5
  <2>3. \A i \in 0..len : e[i] \in 0..b
    <3>1. 0..newest \subseteq 0..b
      BY <1>1, <1>4
    <3> QED
      BY <1>1, <1>2, <3>1
  <2>4. g \in [0..(len + 1) -> 0..b]
    <3>1. \A i \in 0..(len + 1) : g[i] \in 0..b
      <4>1. \A i \in 0..(len + 1) : i \in 0..len \/ i = len + 1
        BY <1>2
      <4>2. b \in 0..b
        OBVIOUS
      <4> QED
        BY <2>1, <2>2, <2>3, <4>1, <4>2
    <3> QED
      BY <1>5, <3>1
  <2> QED
    BY <2>1, <2>2, <2>4
<1>7. ASSUME NEW i \in 1..(len + 1) PROVE Links(events'[i], g[i - 1], g[i])
  <2>1. CASE i \in 1..len
    <3>1. i \in 0..len /\ i - 1 \in 0..len
      BY <1>2, <2>1
    <3>2. g[i - 1] = e[i - 1] /\ g[i] = e[i] /\ events'[i] = events[i]
      BY <1>3, <1>6, <2>1, <3>1
    <3> QED
      BY <1>1, <1>2, <2>1, <3>2
  <2>2. CASE i = len + 1
    <3>1. i - 1 = len /\ len \in 0..len
      BY <1>2, <2>2
    <3>2. g[i - 1] = newest /\ g[i] = b /\ events'[i] = s
      BY <1>1, <1>2, <1>3, <1>6, <2>2, <3>1
    <3> QED
      BY <3>2
  <2>3. i \in 1..len \/ i = len + 1
    BY <1>2
  <2> QED
    BY <2>1, <2>2, <2>3
<1>8. EventsFollow(g)'
  BY <1>3, <1>6, <1>7 DEF EventsFollow
<1> QED
  BY <1>1, <1>4, <1>6, <1>8

(* What is not the panel's does not change it. *)
LEMMA PanelRests ==
  ASSUME PanelInv, UNCHANGED <<newest, events, reply, panel>>
  PROVE  PanelInv'
<1>1. PICK e : PanelAt(e)
  BY DEF PanelInv
<1>2. PanelTypes' /\ EventsFollow(e)'
  BY <1>1 DEF PanelAt, PanelTypes, EventsFollow, Listening
<1>3. /\ (panel.at = "loading" => PanelLoads(e[0]))'
      /\ (panel.at = "following" => PanelFollows(e[0]))'
  BY <1>1 DEF PanelAt, PanelLoads, PanelFollows
<1> QED
  BY <1>2, <1>3 DEF PanelInv, PanelAt

(* The batch goes to a panel that listens. *)
LEMMA LogPublishKeepsPanel ==
  ASSUME LogInv, PanelInv, LogPublish
  PROVE  PanelInv'
<1>1. /\ writer.at = "publish" /\ UNCHANGED <<reply, panel>>
      /\ events' = IF Listening THEN Append(events, writer.batch) ELSE events
      /\ newest' = Last(writer.batch).n
  BY DEF LogPublish
<1>2. PICK e : PanelAt(e)
  BY DEF PanelInv
<1>3. PICK m, w : LogAt(m, w)
  BY DEF LogInv
<1>4. /\ writer.batch \in Batches /\ Links(writer.batch, newest, m[0])
      /\ m[0] \in Nat /\ newest \in Nat /\ newest < m[0] /\ newest' = m[0]
  <2>1. /\ writer.batch \in Seq(LogRecords) /\ writer.batch # <<>> /\ NoBarrier(writer.batch)
        /\ Links(writer.batch, newest, m[0])
    BY <1>1, <1>3 DEF LogAt, WriterHolds, Unpublished
  <2> QED
    BY <1>1, <2>1, BatchTells DEF Batches
<1>5. CASE Listening
  <2>1. PICK g : EventsFollow(g)' /\ g[0] = e[0]
    <3>1. PICK b : b = m[0]
      OBVIOUS
    <3>2. b \in Nat /\ Links(writer.batch, newest, b) /\ newest' = b
      BY <1>4, <3>1
    <3>3. EventsFollow(e) /\ events' = Append(events, writer.batch)
      BY <1>1, <1>2, <1>5 DEF PanelAt
    <3> QED
      BY <1>4, <3>2, <3>3, OneMoreBatch
  <2>2. PanelTypes'
    BY <1>1, <1>2, <1>5 DEF PanelAt, PanelTypes, Listening
  <2>3. panel.at = "loading" => PanelLoads(g[0])'
    <3> SUFFICES ASSUME panel.at = "loading" PROVE PanelLoads(g[0])'
      OBVIOUS
    <3>1. PICK from \in 0..newest :
            /\ Links(panel.pending, from, e[0]) /\ NoBarrier(panel.pending)
            /\ reply.at = "sent" => from <= Len(reply.history)
      BY <1>2 DEF PanelAt, PanelLoads
    <3>2. from \in 0..newest'
      BY <1>4
    <3> QED
      BY <1>1, <2>1, <3>1, <3>2 DEF PanelLoads
  <2>4. panel.at = "following" => PanelFollows(g[0])'
    BY <1>1, <1>2, <2>1 DEF PanelAt, PanelFollows
  <2> QED
    BY <1>1, <2>1, <2>2, <2>3, <2>4 DEF PanelInv, PanelAt
<1>6. CASE ~Listening
  <2>1. events' = <<>> /\ events = <<>>
    BY <1>1, <1>2, <1>6 DEF PanelAt, PanelTypes
  <2>2. PICK g : g = [i \in 0..0 |-> m[0]]
    OBVIOUS
  <2>3. EventsFollow(g)'
    <3>1. g \in [0..0 -> 0..m[0]] /\ g[0] = m[0] /\ Len(<<>>) = 0 /\ <<>> \in Seq(Batches)
          /\ 1..0 = {}
      BY <1>4, <2>2, EmptySeq
    <3> QED
      BY <1>4, <2>1, <3>1 DEF EventsFollow
  <2>4. PanelTypes'
    BY <1>1, <1>2, <1>6, <2>1 DEF PanelAt, PanelTypes, Listening
  <2>5. panel'.at # "loading" /\ panel'.at # "following"
    BY <1>1, <1>6 DEF Listening
  <2> QED
    BY <2>3, <2>4, <2>5 DEF PanelInv, PanelAt
<1> QED
  BY <1>5, <1>6

(* The panel opens and asks for the history. *)
LEMMA OpenKeepsPanel ==
  ASSUME PanelInv, OpenPanel
  PROVE  PanelInv'
<1>1. /\ panel.at = "closed" /\ panel' = [panel EXCEPT !.at = "subscribing", !.opens = @ + 1]
      /\ UNCHANGED <<newest, events, reply>>
  BY DEF OpenPanel
<1>2. PICK e : PanelAt(e)
  BY DEF PanelInv
<1>3. /\ panel = [at |-> panel.at, pending |-> panel.pending, lines |-> panel.lines,
                  last |-> panel.last, cleared |-> panel.cleared, opens |-> panel.opens]
      /\ panel.pending = <<>> /\ events = <<>> /\ panel.cleared \in Nat
  BY <1>1, <1>2 DEF PanelAt, PanelTypes, Listening
<1>4. panel' = [at |-> "subscribing", pending |-> <<>>, lines |-> panel.lines,
                last |-> panel.last, cleared |-> panel.cleared, opens |-> panel.opens + 1]
  BY <1>1, <1>3
<1>5. PanelTypes'
  BY <1>1, <1>2, <1>3, <1>4, EmptySeq DEF PanelAt, PanelTypes
<1>6. EventsFollow(e)'
  BY <1>1, <1>2 DEF PanelAt, EventsFollow
<1> QED
  BY <1>4, <1>5, <1>6 DEF PanelInv, PanelAt

(* The panel listens: what is published from now on waits for the history. *)
LEMMA ListenKeepsPanel ==
  ASSUME PanelInv, Listen
  PROVE  PanelInv'
<1>1. /\ panel.at = "subscribing" /\ panel' = [panel EXCEPT !.at = "loading"]
      /\ reply' = [at |-> "asked", history |-> <<>>]
      /\ UNCHANGED <<newest, events>>
  BY DEF Listen, Asked
<1>2. PICK e : PanelAt(e)
  BY DEF PanelInv
<1>3. /\ panel = [at |-> panel.at, pending |-> panel.pending, lines |-> panel.lines,
                  last |-> panel.last, cleared |-> panel.cleared, opens |-> panel.opens]
      /\ panel.pending = <<>> /\ events = <<>> /\ panel.cleared \in Nat
  BY <1>1, <1>2 DEF PanelAt, PanelTypes, Listening
<1>4. panel' = [at |-> "loading", pending |-> <<>>, lines |-> panel.lines,
                last |-> panel.last, cleared |-> panel.cleared, opens |-> panel.opens]
  BY <1>1, <1>3
<1>5. PanelTypes'
  <2>1. Numbered(<<>>)
    BY DEF Numbered
  <2> QED
    BY <1>1, <1>3, <1>4, <2>1, EmptySeq DEF PanelTypes, Listening
<1>6. EventsFollow(e)'
  BY <1>1, <1>2 DEF PanelAt, EventsFollow
<1>7. PanelLoads(e[0])'
  <2>1. e[0] = newest /\ newest \in Nat
    BY <1>2, <1>3, GivenToThePanel DEF PanelAt
  <2>2. Links(<<>>, newest, e[0]) /\ newest \in 0..newest
    BY <2>1, LinksEmpty
  <2>3. NoBarrier(<<>>)
    BY DEF NoBarrier
  <2>4. panel'.pending = <<>> /\ reply'.at # "sent" /\ newest' = newest
    BY <1>1, <1>4
  <2> QED
    BY <2>2, <2>3, <2>4 DEF PanelLoads
<1> QED
  BY <1>4, <1>5, <1>6, <1>7 DEF PanelInv, PanelAt

(* log_recent answers with the history: all numbers of it published are there. *)
LEMMA ReadRecentKeepsPanel ==
  ASSUME LogInv, PanelInv, ReadRecent
  PROVE  PanelInv'
<1>1. reply' = [at |-> "sent", history |-> recent.records] /\ UNCHANGED <<newest, events, panel>>
  BY DEF ReadRecent
<1>2. PICK e : PanelAt(e)
  BY DEF PanelInv
<1>3. /\ newest \in Nat /\ newest <= Len(recent.records)
      /\ recent.records \in Seq(LogRecords) /\ Numbered(recent.records)
  BY NewestWasPushed
<1>4. PanelTypes'
  BY <1>1, <1>2, <1>3 DEF PanelAt, PanelTypes, Listening
<1>5. EventsFollow(e)'
  BY <1>1, <1>2 DEF PanelAt, EventsFollow
<1>6. panel.at = "loading" => PanelLoads(e[0])'
  <2> SUFFICES ASSUME panel.at = "loading" PROVE PanelLoads(e[0])'
    OBVIOUS
  <2>1. PICK from \in 0..newest : Links(panel.pending, from, e[0]) /\ NoBarrier(panel.pending)
    BY <1>2 DEF PanelAt, PanelLoads
  <2>2. from <= Len(recent.records)
    <3>1. Len(recent.records) \in Nat
      BY <1>3, LenProperties
    <3> QED
      BY <1>3, <3>1
  <2>3. Links(panel'.pending, from, e[0]) /\ NoBarrier(panel'.pending) /\ from \in 0..newest'
        /\ from <= Len(reply'.history)
    BY <1>1, <2>1, <2>2
  <2> QED
    BY <2>3 DEF PanelLoads
<1>7. panel.at = "following" => PanelFollows(e[0])'
  BY <1>1, <1>2 DEF PanelAt, PanelFollows
<1> QED
  BY <1>1, <1>4, <1>5, <1>6, <1>7 DEF PanelInv, PanelAt

(* The history and what came while it was asked for are one. *)
LEMMA HistoryKeepsPanel ==
  ASSUME PanelInv, HistoryArrives
  PROVE  PanelInv'
<1>1. /\ panel.at = "loading" /\ reply.at = "sent"
      /\ panel' = Applied([panel EXCEPT !.at = "following", !.pending = <<>>,
                              !.last = Later(LastSeq(reply.history, 0), panel.cleared),
                              !.lines = Merge(<<>>, reply.history, panel.cleared)],
                          panel.pending)
      /\ reply' = [at |-> "none", history |-> <<>>]
      /\ UNCHANGED <<newest, events>>
  BY DEF HistoryArrives, NoReply
<1>2. PICK e : PanelAt(e)
  BY DEF PanelInv
<1>3. /\ panel = [at |-> panel.at, pending |-> panel.pending, lines |-> panel.lines,
                  last |-> panel.last, cleared |-> panel.cleared, opens |-> panel.opens]
      /\ panel.pending \in Seq(LogRecords) /\ panel.cleared \in Nat
      /\ reply.history \in Seq(LogRecords) /\ Numbered(reply.history)
  BY <1>2 DEF PanelAt, PanelTypes
<1>4. PICK last, lines : /\ last = Later(LastSeq(reply.history, 0), panel.cleared)
                         /\ lines = Merge(<<>>, reply.history, panel.cleared)
  OBVIOUS
<1>5. panel' = [at |-> "following", pending |-> <<>>,
                lines |-> Merge(lines, panel.pending, last),
                last |-> Later(last, LastSeq(panel.pending, last)),
                cleared |-> panel.cleared, opens |-> panel.opens]
  BY <1>1, <1>3, <1>4 DEF Applied
<1>6. Displayed(lines, panel.cleared, last) /\ Len(reply.history) <= last /\ last \in Nat
  BY <1>3, <1>4, HistoryShows
<1>7. PICK from \in 0..newest :
         /\ Links(panel.pending, from, e[0]) /\ NoBarrier(panel.pending)
         /\ from <= Len(reply.history)
  BY <1>1, <1>2 DEF PanelAt, PanelLoads
<1>8. from <= last
  <2>1. newest \in Nat /\ Len(reply.history) \in Nat
    BY <1>2, <1>3, LenProperties DEF PanelAt, EventsFollow
  <2> QED
    BY <1>6, <1>7, <2>1
<1>9. /\ Displayed(Merge(lines, panel.pending, last), panel.cleared,
               Later(last, LastSeq(panel.pending, last)))
      /\ e[0] <= Later(last, LastSeq(panel.pending, last))
  BY <1>3, <1>6, <1>7, <1>8, MergeKeepsUp
<1>10. PanelFollows(e[0])'
  BY <1>5, <1>9 DEF PanelFollows
<1>11. PanelTypes'
  <2>1. Numbered(<<>>)
    BY DEF Numbered
  <2>2. /\ panel' = [at |-> panel'.at, pending |-> panel'.pending, lines |-> panel'.lines,
                     last |-> panel'.last, cleared |-> panel'.cleared, opens |-> panel'.opens]
        /\ panel'.at = "following" /\ panel'.pending = <<>> /\ panel'.cleared = panel.cleared
    BY <1>5
  <2> QED
    BY <1>1, <1>3, <2>1, <2>2, EmptySeq DEF PanelTypes, Listening
<1>12. EventsFollow(e)'
  BY <1>1, <1>2 DEF PanelAt, EventsFollow
<1> QED
  BY <1>5, <1>10, <1>11, <1>12 DEF PanelInv, PanelAt

(* A batch waits for the history, is shown, or makes the panel ask for it.   *)
LEMMA BatchKeepsPanel ==
  ASSUME PanelInv, BatchArrives
  PROVE  PanelInv'
<1>1. Listening /\ events # <<>> /\ events' = Tail(events) /\ UNCHANGED newest
  BY DEF BatchArrives
<1>2. PICK e : PanelAt(e)
  BY DEF PanelInv
<1>3. PICK batch : batch = Head(events)
  OBVIOUS
<1>4. PICK g : /\ EventsFollow(g)'
               /\ batch \in Batches /\ Links(batch, e[0], g[0])
  BY <1>1, <1>2, <1>3, FirstOfTheBatches DEF PanelAt
<1>5. /\ batch \in Seq(LogRecords) /\ batch # <<>> /\ NoBarrier(batch)
      /\ e[0] \in 0..newest /\ newest \in Nat
  BY <1>2, <1>4, GivenToThePanel DEF Batches, PanelAt
<1>6. /\ panel = [at |-> panel.at, pending |-> panel.pending, lines |-> panel.lines,
                  last |-> panel.last, cleared |-> panel.cleared, opens |-> panel.opens]
      /\ panel.pending \in Seq(LogRecords) /\ panel.cleared \in Nat
      /\ reply = [at |-> reply.at, history |-> reply.history]
      /\ reply.history \in Seq(LogRecords) /\ Numbered(reply.history)
  BY <1>2 DEF PanelAt, PanelTypes
<1>7. CASE /\ panel.at = "loading" /\ UNCHANGED reply
           /\ panel' = [panel EXCEPT !.pending = Merge(@, batch, LastSeq(@, 0))]
  <2>1. PICK from \in 0..newest :
          /\ Links(panel.pending, from, e[0]) /\ NoBarrier(panel.pending)
          /\ reply.at = "sent" => from <= Len(reply.history)
    BY <1>2, <1>7 DEF PanelAt, PanelLoads
  <2>2. LastSeq(panel.pending, 0) \in Nat /\ LastSeq(panel.pending, 0) <= e[0]
    <3>1. CASE panel.pending = <<>>
      BY <1>5, <3>1 DEF LastSeq
    <3>2. CASE panel.pending # <<>>
      <4>1. Last(panel.pending).n = e[0]
        BY <1>6, <2>1, <3>2, BatchTells
      <4> QED
        BY <1>5, <3>2, <4>1 DEF LastSeq
    <3> QED
      BY <3>1, <3>2
  <2>3. Merge(panel.pending, batch, LastSeq(panel.pending, 0)) = panel.pending \o batch
    BY <1>4, <1>5, <1>6, <2>2, MergeWhole
  <2>4. panel' = [at |-> "loading", pending |-> panel.pending \o batch, lines |-> panel.lines,
                  last |-> panel.last, cleared |-> panel.cleared, opens |-> panel.opens]
    BY <1>6, <1>7, <2>3
  <2>5. /\ panel.pending \o batch \in Seq(LogRecords)
        /\ Links(panel.pending \o batch, from, g[0])
    BY <1>4, <1>5, <1>6, <2>1, ConcatProperties, LinksConcat
  <2>6. NoBarrier(panel.pending \o batch)
    <3>1. /\ Len(panel.pending) \in Nat /\ DOMAIN panel.pending = 1..Len(panel.pending)
          /\ Len(batch) \in Nat /\ DOMAIN batch = 1..Len(batch)
          /\ DOMAIN (panel.pending \o batch) = 1..(Len(panel.pending) + Len(batch))
          /\ \A i \in 1..(Len(panel.pending) + Len(batch)) :
                (panel.pending \o batch)[i] = IF i <= Len(panel.pending) THEN panel.pending[i]
                                              ELSE batch[i - Len(panel.pending)]
      BY <1>5, <1>6, <2>5, ConcatProperties, LenProperties
    <3>2. ASSUME NEW i \in 1..(Len(panel.pending) + Len(batch))
          PROVE  (panel.pending \o batch)[i] # Barrier
      <4>1. CASE i <= Len(panel.pending)
        BY <2>1, <3>1, <4>1 DEF NoBarrier
      <4>2. CASE ~(i <= Len(panel.pending))
        <5>1. i - Len(panel.pending) \in 1..Len(batch)
          BY <3>1, <4>2
        <5> QED
          BY <1>5, <3>1, <4>2, <5>1 DEF NoBarrier
      <4> QED
        BY <4>1, <4>2
    <3> QED
      BY <3>1, <3>2 DEF NoBarrier
  <2>7. PanelLoads(g[0])'
    <3>1. panel'.pending = panel.pending \o batch /\ reply' = reply /\ newest' = newest
      BY <1>1, <1>7, <2>4
    <3>2. /\ Links(panel'.pending, from, g[0]) /\ NoBarrier(panel'.pending)
          /\ from \in 0..newest'
          /\ reply'.at = "sent" => from <= Len(reply'.history)
      BY <2>1, <2>5, <2>6, <3>1
    <3> QED
      BY <3>2 DEF PanelLoads
  <2>8. PanelTypes'
    <3>1. /\ panel' = [at |-> panel'.at, pending |-> panel'.pending, lines |-> panel'.lines,
                       last |-> panel'.last, cleared |-> panel'.cleared, opens |-> panel'.opens]
          /\ panel'.at = "loading" /\ panel'.pending = panel.pending \o batch
          /\ panel'.cleared = panel.cleared
      BY <2>4
    <3> QED
      BY <1>6, <1>7, <2>5, <3>1 DEF PanelTypes, Listening
  <2> QED
    BY <1>4, <2>4, <2>7, <2>8 DEF PanelInv, PanelAt
<1>8. CASE /\ panel.at = "following" /\ reply' = [at |-> "asked", history |-> <<>>]
           /\ panel' = [panel EXCEPT !.at = "loading", !.pending = batch]
  <2>1. panel' = [at |-> "loading", pending |-> batch, lines |-> panel.lines,
                  last |-> panel.last, cleared |-> panel.cleared, opens |-> panel.opens]
    BY <1>6, <1>8
  <2>2. PanelLoads(g[0])'
    BY <1>1, <1>4, <1>5, <1>8, <2>1 DEF PanelLoads
  <2>3. PanelTypes'
    <3>1. Numbered(<<>>)
      BY DEF Numbered
    <3> QED
      BY <1>5, <1>6, <1>8, <2>1, <3>1, EmptySeq DEF PanelTypes, Listening
  <2> QED
    BY <1>4, <2>1, <2>2, <2>3 DEF PanelInv, PanelAt
<1>9. CASE panel.at = "following" /\ UNCHANGED reply /\ panel' = Applied(panel, batch)
  <2>1. panel' = [at |-> "following", pending |-> panel.pending,
                  lines |-> Merge(panel.lines, batch, panel.last),
                  last |-> Later(panel.last, LastSeq(batch, panel.last)),
                  cleared |-> panel.cleared, opens |-> panel.opens]
    BY <1>6, <1>9 DEF Applied
  <2>2. e[0] <= panel.last /\ Displayed(panel.lines, panel.cleared, panel.last)
    BY <1>2, <1>9 DEF PanelAt, PanelFollows
  <2>3. /\ Displayed(Merge(panel.lines, batch, panel.last), panel.cleared,
                 Later(panel.last, LastSeq(batch, panel.last)))
        /\ g[0] <= Later(panel.last, LastSeq(batch, panel.last))
    BY <1>4, <1>5, <1>6, <2>2, MergeKeepsUp
  <2>4. PanelFollows(g[0])'
    BY <2>1, <2>3 DEF PanelFollows
  <2>5. PanelTypes'
    BY <1>6, <1>9, <2>1 DEF PanelTypes, Listening
  <2> QED
    BY <1>4, <2>1, <2>4, <2>5 DEF PanelInv, PanelAt
<1> QED
  BY <1>3, <1>7, <1>8, <1>9 DEF BatchArrives, Asked

(* The user clears the panel, or closes it. *)
LEMMA ClearKeepsPanel ==
  ASSUME PanelInv, ClearPanel
  PROVE  PanelInv'
<1>1. /\ panel.at = "following" /\ panel' = [panel EXCEPT !.cleared = panel.last, !.lines = <<>>]
      /\ UNCHANGED <<newest, events, reply>>
  BY DEF ClearPanel
<1>2. PICK e : PanelAt(e)
  BY DEF PanelInv
<1>3. /\ panel = [at |-> panel.at, pending |-> panel.pending, lines |-> panel.lines,
                  last |-> panel.last, cleared |-> panel.cleared, opens |-> panel.opens]
      /\ e[0] <= panel.last /\ panel.last \in Nat
  BY <1>1, <1>2 DEF PanelAt, PanelTypes, PanelFollows, Displayed
<1>4. panel' = [at |-> "following", pending |-> panel.pending, lines |-> <<>>,
                last |-> panel.last, cleared |-> panel.last, opens |-> panel.opens]
  BY <1>1, <1>3
<1>5. PanelFollows(e[0])'
  <2>1. DOMAIN <<>> = {} /\ (panel.last + 1)..panel.last = {}
    BY <1>3
  <2>2. Ascending(<<>>) /\ UpTo(<<>>, panel.last) /\ <<>> \in Seq(LogRecords)
    BY <2>1, EmptySeq DEF Ascending, UpTo
  <2> QED
    BY <1>3, <1>4, <2>1, <2>2 DEF PanelFollows, Displayed
<1>6. PanelTypes'
  BY <1>1, <1>2, <1>3, <1>4 DEF PanelAt, PanelTypes, Listening
<1>7. EventsFollow(e)'
  BY <1>1, <1>2 DEF PanelAt, EventsFollow
<1> QED
  BY <1>4, <1>5, <1>6, <1>7 DEF PanelInv, PanelAt

(* A closed panel shows nothing and waits for nothing. *)
LEMMA CloseKeepsPanel ==
  ASSUME PanelInv, ClosePanel
  PROVE  PanelInv'
<1>1. /\ panel' = [panel EXCEPT !.at = "closed", !.pending = <<>>, !.lines = <<>>]
      /\ events' = <<>> /\ reply' = [at |-> "none", history |-> <<>>] /\ UNCHANGED newest
  BY DEF ClosePanel, NoReply
<1>2. PICK e : PanelAt(e)
  BY DEF PanelInv
<1>3. panel = [at |-> panel.at, pending |-> panel.pending, lines |-> panel.lines,
               last |-> panel.last, cleared |-> panel.cleared, opens |-> panel.opens]
      /\ panel.cleared \in Nat
  BY <1>2 DEF PanelAt, PanelTypes
<1>4. panel' = [at |-> "closed", pending |-> <<>>, lines |-> <<>>,
                last |-> panel.last, cleared |-> panel.cleared, opens |-> panel.opens]
  BY <1>1, <1>3
<1>5. PanelTypes'
  <2>1. Numbered(<<>>)
    BY DEF Numbered
  <2> QED
    BY <1>1, <1>3, <1>4, <2>1, EmptySeq DEF PanelTypes, Listening
<1>6. PICK g, n : n = newest /\ g = [i \in 0..0 |-> n]
  OBVIOUS
<1>7. EventsFollow(g)'
  <2>1. n \in Nat
    BY <1>2, <1>6 DEF PanelAt, EventsFollow
  <2>2. g \in [0..0 -> 0..n] /\ g[0] = n /\ Len(<<>>) = 0 /\ <<>> \in Seq(Batches) /\ 1..0 = {}
    BY <1>6, <2>1, EmptySeq
  <2> QED
    BY <1>1, <1>6, <2>1, <2>2 DEF EventsFollow
<1> QED
  BY <1>4, <1>5, <1>7 DEF PanelInv, PanelAt

(* The panel begins closed. *)
LEMMA PanelBegins ==
  LogInit => PanelInv
<1> SUFFICES ASSUME LogInit PROVE PanelInv
  OBVIOUS
<1>1. /\ events = <<>> /\ reply = [at |-> "none", history |-> <<>>] /\ newest = 0
      /\ panel = [at |-> "closed", pending |-> <<>>, lines |-> <<>>, last |-> 0,
                  cleared |-> 0, opens |-> 0]
  BY DEF LogInit, NoReply
<1>2. PICK g : g = [i \in 0..0 |-> 0]
  OBVIOUS
<1>3. EventsFollow(g)
  <2>1. g \in [0..0 -> 0..0] /\ g[0] = 0 /\ Len(<<>>) = 0 /\ <<>> \in Seq(Batches) /\ 1..0 = {}
    BY <1>2, EmptySeq
  <2> QED
    BY <1>1, <2>1 DEF EventsFollow
<1>4. PanelTypes
  <2>1. Numbered(<<>>)
    BY DEF Numbered
  <2> QED
    BY <1>1, <2>1, EmptySeq DEF PanelTypes, Listening
<1> QED
  BY <1>1, <1>3, <1>4 DEF PanelInv, PanelAt

(* Every step keeps what the panel was given shown or told of. *)
LEMMA PanelStays ==
  LogInv /\ PanelInv /\ [LogNext]_logVars => PanelInv'
<1> SUFFICES ASSUME LogInv, PanelInv, [LogNext]_logVars PROVE PanelInv'
  OBVIOUS
<1>1. CASE UNCHANGED logVars
  BY <1>1, PanelRests DEF logVars
<1>2. CASE Push \/ TakeFirst \/ ReportDropped \/ Gather \/ GatherEnds \/ Appended
             \/ Flush \/ FillPlace \/ FlushTimesOut
  BY <1>2, PanelRests
     DEF Push, TakeFirst, ReportDropped, Gather, GatherEnds, Appended, Flush, SendBarrier,
         FillPlace, FlushTimesOut
<1> QED
  BY <1>1, <1>2, LogPublishKeepsPanel, OpenKeepsPanel, ListenKeepsPanel, ReadRecentKeepsPanel,
     HistoryKeepsPanel, BatchKeepsPanel, ClearKeepsPanel, CloseKeepsPanel DEF LogNext

(* What the invariants say of the flush that finished and of the panel.      *)
LEMMA TheLogIsTold ==
  LogInv /\ PanelInv => EveryRecordIsTold
<1> SUFFICES ASSUME LogInv, PanelInv PROVE EveryRecordIsTold
  OBVIOUS
<1>1. PICK m, w : LogAt(m, w)
  BY DEF LogInv
<1>2. PICK e : PanelAt(e)
  BY DEF PanelInv
<1>3. newest \in Nat /\ 1..newest \subseteq told /\ ordered
  BY <1>1 DEF LogAt, Published
<1>4. barrier.at = "done" => barrier.before \subseteq told
  <2> SUFFICES ASSUME barrier.at = "done" PROVE barrier.before \subseteq told
    OBVIOUS
  <2>1. barrier.before = 1..w /\ w \in Nat /\ w <= newest
    BY <1>1 DEF LogAt, Awaited, InTime, Drained
  <2>2. 1..w \subseteq 1..newest
    BY <1>3, <2>1
  <2> QED
    BY <1>3, <2>1, <2>2
<1>5. ASSUME panel.at = "following"
      PROVE  /\ \A i \in 1..(Len(panel.lines) - 1) : panel.lines[i].n < panel.lines[i+1].n
             /\ (panel.cleared + 1)..panel.last
                  \subseteq UNION {{r.n} \cup r.lost : r \in ToSet(panel.lines)}
             /\ events = <<>> => newest <= panel.last
  <2>1. e[0] <= panel.last /\ Displayed(panel.lines, panel.cleared, panel.last)
    BY <1>2, <1>5 DEF PanelAt, PanelFollows
  <2>2. DOMAIN panel.lines = 1..Len(panel.lines) /\ Len(panel.lines) \in Nat
    BY <2>1, LenProperties DEF Displayed
  <2>3. \A i \in 1..(Len(panel.lines) - 1) :
          i \in DOMAIN panel.lines /\ i + 1 \in DOMAIN panel.lines
        /\ i < i + 1
    BY <2>2
  <2>4. \A i \in 1..(Len(panel.lines) - 1) : panel.lines[i].n < panel.lines[i+1].n
    BY <2>1, <2>3 DEF Displayed, Ascending
  <2>5. events = <<>> => newest <= panel.last
    BY <1>2, <2>1, GivenToThePanel DEF PanelAt
  <2>6. (panel.cleared + 1)..panel.last
                  \subseteq UNION {{r.n} \cup r.lost : r \in ToSet(panel.lines)}
    BY <2>1 DEF Displayed, Covered
  <2> QED
    BY <2>4, <2>5, <2>6
<1> QED
  BY <1>3, <1>4, <1>5 DEF EveryRecordIsTold

(* A flush that finished drained every record pushed before it, and the      *)
(* panel that follows shows each record once and in order or a notice that   *)
(* counts it, whatever the capacities, the batches and how often it opens.   *)
THEOREM RecordsAreTold == LogSpec => []EveryRecordIsTold
<1>1. LogInit => LogInv /\ PanelInv
  BY LogBegins, PanelBegins
<1>2. LogInv /\ PanelInv /\ [LogNext]_logVars => (LogInv /\ PanelInv)'
  BY LogStays, PanelStays
<1>3. LogInv /\ PanelInv => EveryRecordIsTold
  BY TheLogIsTold
<1> QED
  BY <1>1, <1>2, <1>3, PTL DEF LogSpec
-----------------------------------------------------------------------------
(* SitesTransfer: an import adds, or is undone *)

Bookmarks == [address : Addresses \cup {"none"}, flag : BOOLEAN, enc : Nat]
Books == [SiteIds -> Bookmarks]
Safes == [SiteIds -> Nat]
Entries == [address : Addresses, scope : Addresses, secret : Nat]
Plans == [book : Books, keys : Safes, used : SUBSET SiteIds]

\* A plan keeps what the documents have, and fills only what they have not.
Fills(acc) ==
    /\ acc \in Plans /\ usedIds \subseteq acc.used
    /\ \A i \in SiteIds : There(acc.book, i) => i \in acc.used
    /\ \A i \in usedIds : /\ acc.book[i].address = book[i].address
                          /\ book[i].enc # 0 => acc.book[i].enc = book[i].enc
    /\ \A i \in SiteIds : acc.keys[i] # 0 => safe[i] = 0

(* An id that is free. *)
LEMMA FreshIsFree ==
  ASSUME NEW used \in SUBSET SiteIds, used # SiteIds
  PROVE  Fresh(used) \in SiteIds \ used
<1>1. SiteIds \ used \in SUBSET Nat /\ SiteIds \ used # {}
  <2>1. \A i \in SiteIds : i \in Nat
    BY TransferAssumption DEF SiteIds
  <2> QED
    BY <2>1
<1>2. \E i \in SiteIds \ used : \A j \in SiteIds \ used : i <= j
  BY <1>1, SmallestNumber
<1> QED
  BY <1>2 DEF Fresh

(* A password is put only where none is. *)
LEMMA PlaceFills ==
  ASSUME NEW acc \in Plans, NEW i \in SiteIds, NEW secret \in Nat, NEW r,
         r = PlaceSecret(acc, i, secret)
  PROVE  /\ r \in Plans /\ r.used = acc.used
         /\ \A j \in SiteIds : /\ r.book[j].address = acc.book[j].address
                               /\ acc.book[j].enc # 0 => r.book[j].enc = acc.book[j].enc
                               /\ r.keys[j] = acc.keys[j] \/ safe[j] = 0
<1>1. CASE vaultSet
  <2> DEFINE b == [acc.book EXCEPT ![i].flag = TRUE]
             k == [acc.keys EXCEPT ![i] = IF acc.keys[i] = 0 /\ safe[i] = 0 THEN secret ELSE @]
  <2>1. b \in Books /\ \A j \in SiteIds : /\ b[j].address = acc.book[j].address
                                          /\ b[j].enc = acc.book[j].enc
    BY DEF Plans, Books, Bookmarks
  <2>2. k \in Safes /\ \A j \in SiteIds : k[j] = acc.keys[j] \/ safe[j] = 0
    BY DEF Plans, Safes
  <2>3. r = [book |-> b, keys |-> k, used |-> acc.used]
    BY <1>1 DEF PlaceSecret, Plans
  <2> HIDE DEF b, k
  <2> QED
    BY <2>1, <2>2, <2>3 DEF Plans
<1>2. CASE ~vaultSet /\ acc.book[i].enc # 0
  BY <1>2 DEF PlaceSecret
<1>3. CASE ~vaultSet /\ acc.book[i].enc = 0
  <2> DEFINE b == [acc.book EXCEPT ![i].enc = secret, ![i].flag = TRUE]
  <2>1. b \in Books /\ \A j \in SiteIds : /\ b[j].address = acc.book[j].address
                                          /\ acc.book[j].enc # 0 => b[j].enc = acc.book[j].enc
    BY <1>3 DEF Plans, Books, Bookmarks
  <2>2. r = [book |-> b, keys |-> acc.keys, used |-> acc.used]
    BY <1>3 DEF PlaceSecret, Plans
  <2> HIDE DEF b
  <2> QED
    BY <2>1, <2>2 DEF Plans
<1> QED
  BY <1>1, <1>2, <1>3

Known(acc, e) == \E i \in SiteIds : /\ There(acc.book, i)
                                    /\ Identity[acc.book[i].address] = Identity[e.address]

(* An entry is skipped, but for its password, or gets a free id. *)
LEMMA EntryFills ==
  ASSUME NEW acc, Fills(acc), NEW e \in Entries, Known(acc, e) \/ acc.used # SiteIds,
         NEW r, r = PlanEntry(acc, e)
  PROVE  /\ Fills(r)
         /\ \/ r.used = acc.used
            \/ ~Known(acc, e) /\ \E i \in SiteIds \ acc.used : r.used = acc.used \cup {i}
<1> DEFINE secret == IF e.scope = e.address /\ e.address # Folder THEN e.secret ELSE 0
           same == {i \in ServerSites(acc.book) : acc.book[i].address = e.scope}
<1>1. secret \in Nat /\ acc \in Plans /\ same \in SUBSET SiteIds
  BY DEF Entries, Fills, ServerSites
<1>2. CASE Known(acc, e) /\ secret # 0 /\ Cardinality(same) = 1
  <2>1. \E i \in same : TRUE
    <3>1. same # {}
      BY <1>2, FS_EmptySet
    <3> QED
      BY <3>1
  <2>2. PICK i \in same : r = PlaceSecret(acc, i, secret)
    <3>1. r = PlaceSecret(acc, CHOOSE i \in same : TRUE, secret)
      BY <1>2 DEF PlanEntry, Known
    <3>2. (CHOOSE i \in same : TRUE) \in same
      BY <2>1
    <3> QED
      BY <3>1, <3>2
  <2> HIDE DEF secret
  <2>3. /\ r \in Plans /\ r.used = acc.used
        /\ \A j \in SiteIds : /\ r.book[j].address = acc.book[j].address
                              /\ acc.book[j].enc # 0 => r.book[j].enc = acc.book[j].enc
                              /\ r.keys[j] = acc.keys[j] \/ safe[j] = 0
    BY <1>1, <2>2, PlaceFills
  <2> QED
    BY <2>3 DEF Fills, There, Plans
<1>3. CASE Known(acc, e) /\ ~(secret # 0 /\ Cardinality(same) = 1)
  <2>1. r = acc
    BY <1>3 DEF PlanEntry, Known
  <2> QED
    BY <2>1
<1>4. CASE ~Known(acc, e)
  <2> DEFINE i == Fresh(acc.used)
             b == [acc.book EXCEPT ![i].address = e.address]
             added == [acc EXCEPT !.book[i].address = e.address, !.used = @ \cup {i}]
  <2>1. i \in SiteIds \ acc.used
    BY <1>1, <1>4, FreshIsFree DEF Plans
  <2>2. b \in Books /\ \A j \in SiteIds : /\ b[j].enc = acc.book[j].enc
                                          /\ j # i => b[j].address = acc.book[j].address
    BY <1>1, <2>1 DEF Plans, Books, Bookmarks, Entries
  <2>3. added = [book |-> b, keys |-> acc.keys, used |-> acc.used \cup {i}]
    <3>1. acc = [book |-> acc.book, keys |-> acc.keys, used |-> acc.used]
      BY <1>1 DEF Plans
    <3>2. PICK x \in SiteIds : x = i
      BY <2>1
    <3>3. [acc EXCEPT !.book[x].address = e.address, !.used = @ \cup {x}]
            = [[acc EXCEPT !.book = [@ EXCEPT ![x].address = e.address]]
                 EXCEPT !.used = @ \cup {x}]
      OBVIOUS
    <3>4. [acc EXCEPT !.book = [@ EXCEPT ![x].address = e.address]]
            = [book |-> [acc.book EXCEPT ![x].address = e.address], keys |-> acc.keys,
               used |-> acc.used]
      BY <3>1
    <3>5. [[book |-> [acc.book EXCEPT ![x].address = e.address], keys |-> acc.keys,
            used |-> acc.used] EXCEPT !.used = @ \cup {x}]
            = [book |-> [acc.book EXCEPT ![x].address = e.address], keys |-> acc.keys,
               used |-> acc.used \cup {x}]
      OBVIOUS
    <3>6. [acc EXCEPT !.book[x].address = e.address, !.used = @ \cup {x}]
            = [book |-> [acc.book EXCEPT ![x].address = e.address], keys |-> acc.keys,
               used |-> acc.used \cup {x}]
      BY <3>3, <3>4, <3>5, Zenon
    <3> QED
      BY <3>2, <3>6
  <2>4. r = IF secret # 0 THEN PlaceSecret(added, i, secret) ELSE added
    BY <1>4 DEF PlanEntry, Known
  <2> HIDE DEF i, b, added, secret
  <2>5. added \in Plans /\ Fills(added) /\ added.used = acc.used \cup {i}
    BY <1>1, <2>1, <2>2, <2>3 DEF Fills, There, Plans
  <2>6. CASE secret = 0
    BY <1>4, <2>1, <2>4, <2>5, <2>6
  <2>7. CASE secret # 0
    <3>1. /\ r \in Plans /\ r.used = added.used
          /\ \A j \in SiteIds : /\ r.book[j].address = added.book[j].address
                                /\ added.book[j].enc # 0 => r.book[j].enc = added.book[j].enc
                                /\ r.keys[j] = added.keys[j] \/ safe[j] = 0
      BY <1>1, <2>1, <2>4, <2>5, <2>7, PlaceFills
    <3> QED
      BY <1>4, <2>1, <2>5, <3>1 DEF Fills, There, Plans
  <2> QED
    BY <2>6, <2>7
<1> QED
  BY <1>2, <1>3, <1>4

PlanStart == [book |-> book, keys |-> EmptySafe, used |-> usedIds]
PlansUpTo(g, n) ==
    g = [k \in 0..n |-> IF k = 0 THEN PlanStart ELSE PlanEntry(g[k - 1], parcel[k])]

(* There is a plan after each number of entries. *)
LEMMA PlansExist ==
  ASSUME NEW n \in Nat
  PROVE  \E g : PlansUpTo(g, n)
<1> DEFINE S == {k \in Nat : \E g : PlansUpTo(g, k)}
<1>1. 0 \in S
  <2> DEFINE g == [k \in 0..0 |-> PlanStart]
  <2>1. g = [k \in 0..0 |-> IF k = 0 THEN PlanStart ELSE PlanEntry(g[k - 1], parcel[k])]
    OBVIOUS
  <2> HIDE DEF g
  <2> QED
    BY <2>1 DEF PlansUpTo
<1>2. ASSUME NEW k \in S PROVE k + 1 \in S
  <2>1. PICK g : PlansUpTo(g, k)
    OBVIOUS
  <2> DEFINE h == [j \in 0..(k + 1) |-> IF j = k + 1 THEN PlanEntry(g[k], parcel[k + 1]) ELSE g[j]]
             value(j) == IF j = 0 THEN PlanStart ELSE PlanEntry(h[j - 1], parcel[j])
  <2>2. \A j \in 0..k : h[j] = g[j] /\ j \in 0..(k + 1)
    OBVIOUS
  <2>3. \A j \in 0..k : g[j] = IF j = 0 THEN PlanStart ELSE PlanEntry(g[j - 1], parcel[j])
    BY <2>1 DEF PlansUpTo
  <2>4. ASSUME NEW j \in 0..(k + 1) PROVE h[j] = value(j)
    <3> HIDE DEF h
    <3>1. CASE j = 0
      BY <2>2, <2>3, <3>1
    <3>2. CASE j # 0 /\ j # k + 1
      <4>1. j \in 0..k /\ j - 1 \in 0..k
        BY <3>2
      <4>2. h[j] = PlanEntry(g[j - 1], parcel[j]) /\ g[j - 1] = h[j - 1]
        BY <2>2, <2>3, <3>2, <4>1
      <4> QED
        BY <3>2, <4>2
    <3>3. CASE j = k + 1
      <4>1. h[j] = PlanEntry(g[k], parcel[k + 1])
        BY <3>3 DEF h
      <4>2. j - 1 = k /\ k \in 0..k /\ j # 0
        BY <3>3
      <4>3. h[j - 1] = g[k]
        BY <2>2, <4>2
      <4> QED
        BY <3>3, <4>1, <4>2, <4>3
    <3> QED
      BY <3>1, <3>2, <3>3
  <2>5. h = [j \in 0..(k + 1) |-> value(j)]
    <3>1. h = [j \in 0..(k + 1) |-> h[j]]
      OBVIOUS
    <3> HIDE DEF h, value
    <3> QED
      BY <2>4, <3>1, Zenon
  <2> HIDE DEF h
  <2>6. PlansUpTo(h, k + 1)
    BY <2>5 DEF PlansUpTo
  <2> QED
    BY <2>6
<1>3. S = Nat
  <2> HIDE DEF S
  <2>1. S \in SUBSET Nat
    BY DEF S
  <2> QED
    BY <1>1, <1>2, <2>1, SetInduction
<1> QED
  BY <1>3

(* Each plan is that before it with one more entry. *)
LEMMA PlansFollow ==
  ASSUME Len(parcel) \in Nat
  PROVE  /\ PlanAfter[0] = PlanStart
         /\ \A k \in 0..Len(parcel) :
                k # 0 => PlanAfter[k] = PlanEntry(PlanAfter[k - 1], parcel[k])
<1>1. \E g : PlansUpTo(g, Len(parcel))
  BY PlansExist
<1>2. PlanAfter = CHOOSE g : PlansUpTo(g, Len(parcel))
  BY DEF PlanAfter, PlansUpTo, PlanStart
<1>3. PlansUpTo(PlanAfter, Len(parcel))
  BY <1>1, <1>2, Zenon
<1> QED
  BY <1>3 DEF PlansUpTo

\* The entries among the first that are no duplicate of a bookmark there is.
Additions(n) == {k \in 1..n : Adds(parcel[k])}

(* With room for what it adds, the plan of all entries fills, and takes no   *)
(* id away.                                                                  *)
LEMMA PlansFill ==
  ASSUME book \in Books, safe \in Safes, usedIds \in SUBSET SiteIds,
         \A i \in SiteIds : There(book, i) => i \in usedIds,
         parcel \in Seq(Entries),
         Cardinality({n \in DOMAIN parcel : Adds(parcel[n])}) <= MaxSites - Cardinality(usedIds)
  PROVE  Fills(Planned)
<1>1. /\ Len(parcel) \in Nat /\ DOMAIN parcel = 1..Len(parcel)
      /\ \A k \in 1..Len(parcel) : parcel[k] \in Entries
  BY LenProperties, ElementOfSeq
<1>2. /\ MaxSites \in Nat /\ IsFiniteSet(SiteIds) /\ Cardinality(SiteIds) = MaxSites
  <2>1. MaxSites \in Nat
    BY TransferAssumption
  <2> QED
    BY <2>1, FS_Interval DEF SiteIds
<1>3. \A used \in SUBSET SiteIds : IsFiniteSet(used) /\ Cardinality(used) \in Nat
  BY <1>2, FS_Subset, FS_CardinalityType
<1>4. \A n \in 0..Len(parcel) :
         /\ IsFiniteSet(Additions(n)) /\ Cardinality(Additions(n)) \in Nat
         /\ Cardinality(Additions(n)) <= Cardinality(Additions(Len(parcel)))
  <2> SUFFICES ASSUME NEW n \in 0..Len(parcel)
               PROVE  /\ IsFiniteSet(Additions(n)) /\ Cardinality(Additions(n)) \in Nat
                      /\ Cardinality(Additions(n)) <= Cardinality(Additions(Len(parcel)))
    OBVIOUS
  <2>1. IsFiniteSet(1..Len(parcel))
    BY <1>1, FS_Interval
  <2>2. /\ Additions(n) \subseteq Additions(Len(parcel))
        /\ Additions(Len(parcel)) \subseteq 1..Len(parcel)
    BY <1>1 DEF Additions
  <2>3. IsFiniteSet(Additions(Len(parcel)))
    BY <2>1, <2>2, FS_Subset
  <2> QED
    BY <2>2, <2>3, FS_Subset, FS_CardinalityType
<1>5. Cardinality(Additions(Len(parcel))) <= MaxSites - Cardinality(usedIds)
  BY <1>1 DEF Additions
<1> DEFINE S == {n \in Nat : n <= Len(parcel) =>
                    /\ Fills(PlanAfter[n])
                    /\ Cardinality(PlanAfter[n].used)
                         <= Cardinality(usedIds) + Cardinality(Additions(n))}
<1>6. 0 \in S
  <2>1. PlanAfter[0] = PlanStart
    BY <1>1, PlansFollow
  <2>2. EmptySafe \in Safes /\ \A i \in SiteIds : EmptySafe[i] = 0
    BY DEF EmptySafe, Safes
  <2>3. Fills(PlanStart)
    BY <2>2 DEF PlanStart, Fills, Plans
  <2>4. PlanStart.used = usedIds
    BY DEF PlanStart
  <2> QED
    BY <1>1, <1>3, <1>4, <2>1, <2>3, <2>4
<1>7. ASSUME NEW n \in S PROVE n + 1 \in S
  <2> SUFFICES ASSUME n + 1 <= Len(parcel)
               PROVE  /\ Fills(PlanAfter[n + 1])
                      /\ Cardinality(PlanAfter[n + 1].used)
                           <= Cardinality(usedIds) + Cardinality(Additions(n + 1))
    OBVIOUS
  <2>1. /\ n \in 0..Len(parcel) /\ n + 1 \in 0..Len(parcel) /\ n + 1 \in 1..Len(parcel)
        /\ n + 1 # 0 /\ (n + 1) - 1 = n
    BY <1>1
  <2>2. /\ Fills(PlanAfter[n])
        /\ Cardinality(PlanAfter[n].used) <= Cardinality(usedIds) + Cardinality(Additions(n))
    BY <1>1
  <2>3. PlanAfter[n + 1] = PlanEntry(PlanAfter[n], parcel[n + 1])
    BY <1>1, <2>1, PlansFollow
  <2>4. parcel[n + 1] \in Entries
    BY <1>1, <2>1
  <2> HIDE DEF S
  <2>5. Known(PlanAfter[n], parcel[n + 1]) \/ Adds(parcel[n + 1])
    <3>1. \A i \in SiteIds : There(book, i) =>
             There(PlanAfter[n].book, i) /\ PlanAfter[n].book[i].address = book[i].address
      BY <2>2 DEF Fills, There
    <3> QED
      BY <3>1 DEF Known, Adds
  <2>6. Adds(parcel[n + 1]) => Cardinality(Additions(n + 1)) = Cardinality(Additions(n)) + 1
    <3> SUFFICES ASSUME Adds(parcel[n + 1])
                 PROVE  Cardinality(Additions(n + 1)) = Cardinality(Additions(n)) + 1
      OBVIOUS
    <3>1. Additions(n + 1) = Additions(n) \cup {n + 1} /\ n + 1 \notin Additions(n)
      BY <2>1 DEF Additions
    <3> QED
      BY <1>4, <2>1, <3>1, FS_AddElement
  <2>7. PlanAfter[n].used \in SUBSET SiteIds
    BY <2>2 DEF Fills, Plans
  <2>8. Known(PlanAfter[n], parcel[n + 1]) \/ PlanAfter[n].used # SiteIds
    BY <1>2, <1>3, <1>4, <1>5, <2>1, <2>2, <2>5, <2>6, <2>7
  <2>9. /\ Fills(PlanAfter[n + 1])
        /\ \/ PlanAfter[n + 1].used = PlanAfter[n].used
           \/ /\ ~Known(PlanAfter[n], parcel[n + 1])
              /\ \E i \in SiteIds \ PlanAfter[n].used :
                    PlanAfter[n + 1].used = PlanAfter[n].used \cup {i}
    BY <2>2, <2>3, <2>4, <2>8, EntryFills
  <2>10. Cardinality(Additions(n)) <= Cardinality(Additions(n + 1))
    <3>1. Additions(n) \subseteq Additions(n + 1)
      BY <2>1 DEF Additions
    <3> QED
      BY <1>4, <2>1, <3>1, FS_Subset
  <2>11. CASE PlanAfter[n + 1].used = PlanAfter[n].used
    BY <1>3, <1>4, <2>1, <2>2, <2>7, <2>9, <2>10, <2>11
  <2>12. ASSUME ~Known(PlanAfter[n], parcel[n + 1]), NEW i \in SiteIds \ PlanAfter[n].used,
                PlanAfter[n + 1].used = PlanAfter[n].used \cup {i}
         PROVE  Cardinality(PlanAfter[n + 1].used)
                  <= Cardinality(usedIds) + Cardinality(Additions(n + 1))
    <3>1. Cardinality(PlanAfter[n + 1].used) = Cardinality(PlanAfter[n].used) + 1
      BY <1>3, <2>7, <2>12, FS_AddElement
    <3> QED
      BY <1>3, <1>4, <2>1, <2>2, <2>5, <2>6, <2>7, <2>12, <3>1
  <2> QED
    BY <2>9, <2>11, <2>12
<1>8. S = Nat
  <2> HIDE DEF S
  <2>1. S \in SUBSET Nat
    BY DEF S
  <2> QED
    BY <1>6, <1>7, <2>1, SetInduction
<1> QED
  BY <1>1, <1>8 DEF Planned

ServerPart == ServerSites(importPlan.book)
LocalPart == Locals(importPlan.book)

\* Bookmarks have ids that are used up, and the parcel its entries.
DocumentTypes ==
    /\ book \in Books /\ safe \in Safes /\ edited \in Nat
    /\ usedIds \in SUBSET SiteIds /\ parcel \in Seq(Entries)
    /\ \A i \in SiteIds : There(book, i) => i \in usedIds

\* An apply keeps in mind what it found, and plans to add to it.
PlanIsKnown ==
    /\ before = [book |-> before.book, safe |-> before.safe, prefs |-> before.prefs]
    /\ before.book \in Books /\ before.safe \in Safes /\ prefs = before.prefs
    /\ importPlan.book \in Books /\ importPlan.keys \in Safes
    /\ \A i \in SiteIds : There(importPlan.book, i) \/ There(before.book, i) => i \in usedIds
    /\ \A i \in SiteIds : There(before.book, i) =>
         /\ importPlan.book[i].address = before.book[i].address
         /\ before.book[i].enc # 0 => importPlan.book[i].enc = before.book[i].enc
    /\ \A i \in SiteIds : importPlan.keys[i] # 0 => before.safe[i] = 0

\* What the documents have is what it found, but for the parts it wrote.
WrittenSoFar ==
    /\ \A i \in SiteIds : book[i] =
         IF (i \in ServerPart /\ "sites" \in wrote) \/ (i \in LocalPart /\ "local" \in wrote)
           THEN importPlan.book[i] ELSE before.book[i]
    /\ \A i \in SiteIds : safe[i] =
         IF "vault" \in wrote /\ importPlan.keys[i] # 0 THEN importPlan.keys[i]
                                                       ELSE before.safe[i]

Applying ==
    iPc # "idle" => /\ PlanIsKnown /\ (leftover \/ WrittenSoFar)
                    /\ iPc # "undo" => ~leftover
                    /\ iPc = "vault" => wrote = {}
                    /\ wrote \subseteq {"vault", "sites", "local"}

ImportInv == DocumentTypes /\ Applying

(* The two parts of a plan have no bookmark in common. *)
LEMMA PartsAreApart ==
  ASSUME importPlan.book \in Books
  PROVE  /\ ServerPart \cap LocalPart = {}
         /\ \A i \in SiteIds : i \in ServerPart \cup LocalPart => i \in SiteIds
         /\ ServerPart \subseteq SiteIds /\ LocalPart \subseteq SiteIds
BY DEF ServerPart, LocalPart, ServerSites, Locals

(* A set of ids in some order. *)
LEMMA IdsInOrder ==
  ASSUME NEW S \in SUBSET SiteIds
  PROVE  Cardinality(S) \in Nat /\ SetToSeq(S) \in [1..Cardinality(S) -> S]
<1>1. IsFiniteSet(SiteIds)
  <2>1. MaxSites \in Nat
    BY TransferAssumption
  <2> QED
    BY <2>1, FS_Interval DEF SiteIds
<1>2. Cardinality(S) \in Nat /\ ExistsBijection(1..Cardinality(S), S)
  BY <1>1, FS_Subset, FS_CardinalityType
<1>3. \E f \in [1..Cardinality(S) -> S] : IsInjective(f)
  BY <1>2 DEF ExistsBijection, Bijection, Injection
<1> QED
  BY <1>2, <1>3 DEF SetToSeq

(* Nothing is saved, and no apply runs. *)
LEMMA ImportInvInit == TransferInit => ImportInv
<1> SUFFICES ASSUME TransferInit PROVE ImportInv
  OBVIOUS
<1>1. book \in Books /\ safe \in Safes /\ \A i \in SiteIds : ~There(book, i)
  BY DEF TransferInit, EmptyBook, EmptySafe, NoSite, Books, Safes, Bookmarks, There
<1>2. parcel \in Seq(Entries)
  BY EmptySeq DEF TransferInit
<1> QED
  BY <1>1, <1>2 DEF TransferInit, ImportInv, DocumentTypes, Applying

(* The user saves a bookmark. *)
LEMMA SaveKeepsImport ==
  ASSUME ImportInv, SaveBookmark
  PROVE  ImportInv'
<1> USE DEF SaveBookmark, importVars
<1>1. DocumentTypes /\ iPc' = "idle" /\ edited' \in Nat /\ UNCHANGED parcel
  BY DEF ImportInv, DocumentTypes
<1>2. PICK a \in Addresses, i \in usedIds \cup ({Fresh(usedIds) : x \in SiteIds \ usedIds}) :
        /\ usedIds' = usedIds \cup {i}
        /\ \/ /\ book' = [book EXCEPT ![i] = [address |-> a, flag |-> TRUE,
                                              enc |-> IF vaultSet THEN 0 ELSE edited + 1]]
              /\ safe' = IF vaultSet THEN [safe EXCEPT ![i] = edited + 1] ELSE safe
           \/ /\ book' = [book EXCEPT ![i] = [NoSite EXCEPT !.address = a]] /\ UNCHANGED safe
  OBVIOUS
<1>3. i \in SiteIds
  BY <1>1, <1>2, FreshIsFree DEF DocumentTypes
<1>4. \E b \in Bookmarks : book' = [book EXCEPT ![i] = b]
  <2>1. [address |-> a, flag |-> TRUE, enc |-> IF vaultSet THEN 0 ELSE edited + 1] \in Bookmarks
    BY <1>1 DEF Bookmarks, DocumentTypes
  <2>2. [NoSite EXCEPT !.address = a] \in Bookmarks
    BY DEF Bookmarks, NoSite
  <2> QED
    BY <1>2, <2>1, <2>2, Zenon
<1>5. book' \in Books /\ \A j \in SiteIds : j # i => book'[j] = book[j]
  BY <1>1, <1>3, <1>4 DEF DocumentTypes, Books
<1>6. safe' \in Safes
  BY <1>1, <1>2, <1>3 DEF DocumentTypes, Safes
<1>7. usedIds' \in SUBSET SiteIds /\ \A j \in SiteIds : There(book, j)' => j \in usedIds'
  BY <1>1, <1>2, <1>3, <1>5 DEF DocumentTypes, There
<1> QED
  BY <1>1, <1>5, <1>6, <1>7 DEF ImportInv, DocumentTypes, Applying

(* The user removes one. *)
LEMMA RemoveKeepsImport ==
  ASSUME ImportInv, NEW i \in SiteIds, RemoveBookmark(i)
  PROVE  ImportInv'
<1>1. DocumentTypes /\ iPc' = "idle"
  BY DEF ImportInv, RemoveBookmark, importVars
<1>2. NoSite \in Bookmarks
  BY DEF Bookmarks, NoSite
<1>3. /\ book' \in Books /\ safe' \in Safes
      /\ \A j \in SiteIds : book'[j] = book[j] \/ book'[j] = NoSite
  BY <1>1, <1>2 DEF RemoveBookmark, DocumentTypes, Books, Safes
<1>4. \A j \in SiteIds : There(book, j)' => There(book, j)
  BY <1>3 DEF There, NoSite
<1> QED
  BY <1>1, <1>3, <1>4 DEF ImportInv, DocumentTypes, Applying, RemoveBookmark

(* The file is written, or its user changes an address in it. *)
LEMMA ParcelKeepsImport ==
  ASSUME ImportInv, Export \/ EditParcel
  PROVE  ImportInv'
<1>1. DocumentTypes
  BY DEF ImportInv
<1>2. CASE Export
  <2> DEFINE ids == ServerSites(book) \cup Locals(book)
             all == SetToSeq(ids)
  <2>1. ids \in SUBSET SiteIds /\ \A i \in ids : book[i].address \in Addresses
    BY <1>1, TransferAssumption DEF ServerSites, Locals, There, DocumentTypes, Books, Bookmarks
  <2>2. Cardinality(ids) \in Nat /\ all \in [1..Cardinality(ids) -> ids]
    BY <2>1, IdsInOrder
  <2>3. parcel' = [n \in DOMAIN all |->
               [address |-> book[all[n]].address, scope |-> book[all[n]].address,
                secret |-> SavedOf(all[n])]]
    BY <1>2 DEF Export
  <2>4. \A i \in ids : SavedOf(i) \in Nat
    BY <1>1, <2>1 DEF SavedOf, DocumentTypes, Books, Bookmarks, Safes
  <2> HIDE DEF ids, all
  <2>5. parcel' \in [1..Cardinality(ids) -> Entries]
    BY <2>1, <2>2, <2>3, <2>4 DEF Entries
  <2>6. parcel' \in Seq(Entries)
    BY <2>2, <2>5, IsASeq
  <2> QED
    BY <1>1, <1>2, <2>6 DEF Export, ImportInv, DocumentTypes, Applying, importVars, docVars
<1>3. CASE EditParcel
  <2>1. PICK n \in DOMAIN parcel, a \in Addresses : parcel' = [parcel EXCEPT ![n].address = a]
    BY <1>3 DEF EditParcel
  <2>2. parcel' \in Seq(Entries)
    <3>1. parcel[n] \in Entries
      BY <1>1, <2>1, LenProperties, ElementOfSeq DEF DocumentTypes
    <3>2. [parcel[n] EXCEPT !.address = a] \in Entries
      BY <3>1 DEF Entries
    <3>3. parcel' = [parcel EXCEPT ![n] = [parcel[n] EXCEPT !.address = a]]
      BY <2>1
    <3> QED
      BY <1>1, <2>1, <3>2, <3>3, ExceptSeq DEF DocumentTypes
  <2>3. UNCHANGED <<book, safe, prefs, usedIds, iPc, importPlan, before, wrote, leftover, edited>>
    BY <1>3 DEF EditParcel, importVars, docVars
  <2> QED
    BY <1>1, <2>2, <2>3 DEF ImportInv, DocumentTypes, Applying, PlanIsKnown, WrittenSoFar,
       ServerPart, LocalPart
<1> QED
  BY <1>2, <1>3

(* What neither saves, plans nor writes. *)
LEMMA OthersKeepImport ==
  ASSUME ImportInv, UNCHANGED <<docVars, usedIds, parcel, iPc, importPlan, before, wrote, leftover,
                                edited>>
  PROVE  ImportInv'
BY DEF ImportInv, DocumentTypes, Applying, PlanIsKnown, WrittenSoFar, ServerPart, LocalPart, docVars

(* The apply begins: it knows what it found and plans to add to it. *)
LEMMA StartPlans ==
  ASSUME ImportInv, StartApply
  PROVE  ImportInv'
<1>1. DocumentTypes
  BY DEF ImportInv
<1>2. /\ Fills(Planned)
      /\ importPlan' = [book |-> Planned.book, keys |-> Planned.keys] /\ usedIds' = Planned.used
  BY <1>1, PlansFill DEF DocumentTypes, StartApply
<1>3. /\ before' = [book |-> book, safe |-> safe, prefs |-> prefs]
      /\ wrote' = {} /\ leftover' = FALSE /\ iPc' = "vault"
      /\ UNCHANGED <<book, safe, prefs, parcel, edited>>
  BY DEF StartApply, Documents, docVars
<1>4. Planned \in Plans /\ usedIds \subseteq Planned.used
  BY <1>2 DEF Fills
<1>5. importPlan'.book \in Books /\ importPlan'.keys \in Safes /\ usedIds' \in SUBSET SiteIds
  BY <1>2, <1>4 DEF Plans
<1>6. PlanIsKnown'
  <2>1. \A i \in SiteIds : There(importPlan'.book, i) \/ There(before'.book, i) => i \in usedIds'
    BY <1>1, <1>2, <1>3, <1>4 DEF Fills, DocumentTypes
  <2>2. \A i \in SiteIds : There(before'.book, i) =>
         /\ importPlan'.book[i].address = before'.book[i].address
         /\ before'.book[i].enc # 0 => importPlan'.book[i].enc = before'.book[i].enc
    BY <1>1, <1>2, <1>3 DEF Fills, DocumentTypes
  <2>3. \A i \in SiteIds : importPlan'.keys[i] # 0 => before'.safe[i] = 0
    BY <1>2, <1>3 DEF Fills
  <2> QED
    BY <1>1, <1>3, <1>5, <2>1, <2>2, <2>3 DEF PlanIsKnown, DocumentTypes
<1>7. WrittenSoFar'
  BY <1>3 DEF WrittenSoFar
<1>8. DocumentTypes'
  BY <1>1, <1>3, <1>4, <1>5, <1>2 DEF DocumentTypes
<1> QED
  BY <1>3, <1>6, <1>7, <1>8 DEF ImportInv, Applying

(* The plan stays known while it is carried out. *)
LEMMA PlanStaysKnown ==
  ASSUME PlanIsKnown, UNCHANGED <<prefs, usedIds, importPlan, before>>
  PROVE  PlanIsKnown' /\ UNCHANGED <<ServerPart, LocalPart>>
BY DEF PlanIsKnown, ServerPart, LocalPart

(* The vault is written, or not. *)
LEMMA FillKeepsImport ==
  ASSUME ImportInv, FillVault
  PROVE  ImportInv'
<1>1. /\ DocumentTypes /\ PlanIsKnown /\ WrittenSoFar /\ wrote = {} /\ ~leftover
      /\ UNCHANGED <<book, prefs, usedIds, parcel, importPlan, before, leftover, edited>>
  BY DEF ImportInv, Applying, FillVault
<1>2. PlanIsKnown' /\ UNCHANGED <<ServerPart, LocalPart>>
  BY <1>1, PlanStaysKnown
<1>3. CASE importPlan.keys = EmptySafe /\ iPc' = "sites" /\ UNCHANGED <<safe, wrote>>
  BY <1>1, <1>2, <1>3 DEF ImportInv, DocumentTypes, Applying, WrittenSoFar
<1>4. CASE /\ safe' = [i \in SiteIds |-> IF importPlan.keys[i] # 0 THEN importPlan.keys[i]
                                                               ELSE safe[i]]
           /\ wrote' = {"vault"} /\ iPc' = "sites"
  <2>1. safe' \in Safes /\ DocumentTypes'
    BY <1>1, <1>4 DEF DocumentTypes, PlanIsKnown, Safes
  <2>2. WrittenSoFar'
    BY <1>1, <1>2, <1>4 DEF WrittenSoFar
  <2> QED
    BY <1>1, <1>2, <1>4, <2>1, <2>2 DEF ImportInv, Applying
<1>5. CASE iPc' = "idle" /\ UNCHANGED <<safe, wrote>>
  BY <1>1, <1>5 DEF ImportInv, DocumentTypes, Applying
<1> QED
  BY <1>3, <1>4, <1>5 DEF FillVault

(* A document of the plan is written. *)
LEMMA WriteKeepsImport ==
  ASSUME ImportInv, NEW name, NEW kinds, NEW to, NEW pc,
         \/ name = "sites" /\ kinds = ServerPart
         \/ name = "local" /\ kinds = LocalPart,
         pc \notin {"idle", "undo"}, to \notin {"idle", "vault"},
         to # "undo", WriteDocument(pc, name, kinds, to)
  PROVE  ImportInv'
<1>1. /\ DocumentTypes /\ PlanIsKnown /\ WrittenSoFar /\ ~leftover
      /\ wrote \subseteq {"vault", "sites", "local"}
      /\ UNCHANGED <<safe, prefs, usedIds, parcel, importPlan, before, leftover, edited>>
  BY DEF ImportInv, Applying, WriteDocument
<1>2. PlanIsKnown' /\ UNCHANGED <<ServerPart, LocalPart>>
  BY <1>1, PlanStaysKnown
<1>3. CASE iPc' = "undo" /\ UNCHANGED <<book, wrote>>
  BY <1>1, <1>2, <1>3 DEF ImportInv, DocumentTypes, Applying, WrittenSoFar
<1>4. CASE /\ book' = [i \in SiteIds |-> IF i \in kinds THEN importPlan.book[i] ELSE book[i]]
           /\ iPc' = to /\ wrote' = IF book' = book THEN wrote ELSE wrote \cup {name}
  <2>1. book' \in Books
    BY <1>1, <1>4 DEF DocumentTypes, PlanIsKnown, Books
  <2>2. \A i \in SiteIds : There(book, i)' => i \in usedIds'
    BY <1>1, <1>4 DEF DocumentTypes, PlanIsKnown, There
  <2>3. CASE book' = book
    BY <1>1, <1>2, <1>4, <2>3 DEF ImportInv, DocumentTypes, Applying, WrittenSoFar
  <2>4. CASE book' # book
    <3>1. ServerPart \cap LocalPart = {}
      BY <1>1, PartsAreApart DEF PlanIsKnown
    <3>2. wrote' = wrote \cup {name}
      BY <1>4, <2>4
    <3>3. \A i \in SiteIds : book'[i] =
         IF (i \in ServerPart /\ "sites" \in wrote') \/ (i \in LocalPart /\ "local" \in wrote')
           THEN importPlan.book[i] ELSE before.book[i]
      <4>1. \A i \in SiteIds : book'[i] = IF i \in kinds THEN importPlan.book[i] ELSE book[i]
        BY <1>4
      <4> QED
        BY <1>1, <3>1, <3>2, <4>1 DEF WrittenSoFar
    <3>4. \A i \in SiteIds : safe'[i] =
         IF "vault" \in wrote' /\ importPlan.keys[i] # 0 THEN importPlan.keys[i]
                                                        ELSE before.safe[i]
      BY <1>1, <3>2 DEF WrittenSoFar
    <3>5. WrittenSoFar'
      BY <1>1, <1>2, <3>3, <3>4 DEF WrittenSoFar
    <3> QED
      BY <1>1, <1>2, <1>4, <2>1, <2>2, <3>5 DEF ImportInv, DocumentTypes, Applying
  <2> QED
    BY <2>3, <2>4
<1> QED
  BY <1>3, <1>4 DEF WriteDocument

(* The settings are written: the apply is over, or is undone. *)
LEMMA SettingsKeepImport ==
  ASSUME ImportInv, WriteSettings
  PROVE  ImportInv'
<1>1. /\ DocumentTypes /\ PlanIsKnown /\ WrittenSoFar /\ ~leftover
      /\ wrote \subseteq {"vault", "sites", "local"}
      /\ UNCHANGED <<book, safe, usedIds, parcel, importPlan, before, wrote, leftover, edited>>
      /\ iPc' = "idle" \/ (iPc' = "undo" /\ UNCHANGED prefs)
  BY DEF ImportInv, Applying, WriteSettings
<1> QED
  BY <1>1, PlanStaysKnown DEF ImportInv, DocumentTypes, Applying, WrittenSoFar

(* The vault is undone, or remains. *)
LEMMA UndoVaultKeepsImport ==
  ASSUME ImportInv, UndoVault
  PROVE  ImportInv'
<1>1. /\ wrote \subseteq {"vault", "sites", "local"}
      /\ DocumentTypes /\ PlanIsKnown /\ (leftover \/ WrittenSoFar)
      /\ iPc' = "undo" /\ wrote' = wrote \ {"vault"} /\ "vault" \in wrote
      /\ UNCHANGED <<book, prefs, usedIds, parcel, importPlan, before, edited>>
  BY DEF ImportInv, Applying, UndoVault
<1>2. PlanIsKnown' /\ UNCHANGED <<ServerPart, LocalPart>>
  BY <1>1, PlanStaysKnown
<1>3. CASE leftover' = TRUE /\ UNCHANGED safe
  BY <1>1, <1>2, <1>3 DEF ImportInv, DocumentTypes, Applying
<1>4. CASE /\ safe' = [i \in SiteIds |-> IF importPlan.keys[i] # 0 THEN 0 ELSE safe[i]]
           /\ UNCHANGED leftover
  <2>1. safe' \in Safes
    BY <1>1, <1>4 DEF DocumentTypes, Safes
  <2>2. WrittenSoFar => WrittenSoFar'
    BY <1>1, <1>2, <1>4 DEF WrittenSoFar, PlanIsKnown
  <2> QED
    BY <1>1, <1>2, <1>4, <2>1, <2>2 DEF ImportInv, DocumentTypes, Applying
<1> QED
  BY <1>3, <1>4 DEF UndoVault

(* A document is undone, or remains. *)
LEMMA UndoDocumentKeepsImport ==
  ASSUME ImportInv, UndoDocument
  PROVE  ImportInv'
<1>1. /\ wrote \subseteq {"vault", "sites", "local"}
      /\ DocumentTypes /\ PlanIsKnown /\ (leftover \/ WrittenSoFar) /\ iPc' = "undo"
      /\ UNCHANGED <<safe, prefs, usedIds, parcel, importPlan, before, edited>>
  BY DEF ImportInv, Applying, UndoDocument
<1>2. PlanIsKnown' /\ UNCHANGED <<ServerPart, LocalPart>>
  BY <1>1, PlanStaysKnown
<1>3. PICK name \in wrote :
        /\ wrote' = wrote \ {name}
        /\ \/ /\ book' = [i \in SiteIds |->
                    IF i \in (IF name = "sites" THEN ServerPart ELSE LocalPart)
                      THEN before.book[i] ELSE book[i]]
              /\ UNCHANGED leftover
           \/ leftover' = TRUE /\ UNCHANGED book
  BY DEF UndoDocument, ServerPart, LocalPart
<1>4. CASE leftover' = TRUE /\ UNCHANGED book
  BY <1>1, <1>2, <1>3, <1>4 DEF ImportInv, DocumentTypes, Applying
<1>5. CASE /\ book' = [i \in SiteIds |->
                IF i \in (IF name = "sites" THEN ServerPart ELSE LocalPart)
                  THEN before.book[i] ELSE book[i]]
           /\ UNCHANGED leftover
  <2>1. book' \in Books /\ \A i \in SiteIds : There(book, i)' => i \in usedIds'
    BY <1>1, <1>5 DEF DocumentTypes, PlanIsKnown, Books, There
  <2>2. name \in {"sites", "local"} /\ "vault" \notin wrote
    BY <1>3 DEF UndoDocument, ImportInv, Applying
  <2>3. WrittenSoFar => WrittenSoFar'
    <3>1. ServerPart \cap LocalPart = {}
      BY <1>1, PartsAreApart DEF PlanIsKnown
    <3> QED
      BY <1>1, <1>2, <1>3, <1>5, <2>2, <3>1 DEF WrittenSoFar
  <2> QED
    BY <1>1, <1>2, <1>3, <1>5, <2>1, <2>3 DEF ImportInv, DocumentTypes, Applying
<1> QED
  BY <1>3, <1>4, <1>5

(* Every step keeps the documents between what was found and what is planned. *)
LEMMA ImportInvStep == ImportInv /\ [TransferNext]_transferVars => ImportInv'
<1> SUFFICES ASSUME ImportInv, [TransferNext]_transferVars PROVE ImportInv'
  OBVIOUS
<1>1. CASE SaveBookmark
  BY <1>1, SaveKeepsImport
<1>2. CASE \E i \in SiteIds : RemoveBookmark(i)
  BY <1>2, RemoveKeepsImport
<1>3. CASE LockOrUnlock \/ Preview \/ DiscardPreview \/ UNCHANGED transferVars
  BY <1>3, OthersKeepImport
     DEF LockOrUnlock, Preview, DiscardPreview, transferVars, importVars, docVars
<1>4. CASE Export \/ EditParcel
  BY <1>4, ParcelKeepsImport
<1>5. CASE StartApply
  BY <1>5, StartPlans
<1>6. CASE FillVault
  BY <1>6, FillKeepsImport
<1>7. CASE WriteSites
  BY <1>7, WriteKeepsImport DEF WriteSites, ServerPart
<1>8. CASE WriteLocal
  BY <1>8, WriteKeepsImport DEF WriteLocal, LocalPart
<1>9. CASE WriteSettings
  BY <1>9, SettingsKeepImport
<1>10. CASE UndoVault
  BY <1>10, UndoVaultKeepsImport
<1>11. CASE UndoDocument
  BY <1>11, UndoDocumentKeepsImport
<1>12. CASE EndUndo \/ ImportCut
  BY <1>12 DEF EndUndo, ImportCut, ImportInv, DocumentTypes, Applying, docVars
<1> QED
  BY <1>1, <1>2, <1>3, <1>4, <1>5, <1>6, <1>7, <1>8, <1>9, <1>10, <1>11, <1>12 DEF TransferNext

\* What an apply that ends may say.
EndsTruly ==
    /\ ended' = "undone" /\ ended # "undone"
         => [book |-> book', safe |-> safe', prefs |-> prefs'] = before
    /\ ended' = "kept" /\ ended # "kept"
         => \A i \in SiteIds : There(before.book, i)
              => /\ book'[i].address = before.book[i].address
                 /\ before.book[i].enc # 0 => book'[i].enc = before.book[i].enc
                 /\ before.safe[i] # 0 => safe'[i] = before.safe[i]

(* Without a part written, all is as it was found. *)
LEMMA NothingWritten ==
  ASSUME DocumentTypes, PlanIsKnown, WrittenSoFar, wrote = {}
  PROVE  [book |-> book, safe |-> safe, prefs |-> prefs] = before
<1>1. \A i \in SiteIds : book[i] = before.book[i] /\ safe[i] = before.safe[i]
  BY DEF WrittenSoFar
<1>2. book = before.book
  BY <1>1 DEF DocumentTypes, PlanIsKnown, Books
<1>3. safe = before.safe
  BY <1>1 DEF DocumentTypes, PlanIsKnown, Safes
<1> QED
  BY <1>2, <1>3 DEF PlanIsKnown

(* Every step ends truly. *)
LEMMA ApplyEndsTruly == ImportInv /\ [TransferNext]_transferVars => EndsTruly
<1> SUFFICES ASSUME ImportInv, [TransferNext]_transferVars PROVE EndsTruly
  OBVIOUS
<1>1. CASE FillVault
  <2>1. ended' \in {ended, "undone"} /\ (ended' # ended => UNCHANGED <<book, safe, prefs>>)
    BY <1>1 DEF FillVault
  <2>2. [book |-> book, safe |-> safe, prefs |-> prefs] = before
    BY <1>1, NothingWritten DEF FillVault, ImportInv, Applying
  <2> QED
    BY <2>1, <2>2 DEF EndsTruly
<1>2. CASE WriteSettings
  <2>1. PlanIsKnown /\ WrittenSoFar /\ UNCHANGED <<book, safe>> /\ ended' \in {ended, "kept"}
    BY <1>2 DEF WriteSettings, ImportInv, Applying
  <2> QED
    BY <2>1 DEF EndsTruly, PlanIsKnown, WrittenSoFar
<1>3. CASE EndUndo
  <2>1. /\ ended' = IF leftover THEN "partly" ELSE "undone"
        /\ UNCHANGED <<book, safe, prefs>> /\ wrote = {} /\ iPc = "undo"
    BY <1>3 DEF EndUndo, docVars
  <2>2. CASE leftover
    BY <2>1, <2>2 DEF EndsTruly
  <2>3. CASE ~leftover
    <3>1. [book |-> book, safe |-> safe, prefs |-> prefs] = before
      BY <2>1, <2>3, NothingWritten DEF ImportInv, Applying
    <3> QED
      BY <2>1, <2>3, <3>1 DEF EndsTruly
  <2> QED
    BY <2>2, <2>3
<1>4. CASE StartApply
  BY <1>4 DEF StartApply, EndsTruly
<1>5. CASE UNCHANGED ended
  BY <1>5 DEF EndsTruly
<1>6. UNCHANGED ended \/ FillVault \/ WriteSettings \/ EndUndo \/ StartApply
  BY DEF TransferNext, transferVars, importVars, SaveBookmark, RemoveBookmark, LockOrUnlock,
     Export, EditParcel, Preview, DiscardPreview, WriteSites, WriteLocal, WriteDocument,
     UndoVault, UndoDocument, ImportCut
<1> QED
  BY <1>1, <1>2, <1>3, <1>4, <1>5, <1>6

(* An apply that says nothing was imported left all documents as they were,  *)
(* and one that is kept changed no address and no saved password: for any    *)
(* recipients and ids, any file however edited, writes that fail anywhere,   *)
(* a vault locked and unlocked in between, and applies cut off.              *)
THEOREM ImportsAddOrUndo == TransferSpec => ImportAddsOrUndoes
<1>1. ImportInv /\ [TransferNext]_transferVars => EndsTruly
  BY ApplyEndsTruly
<1>2. ImportInv /\ [TransferNext]_transferVars => ImportInv'
  BY ImportInvStep
<1>3. TransferSpec => [][EndsTruly]_transferVars
  BY <1>1, <1>2, ImportInvInit, PTL DEF TransferSpec
<1> QED
  BY <1>3 DEF ImportAddsOrUndoes, EndsTruly
=============================================================================
