--------------------------- MODULE UploadStaging ---------------------------
(***************************************************************************)
(* Who answers for an upload's staging file.  An upload writes a randomly  *)
(* named file beside its destination and renames it when it is whole       *)
(* (application/transfer_service.rs).  A Pause keeps that file for the     *)
(* next attempt, a Stop deletes it, a disconnect deletes what the          *)
(* connection still has (transfer/upload_staging.rs, session.rs); each of  *)
(* them may meet an attempt that has not unwound yet.  The renderer's rows *)
(* (src/features/transfers) decide what is asked for.                      *)
(*                                                                         *)
(* One connection, whose id is never used again.  A staging file is named  *)
(* by the attempt that made it.  The pool appears through what it promises *)
(* (module TransferPool): a queued task is cancelled at once, a running    *)
(* one is told, an unknown one is remembered.                              *)
(***************************************************************************)
EXTENDS Naturals, FiniteSets, SequencesExt

CONSTANTS
    Uploads,        \* the renderer's rows
    Targets,        \* the destinations
    TargetOf,       \* each row's destination
    MaxTries,       \* bound: attempts of one row
    MarkCap,        \* MARK_CAP
    MayDisconnect   \* bound: whether the tab may disconnect

ASSUME StagingAssumption ==
    /\ IsFiniteSet(Uploads) /\ IsFiniteSet(Targets)
    /\ TargetOf \in [Uploads -> Targets]
    /\ MaxTries \in Nat
    /\ MarkCap \in Nat \ {0}
    /\ MayDisconnect \in BOOLEAN

Attempts == Uploads \X (1 .. MaxTries)
Target(a) == TargetOf[a[1]]
None == <<>>

VARIABLES
    \* the renderer
    row,            \* a row's status; "active" is queued or progress
    tries,          \* how many attempts a row has had
    intent,         \* cancelIntentRef
    calls,          \* a row's transfer_cancel commands sent and not begun
    \* transfer_upload, one per attempt
    pc,
    resume,         \* its argument
    resumed,        \* whether it adopted a paused file
    partial,        \* its staging file
    started,        \* the task got past its checks
    result,
    \* transfer_cancel: the commands past the marking, before pool.cancel
    told,
    \* upload_staging::State
    active,         \* the attempts with an entry in the active map
    paused,         \* paused[t]: the kept file and the attempt that paused
    marks,
    \* the rest of the backend
    lease,          \* the attempt that holds the destination's reservation
    token,          \* attempts whose running task was told to cancel
    poolCancelled,  \* the pool's cancelled ids
    cleanup,        \* clean_staging of a file
    session,        \* how far the disconnect has got
    sweep,          \* what discard_for_connection took and has not removed
    \* the server, and what the user can read
    onServer,       \* the staging files that exist
    reported        \* staging files a log line says were left

rowVars == <<row, tries, intent, calls>>
localVars == <<resume, resumed, partial, started, result>>
registry == <<active, paused, marks>>
poolVars == <<lease, token, poolCancelled>>
closeVars == <<session, sweep>>
server == <<onServer, reported>>
vars == <<rowVars, pc, localVars, told, registry, poolVars, cleanup, closeVars, server>>
-----------------------------------------------------------------------------
Current(u) == <<u, tries[u]>>
Dead == session # "open"                       \* markConnectionDead
HasPool == session \in {"open", "leaving"}     \* pool_for finds a pool
Busy(t) == \E u \in Uploads : TargetOf[u] = t /\ row[u] \in {"active", "cancelling"}

Unfinished(a) == result[a] # "ok" /\ (resumed[a] \/ started[a])

RECORD == [file : Attempts, attempt : Attempts]

Init ==
    /\ row = [u \in Uploads |-> "none"]
    /\ tries = [u \in Uploads |-> 0]
    /\ intent = [u \in Uploads |-> "none"]
    /\ calls = [u \in Uploads |-> <<>>]
    /\ pc = [a \in Attempts |-> "unused"]
    /\ resume = [a \in Attempts |-> FALSE]
    /\ resumed = [a \in Attempts |-> FALSE]
    /\ partial = [a \in Attempts |-> a]
    /\ started = [a \in Attempts |-> FALSE]
    /\ result = [a \in Attempts |-> "none"]
    /\ told = [a \in Attempts |-> {}]
    /\ active = {}
    /\ paused = [t \in Targets |-> None]
    /\ marks = <<>>
    /\ lease = [t \in Targets |-> None]
    /\ token = {}
    /\ poolCancelled = {}
    /\ cleanup = [f \in Attempts |-> "none"]
    /\ session = "open"
    /\ sweep = {}
    /\ onServer = {}
    /\ reported = {}

(* cleanup_remote_partial: the spawned clean_staging looks the session up.  *)
StartCleanup(f) ==
    cleanup' = [cleanup EXCEPT ![f] = IF HasPool THEN "running" ELSE "nosession"]

At(a, from, to) == pc[a] = from /\ pc' = [pc EXCEPT ![a] = to]
-----------------------------------------------------------------------------
(* The renderer.                                                            *)

NewAttempt(u, at, wantsResume) ==
    /\ tries[u] < MaxTries
    /\ ~Dead
    /\ tries' = [tries EXCEPT ![u] = @ + 1]
    /\ row' = [row EXCEPT ![u] = "active"]
    /\ intent' = [intent EXCEPT ![u] = "none"]
    /\ pc' = [pc EXCEPT ![<<u, tries[u] + 1>>] = at]
    /\ resume' = [resume EXCEPT ![<<u, tries[u] + 1>>] = wantsResume]
    /\ UNCHANGED <<calls, resumed, partial, started, result, told, registry,
                   poolVars, cleanup, closeVars, server>>

(* runUpload: a new row, or the row of an earlier upload of the same file. *)
Upload(u) ==
    /\ row[u] \in {"none", "paused", "stopped", "error"}
    /\ ~Busy(TargetOf[u])
    /\ NewAttempt(u, "called", FALSE)

(* retryTransfer of a paused row carries on under the answer it has ...    *)
Resume(u) == row[u] = "paused" /\ NewAttempt(u, "called", TRUE)

(* ... of any other row it asks first whether to replace the target.       *)
Retry(u) == row[u] \in {"stopped", "error"} /\ NewAttempt(u, "asked", FALSE)

Approve(u) ==
    LET a == Current(u)
    IN  /\ tries[u] > 0
        /\ \/ /\ intent[u] = "none"
              /\ At(a, "asked", "called")
              /\ UNCHANGED row
           \/ /\ At(a, "asked", "over")
              /\ row' = [row EXCEPT ![u] = "stopped"]
        /\ UNCHANGED <<tries, intent, calls, localVars, told, registry, poolVars,
                       cleanup, closeVars, server>>

(* requestCancel. *)
AskPause(u) ==
    /\ row[u] = "active"
    /\ row' = [row EXCEPT ![u] = "cancelling"]
    /\ intent' = [intent EXCEPT ![u] = "paused"]
    /\ calls' = [calls EXCEPT ![u] = Append(@, <<"pause", Current(u)>>)]
    /\ UNCHANGED <<tries, pc, localVars, told, registry, poolVars, cleanup, closeVars, server>>

(* A Stop of a row that is already stopping repeats the same command and   *)
(* is left out.                                                            *)
MayStop(u) == row[u] \in {"active", "cancelling", "paused"} /\ intent[u] # "stopped"

StopRows(S) ==
    /\ row' = [u \in Uploads |->
        IF u \notin S THEN row[u] ELSE IF row[u] = "paused" THEN "stopped" ELSE "cancelling"]
    /\ intent' = [u \in Uploads |-> IF u \in S THEN "stopped" ELSE intent[u]]
    /\ calls' = [u \in Uploads |->
        IF u \in S THEN Append(calls[u], <<"stop", Current(u)>>) ELSE calls[u]]

AskStop(u) ==
    /\ MayStop(u)
    /\ StopRows({u})
    /\ UNCHANGED <<tries, pc, localVars, told, registry, poolVars, cleanup, closeVars, server>>

(* closeConnection: every row of the connection is stopped and the         *)
(* disconnect sent, without waiting for either.                            *)
CloseTab ==
    /\ MayDisconnect
    /\ session = "open"
    /\ session' = "leaving"
    /\ StopRows({u \in Uploads : MayStop(u)})
    /\ UNCHANGED <<tries, pc, localVars, told, registry, poolVars, cleanup, sweep, server>>

(* stopTransfersForConnection's deadline. *)
CloseRows ==
    /\ Dead
    /\ \E u \in Uploads : row[u] \in {"active", "cancelling", "paused"}
    /\ row' = [u \in Uploads |->
        IF row[u] \in {"active", "cancelling", "paused"} THEN "stopped" ELSE row[u]]
    /\ UNCHANGED <<tries, intent, calls, pc, localVars, told, registry, poolVars, cleanup,
                   closeVars, server>>

(* settleTransferResult; the returned function's locals are gone.          *)
Answer(a) ==
    /\ At(a, "returned", "over")
    /\ row' = [row EXCEPT ![a[1]] =
        IF result[a] = "ok" THEN "done"
        ELSE IF intent[a[1]] # "none" THEN intent[a[1]] ELSE "error"]
    /\ resume' = [resume EXCEPT ![a] = FALSE]
    /\ resumed' = [resumed EXCEPT ![a] = FALSE]
    /\ started' = [started EXCEPT ![a] = FALSE]
    /\ result' = [result EXCEPT ![a] = "none"]
    /\ UNCHANGED <<tries, intent, calls, partial, told, registry, poolVars, cleanup,
                   closeVars, server>>
-----------------------------------------------------------------------------
(* transfer_upload. *)

DropLease(a) == lease' = [lease EXCEPT ![Target(a)] = IF @ = a THEN None ELSE @]

(* The reservation, then the source: either may refuse.  Another operation *)
(* (a rename, a folder copy) may hold the destination too.                 *)
Reserve(a) ==
    /\ pc[a] = "called"
    /\ \/ /\ lease[Target(a)] = None
          /\ lease' = [lease EXCEPT ![Target(a)] = a]
          /\ pc' = [pc EXCEPT ![a] = "reserved"]
          /\ UNCHANGED result
       \/ /\ pc' = [pc EXCEPT ![a] = "returned"]
          /\ result' = [result EXCEPT ![a] = "failed"]
          /\ UNCHANGED lease
    /\ UNCHANGED <<rowVars, resume, resumed, partial, started, told, registry,
                   token, poolCancelled, cleanup, closeVars, server>>

(* take: the caller owns the file from here on. *)
Take(t) == paused' = [paused EXCEPT ![t] = None]

(* discard and the head of resolve: what was kept here is taken.           *)
Claim(a) ==
    LET entry == paused[Target(a)]
    IN  /\ pc[a] = "reserved"
        /\ Take(Target(a))
        /\ IF entry = None
           THEN /\ pc' = [pc EXCEPT ![a] = "ready"]
                /\ UNCHANGED <<partial, cleanup>>
           ELSE IF resume[a]
           THEN /\ pc' = [pc EXCEPT ![a] = "verifying"]
                /\ partial' = [partial EXCEPT ![a] = entry.file]
                /\ UNCHANGED cleanup
           ELSE /\ pc' = [pc EXCEPT ![a] = "discarding"]
                /\ partial' = [partial EXCEPT ![a] = entry.file]
                /\ StartCleanup(entry.file)
        /\ UNCHANGED <<rowVars, resume, resumed, started, result, told, active,
                       marks, poolVars, closeVars, server>>

(* resolve: the file is proven, or it is deleted and the upload starts over. *)
Verify(a) ==
    /\ pc[a] = "verifying"
    /\ \/ /\ HasPool
          /\ partial[a] \in onServer
          /\ pc' = [pc EXCEPT ![a] = "ready"]
          /\ resumed' = [resumed EXCEPT ![a] = TRUE]
          /\ UNCHANGED cleanup
       \/ /\ pc' = [pc EXCEPT ![a] = "discarding"]
          /\ StartCleanup(partial[a])
          /\ UNCHANGED resumed
    /\ UNCHANGED <<rowVars, resume, partial, started, result, told, registry,
                   poolVars, closeVars, server>>

(* Mutant: the new staging file has the name of the refused one. *)
DiscardedSameName(a) ==
    /\ At(a, "discarding", "ready")
    /\ UNCHANGED <<rowVars, localVars, told, registry, poolVars, cleanup, closeVars, server>>

(* cleanup_remote_partial returned: the cleanup ended, or it outlasted      *)
(* SETTLE_BUDGET and goes on in the background.                             *)
Discarded(a) ==
    /\ At(a, "discarding", "ready")
    /\ partial' = [partial EXCEPT ![a] = a]
    /\ UNCHANGED <<rowVars, resume, resumed, started, result, told, registry,
                   poolVars, cleanup, closeVars, server>>

Begin(a) ==
    /\ At(a, "ready", "begun")
    /\ active' = active \cup {a}
    /\ UNCHANGED <<rowVars, localVars, told, paused, marks, poolVars, cleanup,
                   closeVars, server>>

(* run_pool_task gives the task to the pool. *)
Submit(a) ==
    /\ pc[a] = "begun"
    /\ poolCancelled' = IF HasPool THEN poolCancelled \ {a} ELSE poolCancelled
    /\ IF HasPool /\ a \notin poolCancelled
       THEN /\ pc' = [pc EXCEPT ![a] = "queued"]
            /\ UNCHANGED <<result, lease>>
       ELSE /\ pc' = [pc EXCEPT ![a] = "ended"]
            /\ result' = [result EXCEPT ![a] = IF HasPool THEN "cancelled" ELSE "failed"]
            /\ DropLease(a)
    /\ UNCHANGED <<rowVars, resume, resumed, partial, started, told, registry,
                   token, cleanup, closeVars, server>>

Dispatch(a) ==
    /\ At(a, "queued", "running")
    /\ UNCHANGED <<rowVars, localVars, told, registry, poolVars, cleanup, closeVars, server>>

(* The task's checks passed and the file is being written, if the server   *)
(* let it be created.                                                      *)
Write(a) ==
    /\ At(a, "running", "writing")
    /\ started' = [started EXCEPT ![a] = TRUE]
    /\ \/ onServer' = onServer \cup {partial[a]}
       \/ UNCHANGED onServer
    /\ UNCHANGED <<rowVars, resume, resumed, partial, result, told, registry,
                   poolVars, cleanup, closeVars, reported>>

(* The task ends and with it the reservation.                              *)
Finish(a, how) ==
    /\ pc[a] \in {"running", "writing"}
    /\ result' = [result EXCEPT ![a] = how]
    /\ DropLease(a)
    /\ token' = token \ {a}
    /\ UNCHANGED <<rowVars, resume, resumed, partial, started, told, registry,
                   poolCancelled, cleanup, closeVars, reported>>

Renamed(a) == partial[a] \in onServer /\ onServer' = onServer \ {partial[a]}

FinishWhole(a) ==
    /\ Finish(a, "ok")
    /\ At(a, "writing", "ended")
    /\ Renamed(a)

FinishFailed(a) ==
    /\ Finish(a, "failed")
    /\ pc' = [pc EXCEPT ![a] = "ended"]
    /\ UNCHANGED onServer

(* The connection broke while the whole file was being put in place.       *)
FinishUnknown(a) ==
    /\ Finish(a, "failed")
    /\ At(a, "writing", "unsure")
    /\ Renamed(a) \/ (partial[a] \in onServer /\ UNCHANGED onServer)

(* The pool drops a cancelled task where it stands, a rename included.     *)
FinishCancelled(a) ==
    /\ a \in token
    /\ Finish(a, "cancelled")
    /\ \/ pc[a] = "writing" /\ Renamed(a)
       \/ UNCHANGED onServer
    /\ pc' = [pc EXCEPT ![a] = "ended"]

(* published_anyway asks the browsing connection. *)
PublishedAnyway(a) ==
    /\ At(a, "unsure", "ended")
    /\ \/ /\ HasPool
          /\ partial[a] \notin onServer
          /\ result' = [result EXCEPT ![a] = "ok"]
       \/ UNCHANGED result
    /\ UNCHANGED <<rowVars, resume, resumed, partial, started, told, registry,
                   poolVars, cleanup, closeVars, server>>

(* settle_upload up to the registry's lock: whether the connection is live *)
(* is read here and used under the lock.                                   *)
Settle(a) ==
    /\ pc[a] = "ended"
    /\ pc' = [pc EXCEPT ![a] = IF Unfinished(a) /\ HasPool THEN "live" ELSE "notlive"]
    /\ UNCHANGED <<rowVars, localVars, told, registry, poolVars, cleanup, closeVars, server>>

IsMarked(a) == \E i \in DOMAIN marks : marks[i] = a
Unmark(a) ==
    IF IsMarked(a) THEN RemoveAt(marks, CHOOSE i \in DOMAIN marks : marks[i] = a) ELSE marks

(* Mutant: an attempt that ends while the connection closes is forgotten. *)
ForgetClosing(a, kept) == IF kept \/ pc[a] = "notlive" THEN active \ {a} ELSE active

(* What end_attempt leaves in the active map. *)
ActiveAfter(a, kept) == IF kept \/ ~Unfinished(a) THEN active \ {a} ELSE active

(* end_attempt, under the registry's lock: what a disconnect swept is      *)
(* gone, what finished needs no record, a closing connection keeps it, a   *)
(* pause makes it the destination's, anything else is cleaned up.          *)
EndAttempt(a) ==
    /\ pc[a] \in {"live", "notlive"}
    /\ marks' = Unmark(a)
    /\ LET mine == a \in active /\ pc[a] = "live"
           kept == mine /\ IsMarked(a)
           file == partial[a]
       IN  /\ active' = ActiveAfter(a, kept)
           /\ IF kept
              THEN paused' = [paused EXCEPT ![Target(a)] = [file |-> file, attempt |-> a]]
              ELSE UNCHANGED paused
           /\ IF mine /\ ~kept
              THEN /\ pc' = [pc EXCEPT ![a] = "cleaning"]
                   /\ StartCleanup(file)
              ELSE /\ pc' = [pc EXCEPT ![a] = "returned"]
                   /\ UNCHANGED cleanup
    /\ UNCHANGED <<rowVars, localVars, told, poolVars, closeVars, server>>

(* The attempt's own cleanup returned, or its budget is over: release,     *)
(* unless there was no session to clean with.                              *)
Cleaned(a) ==
    /\ At(a, "cleaning", "returned")
    /\ active' = IF cleanup[partial[a]] = "nosession" THEN active ELSE active \ {a}
    /\ UNCHANGED <<rowVars, localVars, told, paused, marks, poolVars, cleanup,
                   closeVars, server>>
-----------------------------------------------------------------------------
(* transfer_cancel.  A row's commands begin in the order they were sent.   *)

NextCall(a, kind) ==
    /\ calls[a[1]] # <<>> /\ Head(calls[a[1]]) = <<kind, a>>
    /\ calls' = [calls EXCEPT ![a[1]] = Tail(@)]

(* Mutant: the cap keeps one mark fewer, none at all when it is 1. *)
CappedOneShort(seq) == IF Len(seq) >= MarkCap THEN Tail(seq) ELSE seq

Capped(seq) == IF Len(seq) > MarkCap THEN Tail(seq) ELSE seq

(* mark_paused. *)
BeginPause(a) ==
    /\ NextCall(a, "pause")
    /\ marks' = IF IsMarked(a) THEN marks ELSE Capped(Append(marks, a))
    /\ told' = [told EXCEPT ![a] = @ \cup {"pause"}]
    /\ UNCHANGED <<row, tries, intent, pc, localVars, active, paused, poolVars, cleanup,
                   closeVars, server>>

(* Mutant: a Stop does not take back the mark of the Pause it overtakes. *)
LeaveMark(a) == marks

(* stop, under the registry's lock: the mark goes, and what a finished     *)
(* pause kept is taken and cleaned up.                                     *)
TakeMark(a) == Unmark(a)

BeginStop(a) ==
    /\ NextCall(a, "stop")
    /\ marks' = TakeMark(a)
    /\ LET entry == paused[Target(a)]
       IN  IF entry # None /\ entry.attempt = a
           THEN /\ Take(Target(a))
                /\ StartCleanup(entry.file)
           ELSE UNCHANGED <<paused, cleanup>>
    /\ told' = [told EXCEPT ![a] = @ \cup {"stop"}]
    /\ UNCHANGED <<row, tries, intent, pc, localVars, active, poolVars, closeVars, server>>

(* Mutant: the pool does not remember a Stop that comes before its task. *)
RememberNothing(a) == poolCancelled

RememberCancelled(a) == poolCancelled \cup {a}

Submitted(a) ==
    pc[a] \in {"unsure", "ended", "live", "notlive", "cleaning", "returned", "over"}

(* pool.cancel, where there still is a pool.  A Stop that cleans a file     *)
(* gets here later, and means an attempt that is over; the id the pool then *)
(* remembers is never submitted again, and left out.                       *)
PoolCancel(a) ==
    /\ \E k \in told[a] : told' = [told EXCEPT ![a] = @ \ {k}]
    /\ IF ~HasPool \/ Submitted(a)
       THEN UNCHANGED <<pc, result, lease, token, poolCancelled>>
       ELSE IF pc[a] = "queued"
       THEN /\ pc' = [pc EXCEPT ![a] = "ended"]
            /\ result' = [result EXCEPT ![a] = "cancelled"]
            /\ DropLease(a)
            /\ UNCHANGED <<token, poolCancelled>>
       ELSE IF pc[a] \in {"running", "writing"}
       THEN /\ token' = token \cup {a}
            /\ UNCHANGED <<pc, result, lease, poolCancelled>>
       ELSE /\ poolCancelled' = RememberCancelled(a)
            /\ UNCHANGED <<pc, result, lease, token>>
    /\ UNCHANGED <<rowVars, resume, resumed, partial, started, registry, cleanup,
                   closeVars, server>>
-----------------------------------------------------------------------------
(* clean_staging, on the browsing connection or, when that is busy, on a   *)
(* transfer connection.  One that holds the session's slot when the        *)
(* disconnect removes it still reaches the server.                         *)

CleanRemoves(f) ==
    /\ cleanup[f] = "running"
    /\ session \in {"open", "leaving", "removed"}
    /\ cleanup' = [cleanup EXCEPT ![f] = "none"]
    /\ onServer' = onServer \ {f}
    /\ UNCHANGED <<rowVars, pc, localVars, told, registry, poolVars, closeVars, reported>>

(* The server will not let the file go: log_staging_left.                  *)
CleanGivesUp(f) ==
    /\ cleanup[f] = "running"
    /\ f \in onServer
    /\ session \in {"open", "leaving", "removed"}
    /\ cleanup' = [cleanup EXCEPT ![f] = "none"]
    /\ reported' = reported \cup {f}
    /\ UNCHANGED <<rowVars, pc, localVars, told, registry, poolVars, closeVars, onServer>>

CleanFindsNoSession(f) ==
    /\ cleanup[f] = "running"
    /\ ~HasPool
    /\ cleanup' = [cleanup EXCEPT ![f] = "nosession"]
    /\ UNCHANGED <<rowVars, pc, localVars, told, registry, poolVars, closeVars, server>>
-----------------------------------------------------------------------------
(* disconnect and teardown_session. *)

(* Sessions::remove: no lookup finds the session any more, and cancel_all  *)
(* closes the pool.                                                        *)
RemoveSession ==
    /\ session = "leaving"
    /\ session' = "removed"
    /\ LET queued == {a \in Attempts : pc[a] = "queued"}
           running == {a \in Attempts : pc[a] \in {"running", "writing"}}
       IN  /\ pc' = [a \in Attempts |-> IF a \in queued THEN "ended" ELSE pc[a]]
           /\ result' = [a \in Attempts |-> IF a \in queued THEN "cancelled" ELSE result[a]]
           /\ lease' = [t \in Targets |-> IF lease[t] \in queued THEN None ELSE lease[t]]
           /\ token' = token \cup running
    /\ UNCHANGED <<rowVars, resume, resumed, partial, started, told, registry,
                   poolCancelled, cleanup, sweep, server>>

(* The slot is locked and emptied; destroy repeats what cancel_all did.    *)
TakeSession ==
    /\ session = "removed"
    /\ session' = "taken"
    /\ UNCHANGED <<rowVars, pc, localVars, told, registry, poolVars, cleanup, sweep, server>>

Recorded == {partial[a] : a \in active}
            \cup {paused[t].file : t \in {t \in Targets : paused[t] # None}}

(* wait_until_idle, then the head of discard_for_connection.               *)
Sweep ==
    /\ session = "taken"
    /\ \A a \in Attempts : pc[a] \notin {"running", "writing"}
    /\ session' = "sweeping"
    /\ sweep' = Recorded
    /\ active' = {}
    /\ paused' = [t \in Targets |-> None]
    /\ UNCHANGED <<rowVars, pc, localVars, told, marks, poolVars, cleanup, server>>

(* remove_staging_on: the file goes, or the log says that it stays.        *)
SweepOne(f) ==
    /\ session = "sweeping"
    /\ f \in sweep
    /\ sweep' = sweep \ {f}
    /\ \/ onServer' = onServer \ {f} /\ UNCHANGED reported
       \/ f \in onServer /\ reported' = reported \cup {f} /\ UNCHANGED onServer
    /\ UNCHANGED <<rowVars, pc, localVars, told, registry, poolVars, cleanup, session>>

(* The session is dropped, swept or overtaken by the deadline: whatever is *)
(* recorded by then is logged as retained (retain_for_connection), and     *)
(* what was to be swept was logged when it was taken.                      *)
CloseSession ==
    /\ session \in {"removed", "taken", "sweeping"}
    /\ session' = "closed"
    /\ reported' = reported \cup Recorded \cup sweep
    /\ active' = {}
    /\ paused' = [t \in Targets |-> None]
    /\ sweep' = {}
    /\ UNCHANGED <<rowVars, pc, localVars, told, marks, poolVars, cleanup, onServer>>
-----------------------------------------------------------------------------
(* The steps of an attempt that need nobody's decision. *)
Unwind(a) ==
    \/ Reserve(a) \/ Claim(a) \/ Verify(a) \/ Discarded(a) \/ Begin(a) \/ Submit(a)
    \/ FinishCancelled(a) \/ PublishedAnyway(a) \/ Settle(a) \/ EndAttempt(a)
    \/ Cleaned(a) \/ Answer(a)

Run(a) ==
    \/ Dispatch(a) \/ Write(a)
    \/ FinishWhole(a) \/ FinishFailed(a) \/ FinishUnknown(a)

Cancel(a) == BeginPause(a) \/ BeginStop(a) \/ PoolCancel(a)

Clean(f) == CleanRemoves(f) \/ CleanGivesUp(f) \/ CleanFindsNoSession(f)

Close == RemoveSession \/ TakeSession \/ Sweep \/ CloseSession \/ \E f \in Attempts : SweepOne(f)

User(u) == Upload(u) \/ Resume(u) \/ Retry(u) \/ Approve(u) \/ AskPause(u) \/ AskStop(u)

Next ==
    \/ \E u \in Uploads : User(u)
    \/ CloseTab \/ CloseRows \/ Close
    \/ \E a \in Attempts : Unwind(a) \/ Run(a) \/ Cancel(a) \/ Clean(a)

Spec == Init /\ [][Next]_vars

(* Tasks and commands are scheduled and a cancelled task ends, as           *)
(* TransferPool shows; a transfer need not end by itself, nor the user act. *)
FairSpec ==
    /\ Spec
    /\ \A a \in Attempts : WF_vars(Unwind(a)) /\ WF_vars(Cancel(a))
-----------------------------------------------------------------------------
Places == {"unused", "asked", "called", "reserved", "verifying", "discarding", "ready",
           "begun", "queued", "running", "writing", "unsure", "ended", "live", "notlive",
           "cleaning", "returned", "over"}

(* The variables' types: rows, attempts, the registry and the session.     *)
TypeOK ==
    /\ row \in [Uploads -> {"none", "active", "cancelling", "paused", "stopped", "error", "done"}]
    /\ tries \in [Uploads -> 0 .. MaxTries]
    /\ intent \in [Uploads -> {"none", "paused", "stopped"}]
    /\ calls \in [Uploads -> Seq({"pause", "stop"} \X Attempts)]
    /\ pc \in [Attempts -> Places]
    /\ resume \in [Attempts -> BOOLEAN] /\ resumed \in [Attempts -> BOOLEAN]
    /\ partial \in [Attempts -> Attempts]
    /\ started \in [Attempts -> BOOLEAN]
    /\ result \in [Attempts -> {"none", "ok", "failed", "cancelled"}]
    /\ told \in [Attempts -> SUBSET {"pause", "stop"}]
    /\ active \subseteq Attempts
    /\ paused \in [Targets -> RECORD \cup {None}]
    /\ marks \in Seq(Attempts) /\ Len(marks) <= MarkCap
    /\ lease \in [Targets -> Attempts \cup {None}]
    /\ token \subseteq Attempts /\ poolCancelled \subseteq Attempts
    /\ cleanup \in [Attempts -> {"none", "running", "nosession"}]
    /\ session \in {"open", "leaving", "removed", "taken", "sweeping", "closed"}
    /\ sweep \subseteq Attempts
    /\ onServer \subseteq Attempts /\ reported \subseteq Attempts

(* Files that an attempt has claimed and not yet recorded as its own.      *)
Claimed == {partial[a] : a \in {b \in Attempts : pc[b] \in {"verifying", "ready"}}}

(* A staging file on the server is never lost sight of: it is recorded,    *)
(* claimed by an attempt, being removed, or a log line names it.  The one  *)
(* exception is what a cleanup without a session leaves to the teardown.   *)
NoFileIsForgotten ==
    \A f \in onServer :
        \/ f \in Recorded \cup Claimed \cup sweep \cup reported
        \/ cleanup[f] \in {"running", "nosession"}

(* An upload that a Pause ended, with no Stop after it, is never cleaned    *)
(* up: end_attempt always finds the mark that transfer_cancel set.         *)
PauseIsKept ==
    \A u \in Uploads : \A a \in Attempts :
        a = Current(u) /\ result[a] = "cancelled" /\ intent[u] = "paused"
            => pc[a] # "cleaning"

(* Once the Stop of an attempt has begun and the attempt is over, nothing  *)
(* is kept for it, whichever of Pause, Stop and unwinding came first.      *)
StopLeavesNoRecord ==
    \A u \in Uploads : \A a \in Attempts :
        /\ a = Current(u) /\ intent[u] = "stopped" /\ calls[u] = <<>>
        /\ pc[a] \in {"returned", "over"}
        => paused[Target(a)] = None \/ paused[Target(a)].attempt # a

(* A file that an attempt may be writing is nobody else's: no record that a *)
(* Stop could take, no cleanup, no sweep and no other attempt has it.      *)
OneWriter ==
    \A a \in Attempts : pc[a] \in {"queued", "running", "writing"} =>
        /\ cleanup[partial[a]] # "running"
        /\ partial[a] \notin sweep
        /\ \A t \in Targets : paused[t] # None => paused[t].file # partial[a]
        /\ \A b \in Attempts \ {a} :
            partial[b] = partial[a] => pc[b] \in {"unused", "returned", "over"}

(* A row that is being cancelled settles, whatever its attempt was doing   *)
(* when the command came, unless it waits for the user's answer.           *)
EveryCancelSettles ==
    \A u \in Uploads :
        row[u] = "cancelling" ~> (row[u] # "cancelling" \/ \E a \in Attempts : pc[a] = "asked")

(* What staging_cleanup.rs says of a cleanup that finds no session: the    *)
(* file is left to the teardown that took it.  So once the connection is   *)
(* closed, the file is gone or a log line names it.                        *)
LeftToTheTeardown ==
    \A f \in onServer : cleanup[f] = "nosession" /\ session = "closed" => f \in reported
=============================================================================
