--------------------- MODULE UploadStaging_files_proofs ---------------------
(***************************************************************************)
(* That no staging file is lost sight of, for any number of rows with      *)
(* destinations of their own, any number of attempts, any cap on the marks.*)
(* Then what a Stop and a Pause do to what is kept, for any rows.          *)
(***************************************************************************)
EXTENDS UploadStaging_proofs, FiniteSetTheorems

OneRowPerTarget == \A u, v \in Uploads : TargetOf[u] = TargetOf[v] => u = v

(* From the claim to the end of end_attempt's cleanup. *)
Working ==
    {"verifying", "discarding", "ready", "begun", "queued", "running", "writing",
     "unsure", "ended", "live", "notlive", "cleaning"}

(* A row has at most its last attempt in flight, and shows it until the    *)
(* connection is closing.                                                  *)
Latest ==
    \A a \in Attempts : pc[a] \notin {"unused", "over"} =>
        /\ a[2] = tries[a[1]]
        /\ Dead \/ row[a[1]] \in {"active", "cancelling"}

(* What was kept for a destination is taken before an attempt works on it. *)
NoRecord == \A a \in Attempts : pc[a] \in Working => paused[Target(a)] = None

(* A file exists only if its maker got as far as writing it. *)
MadeByWriting ==
    \A a \in Attempts :
        /\ started[a] => pc[a] \in {"writing", "unsure", "ended", "live", "notlive",
                                    "cleaning", "returned"}
        /\ a \in onServer => started[a] \/ pc[a] \in Done

(* An attempt begins with a file of its own; one that works on another's   *)
(* knows that it resumed, one that ended well has renamed its file, one to *)
(* be recorded is unfinished.                                              *)
KnowsItsFile ==
    \A a \in Attempts :
        /\ pc[a] \in {"unused", "asked", "called", "reserved"} => partial[a] = a
        /\ pc[a] \in Working \ {"verifying", "discarding"} /\ partial[a] # a => resumed[a]
        /\ pc[a] \in {"unsure", "ended", "live", "notlive"} /\ result[a] = "ok"
            => partial[a] \notin onServer
        /\ pc[a] = "live" => Unfinished(a)

(* An attempt that may write is in the active map, unless the session is   *)
(* closed and the log named its file.                                      *)
WritersAreActive ==
    /\ \A a \in active : pc[a] \in {"begun", "queued", "running", "writing", "unsure", "ended",
                                    "live", "notlive", "cleaning", "returned", "over"}
    /\ \A a \in Attempts :
        /\ pc[a] = "begun" /\ HasPool => a \in active
        /\ pc[a] \in {"queued", "running", "writing"} => a \in active \/ partial[a] \in reported

(* An attempt releases its file only when the cleanup took it over. *)
CleaningIsCovered ==
    \A a \in Attempts : pc[a] = "cleaning" =>
        \/ partial[a] \notin onServer
        \/ partial[a] \in reported
        \/ cleanup[partial[a]] \in {"running", "nosession"}

FInv ==
    /\ IInv /\ Latest /\ NoRecord /\ MadeByWriting /\ KnowsItsFile
    /\ WritersAreActive /\ CleaningIsCovered /\ NoFileIsForgotten
-----------------------------------------------------------------------------
(* NoFileIsForgotten, file by file. *)
Accounted(f) ==
    \/ \E a \in active : partial[a] = f
    \/ \E t \in Targets : paused[t] # None /\ paused[t].file = f
    \/ \E a \in Attempts : pc[a] \in {"verifying", "ready"} /\ partial[a] = f
    \/ f \in sweep \/ f \in reported
    \/ cleanup[f] \in {"running", "nosession"}

(* The property is that every file on the server is accounted for. *)
LEMMA AccountedFiles == NoFileIsForgotten <=> \A f \in onServer : Accounted(f)
  BY DEF NoFileIsForgotten, Recorded, Claimed, Accounted

(* A step that loses no account of a file. *)
Keeps ==
    /\ onServer' \subseteq onServer
    /\ active \subseteq active' /\ partial' = partial
    /\ \A t \in Targets : paused[t] # None => paused'[t] = paused[t]
    /\ \A a \in Attempts : pc[a] \in {"verifying", "ready"} => pc'[a] \in {"verifying", "ready"}
    /\ sweep \subseteq sweep' /\ reported \subseteq reported'
    /\ \A f \in onServer' : cleanup[f] \in {"running", "nosession"} =>
            cleanup'[f] \in {"running", "nosession"} \/ f \in reported'

(* A step that keeps accounts forgets no file. *)
LEMMA KeepsAccounts ==
    ASSUME TypeOK, \A f \in onServer : Accounted(f), Keeps
    PROVE  \A f \in onServer' : Accounted(f)'
<1> SUFFICES ASSUME NEW f \in onServer' PROVE Accounted(f)'
  OBVIOUS
<1>1. f \in onServer /\ Accounted(f)
  BY DEF Keeps
<1>2. \A a \in active : a \in Attempts
  BY DEF TypeOK
<1>3. QED
  BY <1>1, <1>2 DEF Keeps, Accounted

-----------------------------------------------------------------------------
(* Two attempts in flight for one destination are the same attempt. *)
LEMMA Alone ==
    ASSUME OneRowPerTarget, TypeOK, Latest, NEW a \in Attempts, NEW b \in Attempts,
           Target(a) = Target(b),
           pc[a] \notin {"unused", "over"}, pc[b] \notin {"unused", "over"}
    PROVE  a = b
<1>1. a[1] = b[1]
  BY AttemptTypes DEF OneRowPerTarget, Target
<1>2. a[2] = b[2]
  BY <1>1 DEF Latest
<1>3. QED
  BY <1>1, <1>2, AttemptTypes

(* The three ways to start an attempt: it is the row's next, and unused. *)
LEMMA Fresh ==
    ASSUME TypeOK, TriesCount, NEW u \in Uploads, Upload(u) \/ Resume(u) \/ Retry(u)
    PROVE  \E a \in Attempts, at \in {"called", "asked"} :
              /\ a[1] = u /\ pc[a] = "unused" /\ pc' = [pc EXCEPT ![a] = at]
              /\ UNCHANGED <<calls, resumed, partial, started, result, told, registry,
                             poolVars, cleanup, closeVars, server>>
<1>1. ASSUME NEW at \in {"called", "asked"}, NEW wants, NewAttempt(u, at, wants)
      PROVE  \E a \in Attempts :
                /\ a[1] = u /\ pc[a] = "unused" /\ pc' = [pc EXCEPT ![a] = at]
                /\ UNCHANGED <<calls, resumed, partial, started, result, told, registry,
                               poolVars, cleanup, closeVars, server>>
  <2> DEFINE a == <<u, tries[u] + 1>>
  <2>1. tries[u] \in Nat /\ tries[u] + 1 \in 1 .. MaxTries
    BY <1>1, StagingAssumption DEF NewAttempt, TypeOK
  <2>2. a \in Attempts /\ a[1] = u /\ a[2] = tries[u] + 1
    BY <2>1 DEF Attempts
  <2>3. pc[a] = "unused"
    BY <2>1, <2>2 DEF TriesCount
  <2>4. QED
    BY <1>1, <2>2, <2>3 DEF NewAttempt
<1>2. "called" \in {"called", "asked"} /\ "asked" \in {"called", "asked"}
  OBVIOUS
<1>3. PICK at \in {"called", "asked"}, wants \in BOOLEAN : NewAttempt(u, at, wants)
  BY <1>2 DEF Upload, Resume, Retry
<1>4. QED
  BY <1>1, <1>3

-----------------------------------------------------------------------------
(* The last attempt of a row stays the only one in flight. *)
LEMMA LatestStep == TypeOK /\ TriesCount /\ Latest /\ Next => Latest'
<1> SUFFICES ASSUME TypeOK, TriesCount, Latest, Next PROVE Latest'
  OBVIOUS
<1> USE DEF rowVars, localVars, registry, poolVars, closeVars, server
<1>Upload. ASSUME NEW u \in Uploads, Upload(u) PROVE Latest'
  BY <1>Upload DEF Upload, NewAttempt, Latest, Dead, TypeOK
<1>Resume. ASSUME NEW u \in Uploads, Resume(u) PROVE Latest'
  BY <1>Resume DEF Resume, NewAttempt, Latest, Dead, TypeOK
<1>Retry. ASSUME NEW u \in Uploads, Retry(u) PROVE Latest'
  BY <1>Retry DEF Retry, NewAttempt, Latest, Dead, TypeOK
<1>Approve. ASSUME NEW u \in Uploads, Approve(u) PROVE Latest'
  <2>1. Current(u) \in Attempts /\ Current(u)[1] = u /\ Current(u)[2] = tries[u]
    BY <1>Approve, CurrentTypes DEF Approve, Current
  <2>2. tries' = tries /\ session' = session
    BY <1>Approve DEF Approve
  <2>3. CASE intent[u] = "none" /\ At(Current(u), "asked", "called") /\ UNCHANGED row
    BY <2>1, <2>2, <2>3 DEF At, Latest, Dead, TypeOK
  <2>4. CASE At(Current(u), "asked", "over") /\ row' = [row EXCEPT ![u] = "stopped"]
    <3> SUFFICES ASSUME NEW b \in Attempts, pc'[b] \notin {"unused", "over"}
                 PROVE  b[2] = tries'[b[1]] /\ (Dead' \/ row'[b[1]] \in {"active", "cancelling"})
      BY DEF Latest
    <3>1. b # Current(u) /\ pc[b] \notin {"unused", "over"}
      BY <2>1, <2>4 DEF At, TypeOK
    <3>2. b[2] = tries[b[1]] /\ (Dead \/ row[b[1]] \in {"active", "cancelling"})
      BY <3>1 DEF Latest
    <3>3. b[1] # u
      BY <2>1, <3>1, <3>2, AttemptTypes DEF Current
    <3>4. QED
      BY <2>2, <2>4, <3>2, <3>3, AttemptTypes DEF Dead, TypeOK
  <2>5. QED
    BY <1>Approve, <2>3, <2>4 DEF Approve
<1>AskPause. ASSUME NEW u \in Uploads, AskPause(u) PROVE Latest'
  BY <1>AskPause DEF AskPause, Latest, Dead, TypeOK
<1>AskStop. ASSUME NEW u \in Uploads, AskStop(u) PROVE Latest'
  <2>1. \A v \in Uploads : row[v] \in {"active", "cancelling"} => row'[v] \in {"active", "cancelling"}
    BY <1>AskStop DEF AskStop, MayStop, StopRows, TypeOK
  <2>2. QED
    BY <1>AskStop, <2>1, AttemptTypes DEF AskStop, Latest, Dead
<1>CloseTab. ASSUME CloseTab PROVE Latest'
  BY <1>CloseTab DEF CloseTab, MayStop, StopRows, Latest, Dead, TypeOK
<1>CloseRows. ASSUME CloseRows PROVE Latest'
  BY <1>CloseRows DEF CloseRows, Latest, Dead, TypeOK
<1>RemoveSession. ASSUME RemoveSession PROVE Latest'
  BY <1>RemoveSession DEF RemoveSession, Latest, Dead, TypeOK
<1>TakeSession. ASSUME TakeSession PROVE Latest'
  BY <1>TakeSession DEF TakeSession, Latest, Dead, TypeOK
<1>Sweep. ASSUME Sweep PROVE Latest'
  BY <1>Sweep DEF Sweep, Latest, Dead, TypeOK
<1>CloseSession. ASSUME CloseSession PROVE Latest'
  BY <1>CloseSession DEF CloseSession, Latest, Dead, TypeOK
<1>SweepOne. ASSUME NEW f \in Attempts, SweepOne(f) PROVE Latest'
  BY <1>SweepOne DEF SweepOne, Latest, Dead, TypeOK
<1>Answer. ASSUME NEW a \in Attempts, Answer(a) PROVE Latest'
  <2>1. pc[a] = "returned" /\ pc' = [pc EXCEPT ![a] = "over"] /\ tries' = tries /\ session' = session
    BY <1>Answer DEF Answer, At
  <2> SUFFICES ASSUME NEW b \in Attempts, pc'[b] \notin {"unused", "over"}
               PROVE  b[2] = tries'[b[1]] /\ (Dead' \/ row'[b[1]] \in {"active", "cancelling"})
    BY DEF Latest
  <2>2. b # a /\ pc[b] \notin {"unused", "over"}
    BY <2>1 DEF TypeOK
  <2>3. b[2] = tries[b[1]] /\ (Dead \/ row[b[1]] \in {"active", "cancelling"})
    BY <2>2 DEF Latest
  <2>4. a[2] = tries[a[1]]
    BY <2>1 DEF Latest
  <2>5. b[1] # a[1]
    BY <2>2, <2>3, <2>4, AttemptTypes
  <2>6. row'[b[1]] = row[b[1]]
    BY <1>Answer, <2>5, AttemptTypes DEF Answer, TypeOK
  <2>7. QED
    BY <2>1, <2>3, <2>6 DEF Dead
<1>Reserve. ASSUME NEW a \in Attempts, Reserve(a) PROVE Latest'
  BY <1>Reserve DEF Reserve, Latest, Dead, TypeOK
<1>Claim. ASSUME NEW a \in Attempts, Claim(a) PROVE Latest'
  <2>1. /\ pc[a] = "reserved" /\ tries' = tries /\ row' = row /\ session' = session
        /\ \E to : pc' = [pc EXCEPT ![a] = to]
    BY <1>Claim DEF Claim
  <2>2. QED
    BY <2>1 DEF Latest, Dead, TypeOK
<1>Verify. ASSUME NEW a \in Attempts, Verify(a) PROVE Latest'
  BY <1>Verify DEF Verify, StartCleanup, Latest, Dead, TypeOK
<1>Discarded. ASSUME NEW a \in Attempts, Discarded(a) PROVE Latest'
  BY <1>Discarded DEF Discarded, At, Latest, Dead, TypeOK
<1>Begin. ASSUME NEW a \in Attempts, Begin(a) PROVE Latest'
  BY <1>Begin DEF Begin, At, Latest, Dead, TypeOK
<1>Submit. ASSUME NEW a \in Attempts, Submit(a) PROVE Latest'
  BY <1>Submit DEF Submit, Latest, Dead, TypeOK
<1>FinishCancelled. ASSUME NEW a \in Attempts, FinishCancelled(a) PROVE Latest'
  BY <1>FinishCancelled DEF FinishCancelled, Finish, Renamed, Latest, Dead, TypeOK
<1>PublishedAnyway. ASSUME NEW a \in Attempts, PublishedAnyway(a) PROVE Latest'
  BY <1>PublishedAnyway DEF PublishedAnyway, At, Latest, Dead, TypeOK
<1>Settle. ASSUME NEW a \in Attempts, Settle(a) PROVE Latest'
  BY <1>Settle DEF Settle, Latest, Dead, TypeOK
<1>EndAttempt. ASSUME NEW a \in Attempts, EndAttempt(a) PROVE Latest'
  BY <1>EndAttempt DEF EndAttempt, ActiveAfter, StartCleanup, Latest, Dead, TypeOK
<1>Cleaned. ASSUME NEW a \in Attempts, Cleaned(a) PROVE Latest'
  BY <1>Cleaned DEF Cleaned, At, Latest, Dead, TypeOK
<1>Dispatch. ASSUME NEW a \in Attempts, Dispatch(a) PROVE Latest'
  BY <1>Dispatch DEF Dispatch, At, Latest, Dead, TypeOK
<1>Write. ASSUME NEW a \in Attempts, Write(a) PROVE Latest'
  BY <1>Write DEF Write, At, Latest, Dead, TypeOK
<1>FinishWhole. ASSUME NEW a \in Attempts, FinishWhole(a) PROVE Latest'
  BY <1>FinishWhole DEF FinishWhole, Finish, At, Renamed, Latest, Dead, TypeOK
<1>FinishFailed. ASSUME NEW a \in Attempts, FinishFailed(a) PROVE Latest'
  BY <1>FinishFailed DEF FinishFailed, Finish, Latest, Dead, TypeOK
<1>FinishUnknown. ASSUME NEW a \in Attempts, FinishUnknown(a) PROVE Latest'
  BY <1>FinishUnknown DEF FinishUnknown, Finish, At, Renamed, Latest, Dead, TypeOK
<1>BeginPause. ASSUME NEW a \in Attempts, BeginPause(a) PROVE Latest'
  BY <1>BeginPause DEF BeginPause, NextCall, Latest, Dead, TypeOK
<1>BeginStop. ASSUME NEW a \in Attempts, BeginStop(a) PROVE Latest'
  BY <1>BeginStop DEF BeginStop, Take, StartCleanup, Latest, Dead, TypeOK
<1>PoolCancel. ASSUME NEW a \in Attempts, PoolCancel(a) PROVE Latest'
  BY <1>PoolCancel DEF PoolCancel, Latest, Dead, TypeOK
<1>CleanRemoves. ASSUME NEW a \in Attempts, CleanRemoves(a) PROVE Latest'
  BY <1>CleanRemoves DEF CleanRemoves, Latest, Dead, TypeOK
<1>CleanGivesUp. ASSUME NEW a \in Attempts, CleanGivesUp(a) PROVE Latest'
  BY <1>CleanGivesUp DEF CleanGivesUp, Latest, Dead, TypeOK
<1>CleanFindsNoSession. ASSUME NEW a \in Attempts, CleanFindsNoSession(a) PROVE Latest'
  BY <1>CleanFindsNoSession DEF CleanFindsNoSession, Latest, Dead, TypeOK
<1>q. QED
  BY <1>Upload, <1>Resume, <1>Retry, <1>Approve, <1>AskPause, <1>AskStop, <1>CloseTab,
     <1>CloseRows, <1>RemoveSession, <1>TakeSession, <1>Sweep, <1>CloseSession,
     <1>SweepOne, <1>Answer, <1>Reserve, <1>Claim, <1>Verify, <1>Discarded, <1>Begin,
     <1>Submit, <1>FinishCancelled, <1>PublishedAnyway, <1>Settle, <1>EndAttempt,
     <1>Cleaned, <1>Dispatch, <1>Write, <1>FinishWhole, <1>FinishFailed, <1>FinishUnknown,
     <1>BeginPause, <1>BeginStop, <1>PoolCancel, <1>CleanRemoves, <1>CleanGivesUp,
     <1>CleanFindsNoSession DEF Next, User, Unwind, Run, Cancel, Clean, Close
-----------------------------------------------------------------------------
(* Only the attempt that worked on a destination leaves a record for it. *)
LEMMA NoRecordStep == OneRowPerTarget /\ IInv /\ Latest /\ NoRecord /\ Next => NoRecord'
<1> SUFFICES ASSUME OneRowPerTarget, IInv, Latest, NoRecord, Next PROVE NoRecord'
  OBVIOUS
<1> USE DEF rowVars, localVars, registry, poolVars, closeVars, server, IInv
<1>Upload. ASSUME NEW u \in Uploads, Upload(u) PROVE NoRecord'
  BY <1>Upload DEF Upload, NewAttempt, NoRecord, Working, TypeOK
<1>Resume. ASSUME NEW u \in Uploads, Resume(u) PROVE NoRecord'
  BY <1>Resume DEF Resume, NewAttempt, NoRecord, Working, TypeOK
<1>Retry. ASSUME NEW u \in Uploads, Retry(u) PROVE NoRecord'
  BY <1>Retry DEF Retry, NewAttempt, NoRecord, Working, TypeOK
<1>Approve. ASSUME NEW u \in Uploads, Approve(u) PROVE NoRecord'
  BY <1>Approve DEF Approve, At, NoRecord, Working, TypeOK
<1>AskPause. ASSUME NEW u \in Uploads, AskPause(u) PROVE NoRecord'
  BY <1>AskPause DEF AskPause, NoRecord, Working, TypeOK
<1>AskStop. ASSUME NEW u \in Uploads, AskStop(u) PROVE NoRecord'
  BY <1>AskStop DEF AskStop, MayStop, StopRows, NoRecord, Working, TypeOK
<1>CloseTab. ASSUME CloseTab PROVE NoRecord'
  BY <1>CloseTab DEF CloseTab, MayStop, StopRows, NoRecord, Working, TypeOK
<1>CloseRows. ASSUME CloseRows PROVE NoRecord'
  BY <1>CloseRows DEF CloseRows, NoRecord, Working, TypeOK
<1>RemoveSession. ASSUME RemoveSession PROVE NoRecord'
  BY <1>RemoveSession DEF RemoveSession, NoRecord, Working, TypeOK
<1>TakeSession. ASSUME TakeSession PROVE NoRecord'
  BY <1>TakeSession DEF TakeSession, NoRecord, Working, TypeOK
<1>Sweep. ASSUME Sweep PROVE NoRecord'
  <2>1. pc' = pc /\ \A t \in Targets : paused'[t] = None
    BY <1>Sweep DEF Sweep
  <2>2. QED
    BY <2>1, AttemptTypes DEF NoRecord, Target
<1>CloseSession. ASSUME CloseSession PROVE NoRecord'
  <2>1. pc' = pc /\ \A t \in Targets : paused'[t] = None
    BY <1>CloseSession DEF CloseSession
  <2>2. QED
    BY <2>1, AttemptTypes DEF NoRecord, Target
<1>SweepOne. ASSUME NEW f \in Attempts, SweepOne(f) PROVE NoRecord'
  BY <1>SweepOne DEF SweepOne, NoRecord, Working, TypeOK
<1>Answer. ASSUME NEW a \in Attempts, Answer(a) PROVE NoRecord'
  BY <1>Answer DEF Answer, At, NoRecord, Working, TypeOK
<1>Reserve. ASSUME NEW a \in Attempts, Reserve(a) PROVE NoRecord'
  BY <1>Reserve DEF Reserve, NoRecord, Working, TypeOK
<1>Claim. ASSUME NEW a \in Attempts, Claim(a) PROVE NoRecord'
  <2>1. Target(a) \in Targets /\ paused' = [paused EXCEPT ![Target(a)] = None]
    BY <1>Claim, AttemptTypes DEF Claim, Take
  <2>2. \E to : pc' = [pc EXCEPT ![a] = to]
    BY <1>Claim DEF Claim
  <2>3. paused'[Target(a)] = None /\ \A t \in Targets : paused'[t] \in {None, paused[t]}
    BY <2>1 DEF TypeOK
  <2>4. \A b \in Attempts : b # a => pc'[b] = pc[b]
    BY <2>2 DEF TypeOK
  <2>5. QED
    BY <2>3, <2>4, AttemptTypes DEF NoRecord, Target
<1>Verify. ASSUME NEW a \in Attempts, Verify(a) PROVE NoRecord'
  BY <1>Verify DEF Verify, StartCleanup, NoRecord, Working, TypeOK
<1>Discarded. ASSUME NEW a \in Attempts, Discarded(a) PROVE NoRecord'
  BY <1>Discarded DEF Discarded, At, NoRecord, Working, TypeOK
<1>Begin. ASSUME NEW a \in Attempts, Begin(a) PROVE NoRecord'
  BY <1>Begin DEF Begin, At, NoRecord, Working, TypeOK
<1>Submit. ASSUME NEW a \in Attempts, Submit(a) PROVE NoRecord'
  BY <1>Submit DEF Submit, NoRecord, Working, TypeOK
<1>FinishCancelled. ASSUME NEW a \in Attempts, FinishCancelled(a) PROVE NoRecord'
  BY <1>FinishCancelled DEF FinishCancelled, Finish, Renamed, NoRecord, Working, TypeOK
<1>PublishedAnyway. ASSUME NEW a \in Attempts, PublishedAnyway(a) PROVE NoRecord'
  BY <1>PublishedAnyway DEF PublishedAnyway, At, NoRecord, Working, TypeOK
<1>Settle. ASSUME NEW a \in Attempts, Settle(a) PROVE NoRecord'
  BY <1>Settle DEF Settle, NoRecord, Working, TypeOK
<1>EndAttempt. ASSUME NEW a \in Attempts, EndAttempt(a) PROVE NoRecord'
  <2>1. pc[a] \in {"live", "notlive"} /\ Target(a) \in Targets
    BY <1>EndAttempt, AttemptTypes DEF EndAttempt
  <2>2. \/ pc' = [pc EXCEPT ![a] = "returned"] /\ paused' = paused
        \/ pc' = [pc EXCEPT ![a] = "cleaning"] /\ paused' = paused
        \/ /\ pc' = [pc EXCEPT ![a] = "returned"]
           /\ \E r : paused' = [paused EXCEPT ![Target(a)] = r]
    BY <1>EndAttempt DEF EndAttempt
  <2> SUFFICES ASSUME NEW b \in Attempts, pc'[b] \in Working PROVE paused'[Target(b)] = None
    BY DEF NoRecord, Target
  <2>3. CASE b = a
    <3>1. pc' = [pc EXCEPT ![a] = "cleaning"] /\ paused' = paused
      BY <2>2, <2>3 DEF Working, TypeOK
    <3>2. QED
      BY <2>1, <2>3, <3>1 DEF NoRecord, Working
  <2>4. CASE b # a
    <3>1. pc[b] \in Working /\ paused[Target(b)] = None
      BY <2>2, <2>4 DEF NoRecord, TypeOK
    <3>2. pc[a] \notin {"unused", "over"} /\ pc[b] \notin {"unused", "over"}
      BY <2>1, <3>1 DEF Working
    <3>3. Target(b) # Target(a)
      BY <2>4, <3>2, Alone
    <3>4. QED
      BY <2>1, <2>2, <3>1, <3>3, AttemptTypes DEF TypeOK
  <2>5. QED
    BY <2>3, <2>4
<1>Cleaned. ASSUME NEW a \in Attempts, Cleaned(a) PROVE NoRecord'
  BY <1>Cleaned DEF Cleaned, At, NoRecord, Working, TypeOK
<1>Dispatch. ASSUME NEW a \in Attempts, Dispatch(a) PROVE NoRecord'
  BY <1>Dispatch DEF Dispatch, At, NoRecord, Working, TypeOK
<1>Write. ASSUME NEW a \in Attempts, Write(a) PROVE NoRecord'
  BY <1>Write DEF Write, At, NoRecord, Working, TypeOK
<1>FinishWhole. ASSUME NEW a \in Attempts, FinishWhole(a) PROVE NoRecord'
  BY <1>FinishWhole DEF FinishWhole, Finish, At, Renamed, NoRecord, Working, TypeOK
<1>FinishFailed. ASSUME NEW a \in Attempts, FinishFailed(a) PROVE NoRecord'
  BY <1>FinishFailed DEF FinishFailed, Finish, NoRecord, Working, TypeOK
<1>FinishUnknown. ASSUME NEW a \in Attempts, FinishUnknown(a) PROVE NoRecord'
  BY <1>FinishUnknown DEF FinishUnknown, Finish, At, Renamed, NoRecord, Working, TypeOK
<1>BeginPause. ASSUME NEW a \in Attempts, BeginPause(a) PROVE NoRecord'
  BY <1>BeginPause DEF BeginPause, NextCall, NoRecord, Working, TypeOK
<1>BeginStop. ASSUME NEW a \in Attempts, BeginStop(a) PROVE NoRecord'
  <2>1. pc' = pc /\ \A t \in Targets : paused'[t] \in {None, paused[t]}
    BY <1>BeginStop DEF BeginStop, Take, TypeOK
  <2>2. QED
    BY <2>1, AttemptTypes DEF NoRecord, Target
<1>PoolCancel. ASSUME NEW a \in Attempts, PoolCancel(a) PROVE NoRecord'
  BY <1>PoolCancel DEF PoolCancel, NoRecord, Working, TypeOK
<1>CleanRemoves. ASSUME NEW a \in Attempts, CleanRemoves(a) PROVE NoRecord'
  BY <1>CleanRemoves DEF CleanRemoves, NoRecord, Working, TypeOK
<1>CleanGivesUp. ASSUME NEW a \in Attempts, CleanGivesUp(a) PROVE NoRecord'
  BY <1>CleanGivesUp DEF CleanGivesUp, NoRecord, Working, TypeOK
<1>CleanFindsNoSession. ASSUME NEW a \in Attempts, CleanFindsNoSession(a) PROVE NoRecord'
  BY <1>CleanFindsNoSession DEF CleanFindsNoSession, NoRecord, Working, TypeOK
<1>q. QED
  BY <1>Upload, <1>Resume, <1>Retry, <1>Approve, <1>AskPause, <1>AskStop, <1>CloseTab,
     <1>CloseRows, <1>RemoveSession, <1>TakeSession, <1>Sweep, <1>CloseSession,
     <1>SweepOne, <1>Answer, <1>Reserve, <1>Claim, <1>Verify, <1>Discarded, <1>Begin,
     <1>Submit, <1>FinishCancelled, <1>PublishedAnyway, <1>Settle, <1>EndAttempt,
     <1>Cleaned, <1>Dispatch, <1>Write, <1>FinishWhole, <1>FinishFailed, <1>FinishUnknown,
     <1>BeginPause, <1>BeginStop, <1>PoolCancel, <1>CleanRemoves, <1>CleanGivesUp,
     <1>CleanFindsNoSession DEF Next, User, Unwind, Run, Cancel, Clean, Close
-----------------------------------------------------------------------------
(* A file is made by writing it. *)
LEMMA MadeByWritingStep == IInv /\ MadeByWriting /\ Next => MadeByWriting'
<1> SUFFICES ASSUME IInv, MadeByWriting, Next PROVE MadeByWriting'
  OBVIOUS
<1> USE DEF rowVars, localVars, registry, poolVars, closeVars, server, IInv
<1>starts. ASSUME NEW u \in Uploads, Upload(u) \/ Resume(u) \/ Retry(u) PROVE MadeByWriting'
  <2>1. PICK a \in Attempts, at \in {"called", "asked"} :
          /\ pc[a] = "unused" /\ pc' = [pc EXCEPT ![a] = at]
          /\ UNCHANGED <<calls, resumed, partial, started, result, told, registry,
                         poolVars, cleanup, closeVars, server>>
    BY <1>starts, Fresh
  <2>2. QED
    BY <2>1 DEF MadeByWriting, Done, TypeOK
<1>Approve. ASSUME NEW u \in Uploads, Approve(u) PROVE MadeByWriting'
  BY <1>Approve DEF Approve, At, MadeByWriting, Done, TypeOK
<1>AskPause. ASSUME NEW u \in Uploads, AskPause(u) PROVE MadeByWriting'
  BY <1>AskPause DEF AskPause, MadeByWriting, Done, TypeOK
<1>AskStop. ASSUME NEW u \in Uploads, AskStop(u) PROVE MadeByWriting'
  BY <1>AskStop DEF AskStop, MayStop, StopRows, MadeByWriting, Done, TypeOK
<1>CloseTab. ASSUME CloseTab PROVE MadeByWriting'
  BY <1>CloseTab DEF CloseTab, MayStop, StopRows, MadeByWriting, Done, TypeOK
<1>CloseRows. ASSUME CloseRows PROVE MadeByWriting'
  BY <1>CloseRows DEF CloseRows, MadeByWriting, Done, TypeOK
<1>RemoveSession. ASSUME RemoveSession PROVE MadeByWriting'
  BY <1>RemoveSession DEF RemoveSession, MadeByWriting, Done, TypeOK
<1>TakeSession. ASSUME TakeSession PROVE MadeByWriting'
  BY <1>TakeSession DEF TakeSession, MadeByWriting, Done, TypeOK
<1>Sweep. ASSUME Sweep PROVE MadeByWriting'
  BY <1>Sweep DEF Sweep, MadeByWriting, Done, TypeOK
<1>CloseSession. ASSUME CloseSession PROVE MadeByWriting'
  BY <1>CloseSession DEF CloseSession, MadeByWriting, Done, TypeOK
<1>SweepOne. ASSUME NEW f \in Attempts, SweepOne(f) PROVE MadeByWriting'
  BY <1>SweepOne DEF SweepOne, MadeByWriting, Done, TypeOK
<1>Answer. ASSUME NEW a \in Attempts, Answer(a) PROVE MadeByWriting'
  BY <1>Answer DEF Answer, At, MadeByWriting, Done, TypeOK
<1>Reserve. ASSUME NEW a \in Attempts, Reserve(a) PROVE MadeByWriting'
  BY <1>Reserve DEF Reserve, MadeByWriting, Done, TypeOK
<1>Claim. ASSUME NEW a \in Attempts, Claim(a) PROVE MadeByWriting'
  BY <1>Claim DEF Claim, Take, StartCleanup, MadeByWriting, Done, TypeOK
<1>Verify. ASSUME NEW a \in Attempts, Verify(a) PROVE MadeByWriting'
  BY <1>Verify DEF Verify, StartCleanup, MadeByWriting, Done, TypeOK
<1>Discarded. ASSUME NEW a \in Attempts, Discarded(a) PROVE MadeByWriting'
  BY <1>Discarded DEF Discarded, At, MadeByWriting, Done, TypeOK
<1>Begin. ASSUME NEW a \in Attempts, Begin(a) PROVE MadeByWriting'
  BY <1>Begin DEF Begin, At, MadeByWriting, Done, TypeOK
<1>Submit. ASSUME NEW a \in Attempts, Submit(a) PROVE MadeByWriting'
  BY <1>Submit DEF Submit, MadeByWriting, Done, TypeOK
<1>FinishCancelled. ASSUME NEW a \in Attempts, FinishCancelled(a) PROVE MadeByWriting'
  BY <1>FinishCancelled DEF FinishCancelled, Finish, Renamed, MadeByWriting, Done, TypeOK
<1>PublishedAnyway. ASSUME NEW a \in Attempts, PublishedAnyway(a) PROVE MadeByWriting'
  BY <1>PublishedAnyway DEF PublishedAnyway, At, MadeByWriting, Done, TypeOK
<1>Settle. ASSUME NEW a \in Attempts, Settle(a) PROVE MadeByWriting'
  BY <1>Settle DEF Settle, MadeByWriting, Done, TypeOK
<1>EndAttempt. ASSUME NEW a \in Attempts, EndAttempt(a) PROVE MadeByWriting'
  BY <1>EndAttempt DEF EndAttempt, ActiveAfter, StartCleanup, MadeByWriting, Done, TypeOK
<1>Cleaned. ASSUME NEW a \in Attempts, Cleaned(a) PROVE MadeByWriting'
  BY <1>Cleaned DEF Cleaned, At, MadeByWriting, Done, TypeOK
<1>Dispatch. ASSUME NEW a \in Attempts, Dispatch(a) PROVE MadeByWriting'
  BY <1>Dispatch DEF Dispatch, At, MadeByWriting, Done, TypeOK
<1>Write. ASSUME NEW a \in Attempts, Write(a) PROVE MadeByWriting'
  <2>1. pc[a] = "running" /\ pc' = [pc EXCEPT ![a] = "writing"] /\ started' = [started EXCEPT ![a] = TRUE]
    BY <1>Write DEF Write, At
  <2>2. \A b \in Attempts : b \in onServer' => b \in onServer \/ b = partial[a]
    BY <1>Write DEF Write
  <2>3. partial[a] # a => pc[partial[a]] \in Done
    BY DEF Own, Names
  <2>4. partial[a] \in Attempts
    BY DEF TypeOK
  <2>5. \A b \in Attempts : started'[b] => pc'[b] \in
            {"writing", "unsure", "ended", "live", "notlive", "cleaning", "returned"}
    BY <2>1 DEF MadeByWriting, TypeOK
  <2>6. ASSUME NEW b \in Attempts, b \in onServer' PROVE started'[b] \/ pc'[b] \in Done
    <3>1. CASE b = a
      BY <2>1, <3>1 DEF TypeOK
    <3>2. CASE b # a
      <4>1. started'[b] = started[b] /\ pc'[b] = pc[b]
        BY <2>1, <3>2 DEF TypeOK
      <4>2. CASE b \in onServer
        BY <4>1, <4>2 DEF MadeByWriting
      <4>3. CASE b = partial[a]
        BY <2>3, <3>2, <4>1, <4>3
      <4>4. QED
        BY <2>2, <2>6, <4>2, <4>3
    <3>3. QED
      BY <3>1, <3>2
  <2>7. QED
    BY <2>5, <2>6 DEF MadeByWriting
<1>FinishWhole. ASSUME NEW a \in Attempts, FinishWhole(a) PROVE MadeByWriting'
  BY <1>FinishWhole DEF FinishWhole, Finish, At, Renamed, MadeByWriting, Done, TypeOK
<1>FinishFailed. ASSUME NEW a \in Attempts, FinishFailed(a) PROVE MadeByWriting'
  BY <1>FinishFailed DEF FinishFailed, Finish, MadeByWriting, Done, TypeOK
<1>FinishUnknown. ASSUME NEW a \in Attempts, FinishUnknown(a) PROVE MadeByWriting'
  BY <1>FinishUnknown DEF FinishUnknown, Finish, At, Renamed, MadeByWriting, Done, TypeOK
<1>BeginPause. ASSUME NEW a \in Attempts, BeginPause(a) PROVE MadeByWriting'
  BY <1>BeginPause DEF BeginPause, NextCall, MadeByWriting, Done, TypeOK
<1>BeginStop. ASSUME NEW a \in Attempts, BeginStop(a) PROVE MadeByWriting'
  BY <1>BeginStop DEF BeginStop, Take, StartCleanup, MadeByWriting, Done, TypeOK
<1>PoolCancel. ASSUME NEW a \in Attempts, PoolCancel(a) PROVE MadeByWriting'
  BY <1>PoolCancel DEF PoolCancel, MadeByWriting, Done, TypeOK
<1>CleanRemoves. ASSUME NEW a \in Attempts, CleanRemoves(a) PROVE MadeByWriting'
  BY <1>CleanRemoves DEF CleanRemoves, MadeByWriting, Done, TypeOK
<1>CleanGivesUp. ASSUME NEW a \in Attempts, CleanGivesUp(a) PROVE MadeByWriting'
  BY <1>CleanGivesUp DEF CleanGivesUp, MadeByWriting, Done, TypeOK
<1>CleanFindsNoSession. ASSUME NEW a \in Attempts, CleanFindsNoSession(a) PROVE MadeByWriting'
  BY <1>CleanFindsNoSession DEF CleanFindsNoSession, MadeByWriting, Done, TypeOK
<1>q. QED
  BY <1>starts, <1>Approve, <1>AskPause, <1>AskStop, <1>CloseTab, <1>CloseRows,
     <1>RemoveSession, <1>TakeSession, <1>Sweep, <1>CloseSession, <1>SweepOne, <1>Answer,
     <1>Reserve, <1>Claim, <1>Verify, <1>Discarded, <1>Begin, <1>Submit,
     <1>FinishCancelled, <1>PublishedAnyway, <1>Settle, <1>EndAttempt, <1>Cleaned,
     <1>Dispatch, <1>Write, <1>FinishWhole, <1>FinishFailed, <1>FinishUnknown,
     <1>BeginPause, <1>BeginStop, <1>PoolCancel, <1>CleanRemoves, <1>CleanGivesUp,
     <1>CleanFindsNoSession DEF Next, User, Unwind, Run, Cancel, Clean, Close
-----------------------------------------------------------------------------
(* What an attempt knows of its file stays true. *)
LEMMA KnowsItsFileStep == IInv /\ MadeByWriting /\ KnowsItsFile /\ Next => KnowsItsFile'
<1> SUFFICES ASSUME IInv, MadeByWriting, KnowsItsFile, Next PROVE KnowsItsFile'
  OBVIOUS
<1> USE DEF rowVars, localVars, registry, poolVars, closeVars, server, IInv
<1>starts. ASSUME NEW u \in Uploads, Upload(u) \/ Resume(u) \/ Retry(u) PROVE KnowsItsFile'
  <2>1. PICK a \in Attempts, at \in {"called", "asked"} :
          /\ pc[a] = "unused" /\ pc' = [pc EXCEPT ![a] = at]
          /\ UNCHANGED <<calls, resumed, partial, started, result, told, registry,
                         poolVars, cleanup, closeVars, server>>
    BY <1>starts, Fresh
  <2>2. \A b \in Attempts : pc'[b] = pc[b] \/ (b = a /\ pc'[b] \in {"called", "asked"})
    BY <2>1 DEF TypeOK
  <2>3. partial[a] = a
    BY <2>1 DEF KnowsItsFile
  <2>4. QED
    BY <2>1, <2>2, <2>3 DEF KnowsItsFile, Unfinished, Working
<1>Approve. ASSUME NEW u \in Uploads, Approve(u) PROVE KnowsItsFile'
  BY <1>Approve DEF Approve, At, KnowsItsFile, Unfinished, Working, TypeOK
<1>AskPause. ASSUME NEW u \in Uploads, AskPause(u) PROVE KnowsItsFile'
  BY <1>AskPause DEF AskPause, KnowsItsFile, Unfinished, Working, TypeOK
<1>AskStop. ASSUME NEW u \in Uploads, AskStop(u) PROVE KnowsItsFile'
  BY <1>AskStop DEF AskStop, MayStop, StopRows, KnowsItsFile, Unfinished, Working, TypeOK
<1>CloseTab. ASSUME CloseTab PROVE KnowsItsFile'
  BY <1>CloseTab DEF CloseTab, MayStop, StopRows, KnowsItsFile, Unfinished, Working, TypeOK
<1>CloseRows. ASSUME CloseRows PROVE KnowsItsFile'
  BY <1>CloseRows DEF CloseRows, KnowsItsFile, Unfinished, Working, TypeOK
<1>RemoveSession. ASSUME RemoveSession PROVE KnowsItsFile'
  BY <1>RemoveSession DEF RemoveSession, KnowsItsFile, Unfinished, Working, TypeOK
<1>TakeSession. ASSUME TakeSession PROVE KnowsItsFile'
  BY <1>TakeSession DEF TakeSession, KnowsItsFile, Unfinished, Working, TypeOK
<1>Sweep. ASSUME Sweep PROVE KnowsItsFile'
  BY <1>Sweep DEF Sweep, KnowsItsFile, Unfinished, Working, TypeOK
<1>CloseSession. ASSUME CloseSession PROVE KnowsItsFile'
  BY <1>CloseSession DEF CloseSession, KnowsItsFile, Unfinished, Working, TypeOK
<1>SweepOne. ASSUME NEW f \in Attempts, SweepOne(f) PROVE KnowsItsFile'
  BY <1>SweepOne DEF SweepOne, KnowsItsFile, Unfinished, Working, TypeOK
<1>Answer. ASSUME NEW a \in Attempts, Answer(a) PROVE KnowsItsFile'
  BY <1>Answer DEF Answer, At, KnowsItsFile, Unfinished, Working, TypeOK
<1>Reserve. ASSUME NEW a \in Attempts, Reserve(a) PROVE KnowsItsFile'
  BY <1>Reserve DEF Reserve, KnowsItsFile, Unfinished, Working, TypeOK
<1>Claim. ASSUME NEW a \in Attempts, Claim(a) PROVE KnowsItsFile'
  <2>1. /\ pc[a] = "reserved" /\ partial[a] = a
        /\ UNCHANGED <<resumed, started, result, onServer>>
    BY <1>Claim DEF Claim, KnowsItsFile
  <2>2. \/ pc' = [pc EXCEPT ![a] = "ready"] /\ partial' = partial
        \/ \E to \in {"verifying", "discarding"} : \E f :
              pc' = [pc EXCEPT ![a] = to] /\ partial' = [partial EXCEPT ![a] = f]
    BY <1>Claim DEF Claim
  <2>3. \A b \in Attempts : b # a => pc'[b] = pc[b] /\ partial'[b] = partial[b]
    BY <2>2 DEF TypeOK
  <2>4. \/ pc'[a] = "ready" /\ partial'[a] = a
        \/ pc'[a] \in {"verifying", "discarding"}
    BY <2>1, <2>2 DEF TypeOK
  <2>5. QED
    BY <2>1, <2>3, <2>4 DEF KnowsItsFile, Unfinished, Working
<1>Verify. ASSUME NEW a \in Attempts, Verify(a) PROVE KnowsItsFile'
  BY <1>Verify DEF Verify, StartCleanup, KnowsItsFile, Unfinished, Working, TypeOK
<1>Discarded. ASSUME NEW a \in Attempts, Discarded(a) PROVE KnowsItsFile'
  BY <1>Discarded DEF Discarded, At, KnowsItsFile, Unfinished, Working, TypeOK
<1>Begin. ASSUME NEW a \in Attempts, Begin(a) PROVE KnowsItsFile'
  BY <1>Begin DEF Begin, At, KnowsItsFile, Unfinished, Working, TypeOK
<1>Submit. ASSUME NEW a \in Attempts, Submit(a) PROVE KnowsItsFile'
  BY <1>Submit DEF Submit, KnowsItsFile, Unfinished, Working, TypeOK
<1>FinishCancelled. ASSUME NEW a \in Attempts, FinishCancelled(a) PROVE KnowsItsFile'
  BY <1>FinishCancelled DEF FinishCancelled, Finish, Renamed, KnowsItsFile, Unfinished,
     Working, TypeOK
<1>PublishedAnyway. ASSUME NEW a \in Attempts, PublishedAnyway(a) PROVE KnowsItsFile'
  <2>1. /\ pc[a] = "unsure" /\ pc' = [pc EXCEPT ![a] = "ended"]
        /\ UNCHANGED <<resumed, started, partial, onServer>>
    BY <1>PublishedAnyway DEF PublishedAnyway, At
  <2>2. \/ partial[a] \notin onServer /\ result' = [result EXCEPT ![a] = "ok"]
        \/ result' = result
    BY <1>PublishedAnyway DEF PublishedAnyway
  <2>3. ASSUME result' = result, result[a] = "ok" PROVE partial[a] \notin onServer
    BY <2>1, <2>3 DEF KnowsItsFile
  <2>4. \A b \in Attempts : b # a => pc'[b] = pc[b] /\ result'[b] = result[b]
    BY <2>1, <2>2 DEF TypeOK
  <2>5. pc'[a] = "ended" /\ (result'[a] = "ok" => partial[a] \notin onServer)
    BY <2>1, <2>2, <2>3 DEF TypeOK
  <2>6. partial[a] # a => resumed[a]
    BY <2>1 DEF KnowsItsFile, Working
  <2>7. QED
    BY <2>1, <2>4, <2>5, <2>6 DEF KnowsItsFile, Unfinished, Working
<1>Settle. ASSUME NEW a \in Attempts, Settle(a) PROVE KnowsItsFile'
  BY <1>Settle DEF Settle, KnowsItsFile, Unfinished, Working, TypeOK
<1>EndAttempt. ASSUME NEW a \in Attempts, EndAttempt(a) PROVE KnowsItsFile'
  BY <1>EndAttempt DEF EndAttempt, ActiveAfter, StartCleanup, KnowsItsFile, Unfinished,
     Working, TypeOK
<1>Cleaned. ASSUME NEW a \in Attempts, Cleaned(a) PROVE KnowsItsFile'
  BY <1>Cleaned DEF Cleaned, At, KnowsItsFile, Unfinished, Working, TypeOK
<1>Dispatch. ASSUME NEW a \in Attempts, Dispatch(a) PROVE KnowsItsFile'
  BY <1>Dispatch DEF Dispatch, At, KnowsItsFile, Unfinished, Working, TypeOK
<1>Write. ASSUME NEW a \in Attempts, Write(a) PROVE KnowsItsFile'
  <2>1. /\ pc[a] = "running" /\ pc' = [pc EXCEPT ![a] = "writing"]
        /\ started' = [started EXCEPT ![a] = TRUE] /\ UNCHANGED <<resumed, result, partial>>
    BY <1>Write DEF Write, At
  <2>2. \A f : f \in onServer' => f \in onServer \/ f = partial[a]
    BY <1>Write DEF Write
  <2>3. \A b \in Attempts : b # a /\ partial[b] = partial[a] => pc[b] \in Done
    BY <2>1 DEF Own, OneUser, Done
  <2>4. \A b \in Attempts : b # a => pc'[b] = pc[b] /\ started'[b] = started[b]
    BY <2>1 DEF TypeOK
  <2>5. pc'[a] = "writing" /\ (partial[a] # a => resumed[a])
    BY <2>1 DEF KnowsItsFile, Working, TypeOK
  <2>6. QED
    BY <2>1, <2>2, <2>3, <2>4, <2>5 DEF KnowsItsFile, Unfinished, Working, Done
<1>FinishWhole. ASSUME NEW a \in Attempts, FinishWhole(a) PROVE KnowsItsFile'
  BY <1>FinishWhole DEF FinishWhole, Finish, At, Renamed, KnowsItsFile, Unfinished,
     Working, TypeOK
<1>FinishFailed. ASSUME NEW a \in Attempts, FinishFailed(a) PROVE KnowsItsFile'
  BY <1>FinishFailed DEF FinishFailed, Finish, KnowsItsFile, Unfinished, Working, TypeOK
<1>FinishUnknown. ASSUME NEW a \in Attempts, FinishUnknown(a) PROVE KnowsItsFile'
  BY <1>FinishUnknown DEF FinishUnknown, Finish, At, Renamed, KnowsItsFile, Unfinished,
     Working, TypeOK
<1>BeginPause. ASSUME NEW a \in Attempts, BeginPause(a) PROVE KnowsItsFile'
  BY <1>BeginPause DEF BeginPause, NextCall, KnowsItsFile, Unfinished, Working, TypeOK
<1>BeginStop. ASSUME NEW a \in Attempts, BeginStop(a) PROVE KnowsItsFile'
  BY <1>BeginStop DEF BeginStop, Take, StartCleanup, KnowsItsFile, Unfinished, Working, TypeOK
<1>PoolCancel. ASSUME NEW a \in Attempts, PoolCancel(a) PROVE KnowsItsFile'
  BY <1>PoolCancel DEF PoolCancel, KnowsItsFile, Unfinished, Working, TypeOK
<1>CleanRemoves. ASSUME NEW a \in Attempts, CleanRemoves(a) PROVE KnowsItsFile'
  BY <1>CleanRemoves DEF CleanRemoves, KnowsItsFile, Unfinished, Working, TypeOK
<1>CleanGivesUp. ASSUME NEW a \in Attempts, CleanGivesUp(a) PROVE KnowsItsFile'
  BY <1>CleanGivesUp DEF CleanGivesUp, KnowsItsFile, Unfinished, Working, TypeOK
<1>CleanFindsNoSession. ASSUME NEW a \in Attempts, CleanFindsNoSession(a) PROVE KnowsItsFile'
  BY <1>CleanFindsNoSession DEF CleanFindsNoSession, KnowsItsFile, Unfinished, Working, TypeOK
<1>q. QED
  BY <1>starts, <1>Approve, <1>AskPause, <1>AskStop, <1>CloseTab, <1>CloseRows,
     <1>RemoveSession, <1>TakeSession, <1>Sweep, <1>CloseSession, <1>SweepOne, <1>Answer,
     <1>Reserve, <1>Claim, <1>Verify, <1>Discarded, <1>Begin, <1>Submit,
     <1>FinishCancelled, <1>PublishedAnyway, <1>Settle, <1>EndAttempt, <1>Cleaned,
     <1>Dispatch, <1>Write, <1>FinishWhole, <1>FinishFailed, <1>FinishUnknown,
     <1>BeginPause, <1>BeginStop, <1>PoolCancel, <1>CleanRemoves, <1>CleanGivesUp,
     <1>CleanFindsNoSession DEF Next, User, Unwind, Run, Cancel, Clean, Close
-----------------------------------------------------------------------------
(* A writer is in the active map. *)
LEMMA WritersAreActiveStep == IInv /\ WritersAreActive /\ Next => WritersAreActive'
<1> SUFFICES ASSUME IInv, WritersAreActive, Next PROVE WritersAreActive'
  OBVIOUS
<1> USE DEF rowVars, localVars, registry, poolVars, closeVars, server, IInv
<1>starts. ASSUME NEW u \in Uploads, Upload(u) \/ Resume(u) \/ Retry(u) PROVE WritersAreActive'
  <2>1. PICK a \in Attempts, at \in {"called", "asked"} :
          /\ pc[a] = "unused" /\ pc' = [pc EXCEPT ![a] = at]
          /\ UNCHANGED <<calls, resumed, partial, started, result, told, registry,
                         poolVars, cleanup, closeVars, server>>
    BY <1>starts, Fresh
  <2>2. a \notin active
    BY <2>1 DEF WritersAreActive
  <2>3. QED
    BY <2>1, <2>2 DEF WritersAreActive, HasPool, TypeOK
<1>Approve. ASSUME NEW u \in Uploads, Approve(u) PROVE WritersAreActive'
  <2>1. Current(u) \in Attempts /\ pc[Current(u)] = "asked"
    BY <1>Approve, CurrentTypes DEF Approve, At
  <2>2. \E to \in {"called", "over"} : pc' = [pc EXCEPT ![Current(u)] = to]
    BY <1>Approve DEF Approve, At
  <2>3. UNCHANGED <<active, partial, reported, session>>
    BY <1>Approve DEF Approve
  <2>4. QED
    BY <2>1, <2>2, <2>3 DEF WritersAreActive, HasPool, TypeOK
<1>AskPause. ASSUME NEW u \in Uploads, AskPause(u) PROVE WritersAreActive'
  BY <1>AskPause DEF AskPause, WritersAreActive, HasPool, TypeOK
<1>AskStop. ASSUME NEW u \in Uploads, AskStop(u) PROVE WritersAreActive'
  BY <1>AskStop DEF AskStop, MayStop, StopRows, WritersAreActive, HasPool, TypeOK
<1>CloseTab. ASSUME CloseTab PROVE WritersAreActive'
  BY <1>CloseTab DEF CloseTab, MayStop, StopRows, WritersAreActive, HasPool, TypeOK
<1>CloseRows. ASSUME CloseRows PROVE WritersAreActive'
  BY <1>CloseRows DEF CloseRows, WritersAreActive, HasPool, TypeOK
<1>RemoveSession. ASSUME RemoveSession PROVE WritersAreActive'
  BY <1>RemoveSession DEF RemoveSession, WritersAreActive, HasPool, TypeOK
<1>TakeSession. ASSUME TakeSession PROVE WritersAreActive'
  BY <1>TakeSession DEF TakeSession, WritersAreActive, HasPool, TypeOK
<1>Sweep. ASSUME Sweep PROVE WritersAreActive'
  <2>1. \A b \in Attempts : pc[b] \notin {"queued", "running", "writing"}
    BY <1>Sweep DEF Sweep, Sweeping, HasPool
  <2>2. pc' = pc /\ active' = {} /\ session' = "sweeping"
    BY <1>Sweep DEF Sweep
  <2>3. QED
    BY <2>1, <2>2 DEF WritersAreActive, HasPool
<1>CloseSession. ASSUME CloseSession PROVE WritersAreActive'
  <2>1. pc' = pc /\ partial' = partial /\ active' = {} /\ session' = "closed"
    BY <1>CloseSession DEF CloseSession
  <2>2. \A f : f \in reported => f \in reported'
    BY <1>CloseSession DEF CloseSession
  <2>3. \A b \in active : partial[b] \in reported'
    BY <1>CloseSession DEF CloseSession, Recorded
  <2>4. QED
    BY <2>1, <2>2, <2>3 DEF WritersAreActive, HasPool
<1>SweepOne. ASSUME NEW f \in Attempts, SweepOne(f) PROVE WritersAreActive'
  BY <1>SweepOne DEF SweepOne, WritersAreActive, HasPool, TypeOK
<1>Answer. ASSUME NEW a \in Attempts, Answer(a) PROVE WritersAreActive'
  BY <1>Answer DEF Answer, At, WritersAreActive, HasPool, TypeOK
<1>Reserve. ASSUME NEW a \in Attempts, Reserve(a) PROVE WritersAreActive'
  <2>1. pc[a] = "called" /\ \E to \in {"reserved", "returned"} : pc' = [pc EXCEPT ![a] = to]
    BY <1>Reserve DEF Reserve
  <2>2. UNCHANGED <<active, partial, reported, session>>
    BY <1>Reserve DEF Reserve
  <2>3. QED
    BY <2>1, <2>2 DEF WritersAreActive, HasPool, TypeOK
<1>Claim. ASSUME NEW a \in Attempts, Claim(a) PROVE WritersAreActive'
  BY <1>Claim DEF Claim, Take, StartCleanup, WritersAreActive, HasPool, TypeOK
<1>Verify. ASSUME NEW a \in Attempts, Verify(a) PROVE WritersAreActive'
  <2>1. pc[a] = "verifying" /\ \E to \in {"ready", "discarding"} : pc' = [pc EXCEPT ![a] = to]
    BY <1>Verify DEF Verify
  <2>2. UNCHANGED <<active, partial, reported, session>>
    BY <1>Verify DEF Verify
  <2>3. QED
    BY <2>1, <2>2 DEF WritersAreActive, HasPool, TypeOK
<1>Discarded. ASSUME NEW a \in Attempts, Discarded(a) PROVE WritersAreActive'
  BY <1>Discarded DEF Discarded, At, WritersAreActive, HasPool, TypeOK
<1>Begin. ASSUME NEW a \in Attempts, Begin(a) PROVE WritersAreActive'
  BY <1>Begin DEF Begin, At, WritersAreActive, HasPool, TypeOK
<1>Submit. ASSUME NEW a \in Attempts, Submit(a) PROVE WritersAreActive'
  <2>1. /\ pc[a] = "begun"
        /\ \/ HasPool /\ pc' = [pc EXCEPT ![a] = "queued"]
           \/ pc' = [pc EXCEPT ![a] = "ended"]
    BY <1>Submit DEF Submit
  <2>2. UNCHANGED <<active, partial, reported, session>>
    BY <1>Submit DEF Submit
  <2>3. HasPool => a \in active
    BY <2>1 DEF WritersAreActive
  <2>4. QED
    BY <2>1, <2>2, <2>3 DEF WritersAreActive, HasPool, TypeOK
<1>FinishCancelled. ASSUME NEW a \in Attempts, FinishCancelled(a) PROVE WritersAreActive'
  BY <1>FinishCancelled DEF FinishCancelled, Finish, Renamed, WritersAreActive, HasPool, TypeOK
<1>PublishedAnyway. ASSUME NEW a \in Attempts, PublishedAnyway(a) PROVE WritersAreActive'
  BY <1>PublishedAnyway DEF PublishedAnyway, At, WritersAreActive, HasPool, TypeOK
<1>Settle. ASSUME NEW a \in Attempts, Settle(a) PROVE WritersAreActive'
  BY <1>Settle DEF Settle, WritersAreActive, HasPool, TypeOK
<1>EndAttempt. ASSUME NEW a \in Attempts, EndAttempt(a) PROVE WritersAreActive'
  BY <1>EndAttempt DEF EndAttempt, ActiveAfter, StartCleanup, WritersAreActive, HasPool, TypeOK
<1>Cleaned. ASSUME NEW a \in Attempts, Cleaned(a) PROVE WritersAreActive'
  BY <1>Cleaned DEF Cleaned, At, WritersAreActive, HasPool, TypeOK
<1>Dispatch. ASSUME NEW a \in Attempts, Dispatch(a) PROVE WritersAreActive'
  BY <1>Dispatch DEF Dispatch, At, WritersAreActive, HasPool, TypeOK
<1>Write. ASSUME NEW a \in Attempts, Write(a) PROVE WritersAreActive'
  BY <1>Write DEF Write, At, WritersAreActive, HasPool, TypeOK
<1>FinishWhole. ASSUME NEW a \in Attempts, FinishWhole(a) PROVE WritersAreActive'
  BY <1>FinishWhole DEF FinishWhole, Finish, At, Renamed, WritersAreActive, HasPool, TypeOK
<1>FinishFailed. ASSUME NEW a \in Attempts, FinishFailed(a) PROVE WritersAreActive'
  BY <1>FinishFailed DEF FinishFailed, Finish, WritersAreActive, HasPool, TypeOK
<1>FinishUnknown. ASSUME NEW a \in Attempts, FinishUnknown(a) PROVE WritersAreActive'
  BY <1>FinishUnknown DEF FinishUnknown, Finish, At, Renamed, WritersAreActive, HasPool, TypeOK
<1>BeginPause. ASSUME NEW a \in Attempts, BeginPause(a) PROVE WritersAreActive'
  BY <1>BeginPause DEF BeginPause, NextCall, WritersAreActive, HasPool, TypeOK
<1>BeginStop. ASSUME NEW a \in Attempts, BeginStop(a) PROVE WritersAreActive'
  BY <1>BeginStop DEF BeginStop, Take, StartCleanup, WritersAreActive, HasPool, TypeOK
<1>PoolCancel. ASSUME NEW a \in Attempts, PoolCancel(a) PROVE WritersAreActive'
  <2>1. pc' = pc \/ (pc[a] = "queued" /\ pc' = [pc EXCEPT ![a] = "ended"])
    BY <1>PoolCancel DEF PoolCancel
  <2>2. UNCHANGED <<active, partial, reported, session>>
    BY <1>PoolCancel DEF PoolCancel
  <2>3. QED
    BY <2>1, <2>2 DEF WritersAreActive, HasPool, TypeOK
<1>CleanRemoves. ASSUME NEW a \in Attempts, CleanRemoves(a) PROVE WritersAreActive'
  BY <1>CleanRemoves DEF CleanRemoves, WritersAreActive, HasPool, TypeOK
<1>CleanGivesUp. ASSUME NEW a \in Attempts, CleanGivesUp(a) PROVE WritersAreActive'
  BY <1>CleanGivesUp DEF CleanGivesUp, WritersAreActive, HasPool, TypeOK
<1>CleanFindsNoSession. ASSUME NEW a \in Attempts, CleanFindsNoSession(a) PROVE WritersAreActive'
  BY <1>CleanFindsNoSession DEF CleanFindsNoSession, WritersAreActive, HasPool, TypeOK
<1>q. QED
  BY <1>starts, <1>Approve, <1>AskPause, <1>AskStop, <1>CloseTab, <1>CloseRows,
     <1>RemoveSession, <1>TakeSession, <1>Sweep, <1>CloseSession, <1>SweepOne, <1>Answer,
     <1>Reserve, <1>Claim, <1>Verify, <1>Discarded, <1>Begin, <1>Submit,
     <1>FinishCancelled, <1>PublishedAnyway, <1>Settle, <1>EndAttempt, <1>Cleaned,
     <1>Dispatch, <1>Write, <1>FinishWhole, <1>FinishFailed, <1>FinishUnknown,
     <1>BeginPause, <1>BeginStop, <1>PoolCancel, <1>CleanRemoves, <1>CleanGivesUp,
     <1>CleanFindsNoSession DEF Next, User, Unwind, Run, Cancel, Clean, Close
-----------------------------------------------------------------------------
(* A cleanup goes on after its budget. *)
LEMMA CleaningIsCoveredStep == IInv /\ WritersAreActive /\ CleaningIsCovered /\ Next => CleaningIsCovered'
<1> SUFFICES ASSUME IInv, WritersAreActive, CleaningIsCovered, Next PROVE CleaningIsCovered'
  OBVIOUS
<1> USE DEF rowVars, localVars, registry, poolVars, closeVars, server, IInv
<1>Upload. ASSUME NEW u \in Uploads, Upload(u) PROVE CleaningIsCovered'
  BY <1>Upload DEF Upload, NewAttempt, CleaningIsCovered, TypeOK
<1>Resume. ASSUME NEW u \in Uploads, Resume(u) PROVE CleaningIsCovered'
  BY <1>Resume DEF Resume, NewAttempt, CleaningIsCovered, TypeOK
<1>Retry. ASSUME NEW u \in Uploads, Retry(u) PROVE CleaningIsCovered'
  BY <1>Retry DEF Retry, NewAttempt, CleaningIsCovered, TypeOK
<1>Approve. ASSUME NEW u \in Uploads, Approve(u) PROVE CleaningIsCovered'
  BY <1>Approve DEF Approve, At, CleaningIsCovered, TypeOK
<1>AskPause. ASSUME NEW u \in Uploads, AskPause(u) PROVE CleaningIsCovered'
  BY <1>AskPause DEF AskPause, CleaningIsCovered, TypeOK
<1>AskStop. ASSUME NEW u \in Uploads, AskStop(u) PROVE CleaningIsCovered'
  BY <1>AskStop DEF AskStop, MayStop, StopRows, CleaningIsCovered, TypeOK
<1>CloseTab. ASSUME CloseTab PROVE CleaningIsCovered'
  BY <1>CloseTab DEF CloseTab, MayStop, StopRows, CleaningIsCovered, TypeOK
<1>CloseRows. ASSUME CloseRows PROVE CleaningIsCovered'
  BY <1>CloseRows DEF CloseRows, CleaningIsCovered, TypeOK
<1>RemoveSession. ASSUME RemoveSession PROVE CleaningIsCovered'
  BY <1>RemoveSession DEF RemoveSession, CleaningIsCovered, TypeOK
<1>TakeSession. ASSUME TakeSession PROVE CleaningIsCovered'
  BY <1>TakeSession DEF TakeSession, CleaningIsCovered, TypeOK
<1>Sweep. ASSUME Sweep PROVE CleaningIsCovered'
  BY <1>Sweep DEF Sweep, CleaningIsCovered, TypeOK
<1>CloseSession. ASSUME CloseSession PROVE CleaningIsCovered'
  BY <1>CloseSession DEF CloseSession, CleaningIsCovered, TypeOK
<1>SweepOne. ASSUME NEW f \in Attempts, SweepOne(f) PROVE CleaningIsCovered'
  BY <1>SweepOne DEF SweepOne, CleaningIsCovered, TypeOK
<1>Answer. ASSUME NEW a \in Attempts, Answer(a) PROVE CleaningIsCovered'
  BY <1>Answer DEF Answer, At, CleaningIsCovered, TypeOK
<1>Reserve. ASSUME NEW a \in Attempts, Reserve(a) PROVE CleaningIsCovered'
  BY <1>Reserve DEF Reserve, CleaningIsCovered, TypeOK
<1>Claim. ASSUME NEW a \in Attempts, Claim(a) PROVE CleaningIsCovered'
  <2>1. \A f \in Attempts : cleanup'[f] = cleanup[f] \/ cleanup'[f] \in {"running", "nosession"}
    BY <1>Claim DEF Claim, StartCleanup, TypeOK
  <2>2. /\ pc[a] = "reserved" /\ UNCHANGED <<onServer, reported>>
        /\ \E to \in {"ready", "verifying", "discarding"} : pc' = [pc EXCEPT ![a] = to]
    BY <1>Claim DEF Claim
  <2>3. \A b \in Attempts : b # a => partial'[b] = partial[b]
    BY <1>Claim DEF Claim, TypeOK
  <2>4. \A b \in Attempts : pc'[b] = "cleaning" => b # a /\ pc[b] = "cleaning"
    BY <2>2 DEF TypeOK
  <2>5. \A b \in Attempts : partial[b] \in Attempts
    BY DEF TypeOK
  <2>6. QED
    BY <2>1, <2>2, <2>3, <2>4, <2>5 DEF CleaningIsCovered
<1>Verify. ASSUME NEW a \in Attempts, Verify(a) PROVE CleaningIsCovered'
  <2>1. \A f \in Attempts : cleanup'[f] = cleanup[f] \/ cleanup'[f] \in {"running", "nosession"}
    BY <1>Verify DEF Verify, StartCleanup, TypeOK
  <2>2. /\ pc[a] = "verifying" /\ UNCHANGED <<onServer, reported, partial>>
        /\ \E to \in {"ready", "discarding"} : pc' = [pc EXCEPT ![a] = to]
    BY <1>Verify DEF Verify
  <2>3. \A b \in Attempts : pc'[b] = "cleaning" => pc[b] = "cleaning"
    BY <2>2 DEF TypeOK
  <2>4. \A b \in Attempts : partial[b] \in Attempts
    BY DEF TypeOK
  <2>5. QED
    BY <2>1, <2>2, <2>3, <2>4 DEF CleaningIsCovered
<1>Discarded. ASSUME NEW a \in Attempts, Discarded(a) PROVE CleaningIsCovered'
  BY <1>Discarded DEF Discarded, At, CleaningIsCovered, TypeOK
<1>Begin. ASSUME NEW a \in Attempts, Begin(a) PROVE CleaningIsCovered'
  BY <1>Begin DEF Begin, At, CleaningIsCovered, TypeOK
<1>Submit. ASSUME NEW a \in Attempts, Submit(a) PROVE CleaningIsCovered'
  BY <1>Submit DEF Submit, CleaningIsCovered, TypeOK
<1>FinishCancelled. ASSUME NEW a \in Attempts, FinishCancelled(a) PROVE CleaningIsCovered'
  BY <1>FinishCancelled DEF FinishCancelled, Finish, Renamed, CleaningIsCovered, TypeOK
<1>PublishedAnyway. ASSUME NEW a \in Attempts, PublishedAnyway(a) PROVE CleaningIsCovered'
  BY <1>PublishedAnyway DEF PublishedAnyway, At, CleaningIsCovered, TypeOK
<1>Settle. ASSUME NEW a \in Attempts, Settle(a) PROVE CleaningIsCovered'
  BY <1>Settle DEF Settle, CleaningIsCovered, TypeOK
<1>EndAttempt. ASSUME NEW a \in Attempts, EndAttempt(a) PROVE CleaningIsCovered'
  <2>1. \A f \in Attempts : cleanup'[f] = cleanup[f] \/ cleanup'[f] \in {"running", "nosession"}
    BY <1>EndAttempt DEF EndAttempt, StartCleanup, TypeOK
  <2>2. UNCHANGED <<onServer, reported, partial>>
    BY <1>EndAttempt DEF EndAttempt
  <2>3. \/ pc' = [pc EXCEPT ![a] = "returned"]
        \/ /\ pc' = [pc EXCEPT ![a] = "cleaning"]
           /\ \E v \in {"running", "nosession"} : cleanup' = [cleanup EXCEPT ![partial[a]] = v]
    BY <1>EndAttempt DEF EndAttempt, StartCleanup
  <2>4. \A b \in Attempts : partial[b] \in Attempts
    BY DEF TypeOK
  <2>5. \A b \in Attempts : pc'[b] = "cleaning" =>
            pc[b] = "cleaning" \/ cleanup'[partial[b]] \in {"running", "nosession"}
    BY <2>3, <2>4 DEF TypeOK
  <2>6. QED
    BY <2>1, <2>2, <2>4, <2>5 DEF CleaningIsCovered
<1>Cleaned. ASSUME NEW a \in Attempts, Cleaned(a) PROVE CleaningIsCovered'
  BY <1>Cleaned DEF Cleaned, At, CleaningIsCovered, TypeOK
<1>Dispatch. ASSUME NEW a \in Attempts, Dispatch(a) PROVE CleaningIsCovered'
  BY <1>Dispatch DEF Dispatch, At, CleaningIsCovered, TypeOK
<1>Write. ASSUME NEW a \in Attempts, Write(a) PROVE CleaningIsCovered'
  <2>1. /\ pc[a] = "running" /\ pc' = [pc EXCEPT ![a] = "writing"]
        /\ UNCHANGED <<partial, reported, cleanup>>
    BY <1>Write DEF Write, At
  <2>2. \A f : f \in onServer' => f \in onServer \/ f = partial[a]
    BY <1>Write DEF Write
  <2>3. \A b \in Attempts : b # a /\ partial[b] = partial[a] => pc[b] \in Done
    BY <2>1 DEF Own, OneUser, Done
  <2>4. \A b \in Attempts : pc'[b] = "cleaning" => b # a /\ pc[b] = "cleaning" /\ pc[b] \notin Done
    BY <2>1 DEF TypeOK, Done
  <2>5. QED
    BY <2>1, <2>2, <2>3, <2>4 DEF CleaningIsCovered
<1>FinishWhole. ASSUME NEW a \in Attempts, FinishWhole(a) PROVE CleaningIsCovered'
  BY <1>FinishWhole DEF FinishWhole, Finish, At, Renamed, CleaningIsCovered, TypeOK
<1>FinishFailed. ASSUME NEW a \in Attempts, FinishFailed(a) PROVE CleaningIsCovered'
  BY <1>FinishFailed DEF FinishFailed, Finish, CleaningIsCovered, TypeOK
<1>FinishUnknown. ASSUME NEW a \in Attempts, FinishUnknown(a) PROVE CleaningIsCovered'
  BY <1>FinishUnknown DEF FinishUnknown, Finish, At, Renamed, CleaningIsCovered, TypeOK
<1>BeginPause. ASSUME NEW a \in Attempts, BeginPause(a) PROVE CleaningIsCovered'
  BY <1>BeginPause DEF BeginPause, NextCall, CleaningIsCovered, TypeOK
<1>BeginStop. ASSUME NEW a \in Attempts, BeginStop(a) PROVE CleaningIsCovered'
  BY <1>BeginStop DEF BeginStop, Take, StartCleanup, CleaningIsCovered, TypeOK
<1>PoolCancel. ASSUME NEW a \in Attempts, PoolCancel(a) PROVE CleaningIsCovered'
  BY <1>PoolCancel DEF PoolCancel, CleaningIsCovered, TypeOK
<1>CleanRemoves. ASSUME NEW a \in Attempts, CleanRemoves(a) PROVE CleaningIsCovered'
  BY <1>CleanRemoves DEF CleanRemoves, CleaningIsCovered, TypeOK
<1>CleanGivesUp. ASSUME NEW a \in Attempts, CleanGivesUp(a) PROVE CleaningIsCovered'
  BY <1>CleanGivesUp DEF CleanGivesUp, CleaningIsCovered, TypeOK
<1>CleanFindsNoSession. ASSUME NEW a \in Attempts, CleanFindsNoSession(a) PROVE CleaningIsCovered'
  BY <1>CleanFindsNoSession DEF CleanFindsNoSession, CleaningIsCovered, TypeOK
<1>q. QED
  BY <1>Upload, <1>Resume, <1>Retry, <1>Approve, <1>AskPause, <1>AskStop, <1>CloseTab,
     <1>CloseRows, <1>RemoveSession, <1>TakeSession, <1>Sweep, <1>CloseSession,
     <1>SweepOne, <1>Answer, <1>Reserve, <1>Claim, <1>Verify, <1>Discarded, <1>Begin,
     <1>Submit, <1>FinishCancelled, <1>PublishedAnyway, <1>Settle, <1>EndAttempt,
     <1>Cleaned, <1>Dispatch, <1>Write, <1>FinishWhole, <1>FinishFailed, <1>FinishUnknown,
     <1>BeginPause, <1>BeginStop, <1>PoolCancel, <1>CleanRemoves, <1>CleanGivesUp,
     <1>CleanFindsNoSession DEF Next, User, Unwind, Run, Cancel, Clean, Close
-----------------------------------------------------------------------------
(* Each step that lets go of a file has handed it on. *)
LEMMA NoFileIsForgottenStep == OneRowPerTarget /\ FInv /\ Next => NoFileIsForgotten'
<1> SUFFICES ASSUME OneRowPerTarget, FInv, Next PROVE NoFileIsForgotten'
  OBVIOUS
<1> USE DEF rowVars, localVars, registry, poolVars, closeVars, server, FInv, IInv
<1> DEFINE Goal == \A f \in onServer' : Accounted(f)'
<1>1. \A f \in onServer : Accounted(f)
  BY AccountedFiles
<1>2. ASSUME Keeps PROVE Goal
  BY <1>1, <1>2, KeepsAccounts
<1>3. /\ \A a \in active : a \in Attempts
      /\ \A a \in Attempts : partial[a] \in Attempts
      /\ \A a \in Attempts : Target(a) \in Targets
  BY AttemptTypes DEF TypeOK
<1>starts. ASSUME NEW u \in Uploads, Upload(u) \/ Resume(u) \/ Retry(u) PROVE Keeps
  <2>1. PICK a \in Attempts, at \in {"called", "asked"} :
          /\ pc[a] = "unused" /\ pc' = [pc EXCEPT ![a] = at]
          /\ UNCHANGED <<calls, resumed, partial, started, result, told, registry,
                         poolVars, cleanup, closeVars, server>>
    BY <1>starts, Fresh
  <2>2. QED
    BY <2>1 DEF Keeps, TypeOK
<1>Approve. ASSUME NEW u \in Uploads, Approve(u) PROVE Keeps
  <2>1. Current(u) \in Attempts /\ pc[Current(u)] = "asked"
    BY <1>Approve, CurrentTypes DEF Approve, At
  <2>2. \E to : pc' = [pc EXCEPT ![Current(u)] = to]
    BY <1>Approve DEF Approve, At
  <2>3. UNCHANGED <<active, paused, partial, onServer, sweep, reported, cleanup>>
    BY <1>Approve DEF Approve
  <2>4. QED
    BY <2>1, <2>2, <2>3 DEF Keeps, TypeOK
<1>AskPause. ASSUME NEW u \in Uploads, AskPause(u) PROVE Keeps
  BY <1>AskPause DEF AskPause, Keeps, TypeOK
<1>AskStop. ASSUME NEW u \in Uploads, AskStop(u) PROVE Keeps
  BY <1>AskStop DEF AskStop, Keeps, TypeOK
<1>CloseTab. ASSUME CloseTab PROVE Keeps
  BY <1>CloseTab DEF CloseTab, Keeps, TypeOK
<1>CloseRows. ASSUME CloseRows PROVE Keeps
  BY <1>CloseRows DEF CloseRows, Keeps, TypeOK
<1>RemoveSession. ASSUME RemoveSession PROVE Keeps
  BY <1>RemoveSession DEF RemoveSession, Keeps, TypeOK
<1>TakeSession. ASSUME TakeSession PROVE Keeps
  BY <1>TakeSession DEF TakeSession, Keeps, TypeOK
<1>Sweep. ASSUME Sweep PROVE Goal
  <2>1. \A f : Accounted(f) => Accounted(f)'
    <3>1. sweep = {} /\ sweep' = Recorded /\ UNCHANGED <<pc, partial, reported, cleanup>>
      BY <1>Sweep DEF Sweep, Sweeping
    <3>2. QED
      BY <1>3, <3>1 DEF Accounted, Recorded
  <2>2. QED
    BY <1>1, <1>Sweep, <2>1 DEF Sweep
<1>CloseSession. ASSUME CloseSession PROVE Goal
  <2>1. \A f : Accounted(f) => Accounted(f)'
    BY <1>CloseSession, <1>3 DEF CloseSession, Accounted, Recorded
  <2>2. QED
    BY <1>1, <1>CloseSession, <2>1 DEF CloseSession
<1>SweepOne. ASSUME NEW f \in Attempts, SweepOne(f) PROVE Goal
  <2>1. UNCHANGED <<active, paused, partial, pc, cleanup>> /\ sweep' = sweep \ {f}
    BY <1>SweepOne DEF SweepOne
  <2>2. /\ reported \subseteq reported' /\ onServer' \subseteq onServer
        /\ f \in onServer' => f \in reported'
    BY <1>SweepOne DEF SweepOne
  <2>3. ASSUME NEW h \in onServer' PROVE Accounted(h)'
    <3>1. Accounted(h)
      BY <1>1, <2>2
    <3>2. CASE h = f
      BY <2>2, <3>2 DEF Accounted
    <3>3. CASE h # f
      BY <2>1, <2>2, <3>1, <3>3 DEF Accounted
    <3>4. QED
      BY <3>2, <3>3
  <2>4. QED
    BY <2>3
<1>Answer. ASSUME NEW a \in Attempts, Answer(a) PROVE Keeps
  BY <1>Answer DEF Answer, At, Keeps, TypeOK
<1>Reserve. ASSUME NEW a \in Attempts, Reserve(a) PROVE Keeps
  BY <1>Reserve DEF Reserve, Keeps, TypeOK
<1>Claim. ASSUME NEW a \in Attempts, Claim(a) PROVE Goal
  <2> DEFINE t == Target(a)
  <2>1. /\ pc[a] = "reserved" /\ a \notin active /\ paused' = [paused EXCEPT ![t] = None]
        /\ UNCHANGED <<active, onServer, sweep, reported>> /\ t \in Targets
    BY <1>Claim, AttemptTypes DEF Claim, Take, WritersAreActive
  <2>2. \A b \in Attempts : b # a => pc'[b] = pc[b] /\ partial'[b] = partial[b]
    BY <1>Claim DEF Claim, TypeOK
  <2>3. \A f \in Attempts : cleanup[f] \in {"running", "nosession"} => cleanup'[f] \in {"running", "nosession"}
    BY <1>Claim DEF Claim, StartCleanup, TypeOK
  <2>4. ASSUME paused[t] # None
        PROVE  \/ pc'[a] = "verifying" /\ partial'[a] = paused[t].file
               \/ cleanup'[paused[t].file] \in {"running", "nosession"}
    <3>1. paused[t].file \in Attempts
      BY <2>1, <2>4 DEF TypeOK, RECORD
    <3>2. CASE resume[a]
      BY <1>Claim, <2>4, <3>2 DEF Claim, TypeOK
    <3>3. CASE ~resume[a]
      <4>1. StartCleanup(paused[t].file)
        BY <1>Claim, <2>4, <3>3 DEF Claim
      <4>2. QED
        BY <3>1, <4>1 DEF StartCleanup, TypeOK
    <3>4. QED
      BY <3>2, <3>3
  <2> HIDE DEF t
  <2>5. ASSUME NEW f \in onServer' PROVE Accounted(f)'
    <3>1. f \in Attempts /\ Accounted(f)
      BY <1>1, <2>1 DEF TypeOK
    <3>2. CASE \E b \in active : partial[b] = f
      BY <1>3, <2>1, <2>2, <3>2 DEF Accounted
    <3>3. CASE \E s \in Targets : paused[s] # None /\ paused[s].file = f
      <4>1. PICK s \in Targets : paused[s] # None /\ paused[s].file = f
        BY <3>3
      <4>2. CASE s = t
        BY <2>4, <4>1, <4>2 DEF Accounted
      <4>3. CASE s # t
        <5>1. paused'[s] = paused[s]
          BY <2>1, <4>3 DEF TypeOK
        <5>2. QED
          BY <4>1, <5>1 DEF Accounted
      <4>4. QED
        BY <4>2, <4>3
    <3>4. CASE \E b \in Attempts : pc[b] \in {"verifying", "ready"} /\ partial[b] = f
      BY <2>1, <2>2, <3>4 DEF Accounted
    <3>5. CASE f \in sweep \/ f \in reported
      BY <2>1, <3>5 DEF Accounted
    <3>6. CASE cleanup[f] \in {"running", "nosession"}
      BY <2>3, <3>1, <3>6 DEF Accounted
    <3>7. QED
      BY <3>1, <3>2, <3>3, <3>4, <3>5, <3>6 DEF Accounted
  <2>6. QED
    BY <2>5
<1>Verify. ASSUME NEW a \in Attempts, Verify(a) PROVE Goal
  <2>1. /\ pc[a] = "verifying" /\ UNCHANGED <<active, paused, partial, onServer, sweep, reported>>
        /\ \/ pc' = [pc EXCEPT ![a] = "ready"] /\ cleanup' = cleanup
           \/ pc' = [pc EXCEPT ![a] = "discarding"] /\ StartCleanup(partial[a])
    BY <1>Verify DEF Verify
  <2>2. CASE pc' = [pc EXCEPT ![a] = "ready"] /\ cleanup' = cleanup
    BY <1>2, <2>1, <2>2 DEF Keeps, TypeOK
  <2>3. CASE pc' = [pc EXCEPT ![a] = "discarding"] /\ StartCleanup(partial[a])
    <3>1. /\ cleanup'[partial[a]] \in {"running", "nosession"}
          /\ \A f \in Attempts : f # partial[a] => cleanup'[f] = cleanup[f]
      BY <1>3, <2>3 DEF StartCleanup, TypeOK
    <3>2. \A b \in Attempts : b # a => pc'[b] = pc[b]
      BY <2>3 DEF TypeOK
    <3>3. ASSUME NEW f \in onServer' PROVE Accounted(f)'
      <4>1. f \in Attempts /\ Accounted(f)
        BY <1>1, <2>1 DEF TypeOK
      <4>2. CASE f = partial[a]
        BY <3>1, <4>2 DEF Accounted
      <4>3. CASE f # partial[a]
        BY <2>1, <3>1, <3>2, <4>1, <4>3 DEF Accounted
      <4>4. QED
        BY <4>2, <4>3
    <3>4. QED
      BY <3>3
  <2>4. QED
    BY <2>1, <2>2, <2>3
<1>Discarded. ASSUME NEW a \in Attempts, Discarded(a) PROVE Goal
  <2>1. /\ pc[a] = "discarding" /\ pc' = [pc EXCEPT ![a] = "ready"] /\ a \notin active
        /\ partial' = [partial EXCEPT ![a] = a]
        /\ UNCHANGED <<active, paused, onServer, sweep, reported, cleanup>>
    BY <1>Discarded DEF Discarded, At, WritersAreActive
  <2>2. \A b \in Attempts : b # a => pc'[b] = pc[b] /\ partial'[b] = partial[b]
    BY <2>1 DEF TypeOK
  <2>3. QED
    BY <1>1, <1>3, <2>1, <2>2 DEF Accounted
<1>Begin. ASSUME NEW a \in Attempts, Begin(a) PROVE Goal
  <2>1. /\ pc[a] = "ready" /\ pc' = [pc EXCEPT ![a] = "begun"] /\ active' = active \cup {a}
        /\ UNCHANGED <<paused, partial, onServer, sweep, reported, cleanup>>
    BY <1>Begin DEF Begin, At
  <2>2. \A b \in Attempts : b # a => pc'[b] = pc[b]
    BY <2>1 DEF TypeOK
  <2>3. QED
    BY <1>1, <2>1, <2>2 DEF Accounted
<1>Submit. ASSUME NEW a \in Attempts, Submit(a) PROVE Keeps
  BY <1>Submit DEF Submit, Keeps, TypeOK
<1>FinishCancelled. ASSUME NEW a \in Attempts, FinishCancelled(a) PROVE Keeps
  BY <1>FinishCancelled DEF FinishCancelled, Finish, Renamed, Keeps, TypeOK
<1>PublishedAnyway. ASSUME NEW a \in Attempts, PublishedAnyway(a) PROVE Keeps
  BY <1>PublishedAnyway DEF PublishedAnyway, At, Keeps, TypeOK
<1>Settle. ASSUME NEW a \in Attempts, Settle(a) PROVE Keeps
  BY <1>Settle DEF Settle, Keeps, TypeOK
<1>EndAttempt. ASSUME NEW a \in Attempts, EndAttempt(a) PROVE Goal
  <2>1. /\ pc[a] \in {"live", "notlive"} /\ Target(a) \in Targets
        /\ UNCHANGED <<partial, onServer, sweep, reported>>
        /\ \E to \in {"cleaning", "returned"} : pc' = [pc EXCEPT ![a] = to]
    BY <1>EndAttempt, <1>3 DEF EndAttempt
  <2>2. \A f \in Attempts : cleanup[f] \in {"running", "nosession"} => cleanup'[f] \in {"running", "nosession"}
    BY <1>EndAttempt DEF EndAttempt, StartCleanup, TypeOK
  <2>3. \A b \in Attempts : b # a => pc'[b] = pc[b]
    BY <2>1 DEF TypeOK
  <2>4. \/ active' = active /\ paused' = paused
        \/ active' = active \ {a} /\ paused' = paused /\ ~Unfinished(a)
        \/ /\ active' = active \ {a}
           /\ paused' = [paused EXCEPT ![Target(a)] = [file |-> partial[a], attempt |-> a]]
    BY <1>EndAttempt DEF EndAttempt, ActiveAfter
  <2>5. paused[Target(a)] = None
    BY <2>1 DEF NoRecord, Working
  <2>6. ASSUME ~Unfinished(a) PROVE partial[a] \notin onServer
    <3>1. CASE result[a] = "ok"
      BY <2>1, <3>1 DEF KnowsItsFile
    <3>2. CASE ~resumed[a] /\ ~started[a]
      <4>1. partial[a] = a
        BY <2>1, <3>2 DEF KnowsItsFile, Working
      <4>2. a \notin onServer
        BY <2>1, <3>2 DEF MadeByWriting, Done
      <4>3. QED
        BY <4>1, <4>2
    <3>3. QED
      BY <2>6, <3>1, <3>2 DEF Unfinished
  <2>7. \A s \in Targets : paused[s] # None => paused'[s] = paused[s]
    BY <2>1, <2>4, <2>5 DEF TypeOK
  <2>8. ASSUME NEW f \in onServer' PROVE Accounted(f)'
    <3>1. f \in Attempts /\ f \in onServer /\ Accounted(f)
      BY <1>1, <2>1 DEF TypeOK
    <3>2. CASE \E b \in active : partial[b] = f
      <4>1. PICK b \in active : partial[b] = f
        BY <3>2
      <4>2. CASE b \in active'
        BY <2>1, <4>1, <4>2 DEF Accounted
      <4>3. CASE b \notin active'
        <5>1. b = a /\ partial[a] \in onServer
          BY <2>4, <3>1, <4>1, <4>3
        <5>2. paused' = [paused EXCEPT ![Target(a)] = [file |-> partial[a], attempt |-> a]]
          BY <2>4, <2>6, <4>3, <5>1
        <5>3. paused'[Target(a)] # None /\ paused'[Target(a)].file = f
          BY <2>1, <4>1, <5>1, <5>2 DEF TypeOK, None
        <5>4. QED
          BY <2>1, <5>3 DEF Accounted
      <4>4. QED
        BY <4>2, <4>3
    <3>3. CASE \E s \in Targets : paused[s] # None /\ paused[s].file = f
      BY <2>7, <3>3 DEF Accounted
    <3>4. CASE \E b \in Attempts : pc[b] \in {"verifying", "ready"} /\ partial[b] = f
      BY <2>1, <2>3, <3>4 DEF Accounted
    <3>5. CASE f \in sweep \/ f \in reported
      BY <2>1, <3>5 DEF Accounted
    <3>6. CASE cleanup[f] \in {"running", "nosession"}
      BY <2>2, <3>1, <3>6 DEF Accounted
    <3>7. QED
      BY <3>1, <3>2, <3>3, <3>4, <3>5, <3>6 DEF Accounted
  <2>9. QED
    BY <2>8
<1>Cleaned. ASSUME NEW a \in Attempts, Cleaned(a) PROVE Goal
  <2>1. /\ pc[a] = "cleaning" /\ pc' = [pc EXCEPT ![a] = "returned"]
        /\ active \ {a} \subseteq active'
        /\ UNCHANGED <<paused, partial, onServer, sweep, reported, cleanup>>
    BY <1>Cleaned DEF Cleaned, At
  <2>2. \/ partial[a] \notin onServer \/ partial[a] \in reported
        \/ cleanup[partial[a]] \in {"running", "nosession"}
    BY <2>1 DEF CleaningIsCovered
  <2>3. \A b \in Attempts : b # a => pc'[b] = pc[b]
    BY <2>1 DEF TypeOK
  <2>4. ASSUME NEW f \in onServer' PROVE Accounted(f)'
    <3>1. f \in onServer /\ Accounted(f)
      BY <1>1, <2>1
    <3>2. CASE f = partial[a]
      BY <2>1, <2>2, <3>1, <3>2 DEF Accounted
    <3>3. CASE f # partial[a]
      BY <2>1, <2>3, <3>1, <3>3 DEF Accounted
    <3>4. QED
      BY <3>2, <3>3
  <2>5. QED
    BY <2>4
<1>Dispatch. ASSUME NEW a \in Attempts, Dispatch(a) PROVE Keeps
  BY <1>Dispatch DEF Dispatch, At, Keeps, TypeOK
<1>Write. ASSUME NEW a \in Attempts, Write(a) PROVE Goal
  <2>1. /\ pc[a] = "running" /\ pc' = [pc EXCEPT ![a] = "writing"]
        /\ UNCHANGED <<active, paused, partial, sweep, reported, cleanup>>
    BY <1>Write DEF Write, At
  <2>2. \A f : f \in onServer' => f \in onServer \/ f = partial[a]
    BY <1>Write DEF Write
  <2>3. a \in active \/ partial[a] \in reported
    BY <2>1 DEF WritersAreActive
  <2>4. \A b \in Attempts : b # a => pc'[b] = pc[b]
    BY <2>1 DEF TypeOK
  <2>5. ASSUME NEW f \in onServer' PROVE Accounted(f)'
    <3>1. CASE f = partial[a]
      BY <2>1, <2>3, <3>1 DEF Accounted
    <3>2. CASE f # partial[a]
      <4>1. Accounted(f)
        BY <1>1, <2>2, <3>2
      <4>2. QED
        BY <2>1, <2>4, <3>2, <4>1 DEF Accounted
    <3>3. QED
      BY <3>1, <3>2
  <2>6. QED
    BY <2>5
<1>FinishWhole. ASSUME NEW a \in Attempts, FinishWhole(a) PROVE Keeps
  BY <1>FinishWhole DEF FinishWhole, Finish, At, Renamed, Keeps, TypeOK
<1>FinishFailed. ASSUME NEW a \in Attempts, FinishFailed(a) PROVE Keeps
  BY <1>FinishFailed DEF FinishFailed, Finish, Keeps, TypeOK
<1>FinishUnknown. ASSUME NEW a \in Attempts, FinishUnknown(a) PROVE Keeps
  BY <1>FinishUnknown DEF FinishUnknown, Finish, At, Renamed, Keeps, TypeOK
<1>BeginPause. ASSUME NEW a \in Attempts, BeginPause(a) PROVE Keeps
  BY <1>BeginPause DEF BeginPause, NextCall, Keeps, TypeOK
<1>BeginStop. ASSUME NEW a \in Attempts, BeginStop(a) PROVE Goal
  <2> DEFINE t == Target(a)
  <2>1. UNCHANGED <<active, pc, partial, onServer, sweep, reported>> /\ t \in Targets
    BY <1>BeginStop, <1>3 DEF BeginStop
  <2>2. CASE paused' = paused /\ cleanup' = cleanup
    BY <1>2, <2>1, <2>2 DEF Keeps
  <2>3. CASE paused[t] # None /\ Take(t) /\ StartCleanup(paused[t].file)
    <3>1. PICK g \in Attempts : g = paused[t].file
      BY <2>1, <2>3 DEF TypeOK, RECORD
    <3>2. /\ cleanup'[g] \in {"running", "nosession"}
          /\ \A f \in Attempts : f # g => cleanup'[f] = cleanup[f]
      BY <2>3, <3>1 DEF StartCleanup, TypeOK
    <3>3. \A s \in Targets : s # t => paused'[s] = paused[s]
      BY <2>3 DEF Take, TypeOK
    <3> HIDE DEF t
    <3>4. ASSUME NEW f \in onServer' PROVE Accounted(f)'
      <4>1. f \in Attempts /\ Accounted(f)
        BY <1>1, <2>1 DEF TypeOK
      <4>2. CASE f = g
        BY <3>2, <4>2 DEF Accounted
      <4>3. CASE f # g
        BY <2>1, <3>1, <3>2, <3>3, <4>1, <4>3 DEF Accounted
      <4>4. QED
        BY <4>2, <4>3
    <3>5. QED
      BY <3>4
  <2>4. QED
    BY <1>BeginStop, <2>2, <2>3 DEF BeginStop
<1>PoolCancel. ASSUME NEW a \in Attempts, PoolCancel(a) PROVE Keeps
  BY <1>PoolCancel DEF PoolCancel, Keeps, TypeOK
<1>CleanRemoves. ASSUME NEW a \in Attempts, CleanRemoves(a) PROVE Keeps
  BY <1>CleanRemoves DEF CleanRemoves, Keeps, TypeOK
<1>CleanGivesUp. ASSUME NEW a \in Attempts, CleanGivesUp(a) PROVE Keeps
  BY <1>CleanGivesUp DEF CleanGivesUp, Keeps, TypeOK
<1>CleanFindsNoSession. ASSUME NEW a \in Attempts, CleanFindsNoSession(a) PROVE Keeps
  BY <1>CleanFindsNoSession DEF CleanFindsNoSession, Keeps, TypeOK
<1>q. Goal
  BY <1>2, <1>starts, <1>Approve, <1>AskPause, <1>AskStop, <1>CloseTab, <1>CloseRows,
     <1>RemoveSession, <1>TakeSession, <1>Sweep, <1>CloseSession, <1>SweepOne, <1>Answer,
     <1>Reserve, <1>Claim, <1>Verify, <1>Discarded, <1>Begin, <1>Submit,
     <1>FinishCancelled, <1>PublishedAnyway, <1>Settle, <1>EndAttempt, <1>Cleaned,
     <1>Dispatch, <1>Write, <1>FinishWhole, <1>FinishFailed, <1>FinishUnknown,
     <1>BeginPause, <1>BeginStop, <1>PoolCancel, <1>CleanRemoves, <1>CleanGivesUp,
     <1>CleanFindsNoSession DEF Next, User, Unwind, Run, Cancel, Clean, Close
<1>4. NoFileIsForgotten' <=> Goal
  BY DEF NoFileIsForgotten, Recorded, Claimed, Accounted
<1>5. QED
  BY <1>q, <1>4
-----------------------------------------------------------------------------
(* No file exists. *)
LEMMA InitFInv == Init => FInv
<1> SUFFICES ASSUME Init PROVE FInv
  OBVIOUS
<1>1. IInv
  BY InitIInv
<1>2. Latest /\ NoRecord /\ MadeByWriting /\ KnowsItsFile
  BY AttemptTypes DEF Init, Latest, NoRecord, MadeByWriting, KnowsItsFile, Working
<1>3. WritersAreActive /\ CleaningIsCovered /\ NoFileIsForgotten
  BY DEF Init, WritersAreActive, CleaningIsCovered, NoFileIsForgotten
<1>4. QED
  BY <1>1, <1>2, <1>3 DEF FInv

(* The invariant speaks of these variables only. *)
LEMMA StutterFInv == FInv /\ UNCHANGED vars => FInv'
<1> SUFFICES ASSUME FInv, UNCHANGED vars PROVE FInv'
  OBVIOUS
<1> USE DEF FInv, vars, rowVars, localVars, registry, poolVars, closeVars, server
<1>1. IInv'
  BY StutterIInv DEF vars
<1>2. Latest' /\ NoRecord' /\ MadeByWriting'
  BY DEF Latest, Dead, NoRecord, Target, MadeByWriting
<1>3. KnowsItsFile' /\ WritersAreActive' /\ CleaningIsCovered'
  BY DEF KnowsItsFile, Unfinished, WritersAreActive, HasPool, CleaningIsCovered
<1>4. NoFileIsForgotten'
  BY DEF NoFileIsForgotten, Recorded, Claimed
<1>5. QED
  BY <1>1, <1>2, <1>3, <1>4

(* With one row for each destination, a staging file on the server is      *)
(* always recorded in the registry, claimed by an attempt, being cleaned   *)
(* up, being swept, named by a log line or left to the teardown, in every  *)
(* order of Pause, Resume, Stop, cleanup and disconnect.                   *)
THEOREM FilesAreNeverForgotten ==
    ASSUME OneRowPerTarget
    PROVE  Spec => []NoFileIsForgotten
<1>1. FInv /\ Next => IInv'
  BY TypeStep, TriesStep, OwnStep, SweepingStep DEF FInv, IInv
<1>2. FInv /\ Next => FInv'
  <2> SUFFICES ASSUME FInv, Next PROVE FInv'
    OBVIOUS
  <2>1. TypeOK /\ TriesCount
    BY DEF FInv, IInv
  <2>2. Latest' /\ NoRecord'
    BY <2>1, LatestStep, NoRecordStep DEF FInv
  <2>3. MadeByWriting' /\ KnowsItsFile'
    BY MadeByWritingStep, KnowsItsFileStep DEF FInv
  <2>4. WritersAreActive' /\ CleaningIsCovered'
    BY WritersAreActiveStep, CleaningIsCoveredStep DEF FInv
  <2>5. NoFileIsForgotten'
    BY NoFileIsForgottenStep
  <2>6. QED
    BY <1>1, <2>2, <2>3, <2>4, <2>5 DEF FInv
<1>3. FInv /\ [Next]_vars => FInv'
  BY <1>2, StutterFInv
<1>4. FInv => NoFileIsForgotten
  BY DEF FInv
<1>5. QED
  BY InitFInv, <1>3, <1>4, PTL DEF Spec
-----------------------------------------------------------------------------

\* A stopped row's last command is the Stop of its attempt.
StopIsLast ==
    \A u \in Uploads : intent[u] = "stopped" =>
        calls[u] = <<>> \/ calls[u][Len(calls[u])] = <<"stop", Current(u)>>

\* An attempt has one mark.
MarksApart == \A i, j \in DOMAIN marks : marks[i] = marks[j] => i = j

\* When that command has begun, it has taken the mark and the record.
StopTookAll ==
    \A u \in Uploads : intent[u] = "stopped" /\ calls[u] = <<>> =>
        /\ ~IsMarked(Current(u))
        /\ \A t \in Targets : paused[t] # None => paused[t].attempt # Current(u)

\* What is kept for a destination is of an attempt at that destination.
RecordsAreTheirs ==
    \A t \in Targets : paused[t] # None => Target(paused[t].attempt) = t

(* The inductive invariant of the Stop. *)
StopInv == StopIsLast /\ MarksApart /\ StopTookAll /\ RecordsAreTheirs

-----------------------------------------------------------------------------
\* A command is of an attempt the row has had, and shows in the row's intent.
CommandsOf(u) ==
    \A i \in 1 .. Len(calls[u]) :
        LET kind == calls[u][i][1]
            a == calls[u][i][2]
        IN  /\ a[1] = u /\ a[2] <= tries[u]
            /\ kind = "stop" /\ a[2] = tries[u] => intent[u] = "stopped"
            /\ kind = "pause" /\ a[2] = tries[u] => intent[u] # "none"

CallsAreSent == \A u \in Uploads : CommandsOf(u)

\* A command has begun for the attempt while it could act on it, or it was cancelled.
Touched(a) ==
    \/ result[a] = "cancelled"
    \/ ~Submitted(a) /\ (told[a] # {} \/ a \in token \cup poolCancelled)

\* Nobody has asked anything of an attempt that is still to come.
FreshIsUntouched == \A a \in Attempts : a[2] > tries[a[1]] => ~Touched(a)

\* An active row was not told to end.
ActiveIsUnasked == \A u \in Uploads : row[u] = "active" => intent[u] = "none"

\* When the tab is closed every row in flight is stopped, not paused.
ClosedIsStopped ==
    Dead =>
        /\ \A u \in Uploads : row[u] # "active"
        /\ \A a \in Attempts :
              a[2] = tries[a[1]] /\ intent[a[1]] = "paused" => pc[a] \in {"unused", "over"}

\* A cancelled attempt was paused, and its mark waits for it, or stopped.
CancelledIsMarked ==
    \A a \in Attempts : a[2] = tries[a[1]] /\ Touched(a) /\ pc[a] # "over" =>
        \/ intent[a[1]] = "stopped" \/ Dead
        \/ intent[a[1]] = "paused" /\ (pc[a] = "returned" \/ (IsMarked(a) /\ pc[a] # "cleaning"))

\* A Pause that is about to begin finds room for its mark.
MarksHaveRoom ==
    \A a \in Attempts :
        calls[a[1]] # <<>> /\ Head(calls[a[1]]) = <<"pause", a>> /\ ~IsMarked(a)
            => Len(marks) < MarkCap

(* The inductive invariant of the Pause. *)
PauseInv ==
    /\ CallsAreSent /\ FreshIsUntouched /\ ActiveIsUnasked /\ ClosedIsStopped
    /\ CancelledIsMarked

(* Taking a mark away leaves the others, and none of the attempt's own. *)
LEMMA UnmarkTakes ==
  ASSUME NEW a \in Attempts, marks \in Seq(Attempts), MarksApart
  PROVE  /\ Unmark(a) \in Seq(Attempts)
         /\ \A i, j \in DOMAIN Unmark(a) : Unmark(a)[i] = Unmark(a)[j] => i = j
         /\ \A b \in Attempts :
               (\E i \in DOMAIN Unmark(a) : Unmark(a)[i] = b) <=> IsMarked(b) /\ b # a
<1>1. CASE ~IsMarked(a)
  BY <1>1 DEF Unmark, IsMarked, MarksApart
<1>2. CASE IsMarked(a)
  <2> DEFINE k == CHOOSE i \in DOMAIN marks : marks[i] = a
  <2>1. k \in DOMAIN marks /\ marks[k] = a
    BY <1>2 DEF IsMarked
  <2>2. DOMAIN marks = 1 .. Len(marks) /\ Len(marks) \in Nat
    BY LenProperties
  <2>3. Unmark(a) = RemoveAt(marks, k)
    BY <1>2 DEF Unmark
  <2> HIDE DEF k
  <2>4. /\ RemoveAt(marks, k) \in Seq(Attempts)
        /\ Len(RemoveAt(marks, k)) = Len(marks) - 1
        /\ \A i \in 1 .. Len(marks) - 1 :
              RemoveAt(marks, k)[i] = IF i < k THEN marks[i] ELSE marks[i + 1]
    BY <2>1, <2>2, RemoveAtIs
  <2>5. DOMAIN RemoveAt(marks, k) = 1 .. Len(marks) - 1
    BY <2>4, LenProperties
  <2>6. \A i \in 1 .. Len(marks) - 1 :
           /\ i + 1 \in DOMAIN marks /\ i \in DOMAIN marks
           /\ RemoveAt(marks, k)[i] = marks[IF i < k THEN i ELSE i + 1]
    BY <2>2, <2>4
  <2>7. ASSUME NEW i \in 1 .. Len(marks) - 1, NEW j \in 1 .. Len(marks) - 1,
               RemoveAt(marks, k)[i] = RemoveAt(marks, k)[j]
        PROVE  i = j
    <3>1. (IF i < k THEN i ELSE i + 1) = (IF j < k THEN j ELSE j + 1)
      BY <2>6, <2>7 DEF MarksApart
    <3> QED
      BY <2>1, <2>2, <3>1
  <2>8. ASSUME NEW i \in 1 .. Len(marks) - 1
        PROVE  RemoveAt(marks, k)[i] # a /\ IsMarked(RemoveAt(marks, k)[i])
    <3>1. (IF i < k THEN i ELSE i + 1) # k /\ (IF i < k THEN i ELSE i + 1) \in DOMAIN marks
      BY <2>1, <2>2
    <3> QED
      BY <2>1, <2>6, <3>1 DEF MarksApart, IsMarked
  <2>9. ASSUME NEW b \in Attempts, IsMarked(b), b # a
        PROVE  \E i \in 1 .. Len(marks) - 1 : RemoveAt(marks, k)[i] = b
    <3>1. PICK j \in DOMAIN marks : marks[j] = b
      BY <2>9 DEF IsMarked
    <3>2. j # k
      BY <2>1, <2>9, <3>1
    <3>3. CASE j < k
      BY <2>1, <2>2, <2>4, <3>1, <3>3
    <3>4. CASE j > k
      <4>1. j - 1 \in 1 .. Len(marks) - 1 /\ ~(j - 1 < k) /\ (j - 1) + 1 = j
        BY <2>1, <2>2, <3>4
      <4> QED
        BY <2>4, <3>1, <4>1
    <3> QED
      BY <2>1, <2>2, <3>1, <3>2, <3>3, <3>4
  <2> QED
    BY <2>3, <2>4, <2>5, <2>7, <2>8, <2>9
<1> QED
  BY <1>1, <1>2

(* A mark is set once, and the oldest one goes when there are too many. *)
LEMMA MarkSets ==
  ASSUME NEW a \in Attempts, marks \in Seq(Attempts), MarksApart, ~IsMarked(a)
  PROVE  LET after == Capped(Append(marks, a))
         IN  /\ \A i, j \in DOMAIN after : after[i] = after[j] => i = j
             /\ \A i \in DOMAIN after : IsMarked(after[i]) \/ after[i] = a
             /\ \E i \in DOMAIN after : after[i] = a
             /\ Len(marks) < MarkCap =>
                   \A b \in Attempts : IsMarked(b) => \E i \in DOMAIN after : after[i] = b
<1> DEFINE s == Append(marks, a)
<1>1. /\ s \in Seq(Attempts) /\ Len(s) = Len(marks) + 1 /\ Len(marks) \in Nat
      /\ \A i \in 1 .. Len(marks) : s[i] = marks[i]
      /\ s[Len(marks) + 1] = a
  BY AppendProperties, LenProperties
<1>2. DOMAIN marks = 1 .. Len(marks) /\ DOMAIN s = 1 .. Len(marks) + 1
  BY <1>1, LenProperties
<1>3. \A i, j \in 1 .. Len(marks) + 1 : s[i] = s[j] => i = j
  BY <1>1, <1>2 DEF MarksApart, IsMarked
<1>4. \A i \in 1 .. Len(marks) + 1 : IsMarked(s[i]) \/ s[i] = a
  BY <1>1, <1>2 DEF IsMarked
<1>5. CASE Len(s) <= MarkCap
  <2>1. Capped(s) = s
    BY <1>1, <1>5, StagingAssumption DEF Capped
  <2>2. ASSUME NEW b \in Attempts, IsMarked(b) PROVE \E i \in DOMAIN s : s[i] = b
    BY <1>1, <1>2, <2>2 DEF IsMarked
  <2> HIDE DEF s
  <2> QED
    BY <1>1, <1>2, <1>3, <1>4, <2>1, <2>2 DEF s
<1>6. CASE Len(s) > MarkCap
  <2>1. Capped(s) = Tail(s) /\ ~(Len(marks) < MarkCap) /\ Len(marks) >= 1
    BY <1>1, <1>6, StagingAssumption DEF Capped
  <2>2. s # <<>>
    BY <1>1
  <2>3. /\ Tail(s) \in Seq(Attempts) /\ Len(Tail(s)) = Len(marks)
        /\ \A i \in 1 .. Len(marks) : Tail(s)[i] = s[i + 1]
    BY <1>1, <2>2, HeadTailProperties
  <2>4. DOMAIN Tail(s) = 1 .. Len(marks)
    BY <2>3, LenProperties
  <2>5. \A i, j \in 1 .. Len(marks) : Tail(s)[i] = Tail(s)[j] => i = j
    BY <1>1, <1>3, <2>3
  <2>6. \A i \in 1 .. Len(marks) : IsMarked(Tail(s)[i]) \/ Tail(s)[i] = a
    BY <1>1, <1>4, <2>3
  <2>7. Tail(s)[Len(marks)] = a /\ Len(marks) \in 1 .. Len(marks)
    BY <1>1, <2>1, <2>3
  <2> QED
    BY <2>1, <2>4, <2>5, <2>6, <2>7
<1> QED
  BY <1>1, <1>5, <1>6, StagingAssumption

(* A step in which no command is sent, no attempt begins and nothing is     *)
(* marked or kept.                                                         *)
StopQuiet ==
    /\ UNCHANGED <<intent, calls, tries, marks>>
    /\ \A t \in Targets : paused'[t] \in {None, paused[t]}

(* Most steps are of that kind. *)
LEMMA StepIsStopQuiet ==
  ASSUME TypeOK, NEW a \in Attempts,
         \/ Reserve(a) \/ Claim(a) \/ Verify(a) \/ Discarded(a) \/ Begin(a) \/ Submit(a)
         \/ FinishCancelled(a) \/ PublishedAnyway(a) \/ Settle(a) \/ Cleaned(a) \/ Answer(a)
         \/ Run(a) \/ PoolCancel(a) \/ Clean(a)
  PROVE  StopQuiet
<1> USE DEF StopQuiet, rowVars, registry
<1>1. CASE Reserve(a) \/ Verify(a) \/ Discarded(a) \/ Begin(a) \/ Submit(a) \/ FinishCancelled(a)
  BY <1>1 DEF Reserve, Verify, Discarded, Begin, Submit, FinishCancelled, Finish
<1>2. CASE Claim(a)
  BY <1>2, AttemptTypes DEF Claim, Take, TypeOK
<1>3. CASE PublishedAnyway(a) \/ Settle(a) \/ Cleaned(a) \/ Answer(a)
  BY <1>3 DEF PublishedAnyway, Settle, Cleaned, Answer
<1>4. CASE Run(a)
  BY <1>4 DEF Run, Dispatch, Write, FinishWhole, FinishFailed, FinishUnknown, Finish
<1>5. CASE PoolCancel(a) \/ Clean(a)
  BY <1>5 DEF PoolCancel, Clean, CleanRemoves, CleanGivesUp, CleanFindsNoSession
<1> QED
  BY <1>1, <1>2, <1>3, <1>4, <1>5

(* So is the disconnect, and an answer of the user. *)
LEMMA OtherIsStopQuiet ==
  ASSUME Close \/ CloseRows \/ (\E u \in Uploads : Approve(u)) \/ UNCHANGED vars
  PROVE  StopQuiet
<1> USE DEF StopQuiet, rowVars, registry
<1>1. CASE Close \/ CloseRows
  BY <1>1 DEF Close, RemoveSession, TakeSession, Sweep, SweepOne, CloseSession, CloseRows
<1>2. CASE (\E u \in Uploads : Approve(u)) \/ UNCHANGED vars
  BY <1>2 DEF Approve, vars
<1> QED
  BY <1>1, <1>2

(* They leave what a Stop does alone. *)
LEMMA StopQuietKeeps ==
  ASSUME StopInv, StopQuiet
  PROVE  StopInv'
<1>1. StopIsLast'
  BY DEF StopQuiet, StopInv, StopIsLast, Current
<1>2. MarksApart'
  BY DEF StopQuiet, StopInv, MarksApart
<1>3. StopTookAll'
  BY DEF StopQuiet, StopInv, StopTookAll, Current, IsMarked
<1>4. RecordsAreTheirs'
  BY DEF StopQuiet, StopInv, RecordsAreTheirs
<1> QED
  BY <1>1, <1>2, <1>3, <1>4 DEF StopInv

(* A new attempt is asked for by nobody yet. *)
LEMMA NewKeepsStop ==
  ASSUME TypeOK, StopInv, NEW u \in Uploads, Upload(u) \/ Resume(u) \/ Retry(u)
  PROVE  StopInv'
<1>1. /\ intent' = [intent EXCEPT ![u] = "none"] /\ tries' = [tries EXCEPT ![u] = @ + 1]
      /\ UNCHANGED <<calls, marks, paused>>
  BY DEF Upload, Resume, Retry, NewAttempt, registry
<1>2. intent'[u] = "none"
      /\ \A v \in Uploads : v # u => intent'[v] = intent[v] /\ tries'[v] = tries[v]
  BY <1>1 DEF TypeOK
<1> QED
  BY <1>1, <1>2
     DEF StopInv, StopIsLast, MarksApart, StopTookAll, RecordsAreTheirs, Current, IsMarked

(* The Stop of some rows is the last of their commands. *)
LEMMA StopRowsKeepsStop ==
  ASSUME TypeOK, StopInv, NEW S \in SUBSET Uploads, StopRows(S), UNCHANGED <<tries, marks, paused>>
  PROVE  StopInv'
<1>1. ASSUME NEW u \in Uploads, intent'[u] = "stopped"
      PROVE  \/ u \in S /\ calls'[u] = Append(calls[u], <<"stop", Current(u)>>)
             \/ intent[u] = "stopped" /\ calls'[u] = calls[u]
  BY <1>1 DEF StopRows
<1>2. \A u \in Uploads : calls[u] \in Seq({"pause", "stop"} \X Attempts) /\ Current(u)' = Current(u)
  BY DEF TypeOK, Current
<1>3. ASSUME NEW u \in Uploads, calls'[u] = Append(calls[u], <<"stop", Current(u)>>)
      PROVE  calls'[u] # <<>> /\ calls'[u][Len(calls'[u])] = <<"stop", Current(u)>>
  BY <1>2, <1>3
<1>4. StopIsLast'
  BY <1>1, <1>2, <1>3 DEF StopInv, StopIsLast
<1>5. StopTookAll'
  BY <1>1, <1>2, <1>3 DEF StopInv, StopTookAll, IsMarked
<1> QED
  BY <1>4, <1>5 DEF StopInv, MarksApart, RecordsAreTheirs

(* The marks that are left when one is taken. *)
LEMMA UnmarkedMarks ==
  ASSUME TypeOK, StopInv, NEW a \in Attempts, marks' = Unmark(a)
  PROVE  /\ \A i, j \in DOMAIN marks' : marks'[i] = marks'[j] => i = j
         /\ \A b \in Attempts : IsMarked(b)' => IsMarked(b) /\ b # a
         /\ \A i \in DOMAIN marks' : marks'[i] \in Attempts
<1>1. marks \in Seq(Attempts) /\ MarksApart
  BY DEF TypeOK, StopInv
<1>2. /\ marks' \in Seq(Attempts)
      /\ \A i, j \in DOMAIN marks' : marks'[i] = marks'[j] => i = j
      /\ \A b \in Attempts :
            (\E i \in DOMAIN marks' : marks'[i] = b) <=> IsMarked(b) /\ b # a
  BY <1>1, UnmarkTakes
<1>3. \A i \in DOMAIN marks' : marks'[i] \in Attempts
  BY <1>2
<1> QED
  BY <1>2, <1>3 DEF IsMarked

(* What an attempt leaves when it ends: its mark is gone, its record is of  *)
(* an attempt that was marked.                                             *)
LEMMA EndKeepsStop ==
  ASSUME TypeOK, StopInv, NEW a \in Attempts, EndAttempt(a)
  PROVE  StopInv'
<1>1. /\ UNCHANGED <<intent, calls, tries>> /\ marks' = Unmark(a)
      /\ \/ paused' = paused
         \/ /\ paused' = [paused EXCEPT ![Target(a)] = [file |-> partial[a], attempt |-> a]]
            /\ IsMarked(a)
  BY DEF EndAttempt, rowVars
<1>2. /\ \A i, j \in DOMAIN marks' : marks'[i] = marks'[j] => i = j
      /\ \A b \in Attempts : IsMarked(b)' => IsMarked(b) /\ b # a
  BY <1>1, UnmarkedMarks
<1>3. MarksApart'
  BY <1>2 DEF MarksApart
<1>4. StopIsLast'
  BY <1>1 DEF StopInv, StopIsLast, Current
<1>5. StopTookAll'
  <2> SUFFICES ASSUME NEW u \in Uploads, intent[u] = "stopped", calls[u] = <<>>
               PROVE  /\ ~IsMarked(Current(u))'
                      /\ \A t \in Targets : paused'[t] # None => paused'[t].attempt # Current(u)
    BY <1>1 DEF StopTookAll, Current
  <2>1. ~IsMarked(Current(u)) /\ Current(u)' = Current(u)
        /\ \A t \in Targets : paused[t] # None => paused[t].attempt # Current(u)
    BY <1>1 DEF StopInv, StopTookAll, Current
  <2>2. ~IsMarked(Current(u))'
    <3>1. CASE Current(u) \in Attempts
      BY <1>2, <2>1, <3>1
    <3>2. CASE Current(u) \notin Attempts
      BY <1>1, <2>1, <3>2, UnmarkedMarks DEF IsMarked
    <3> QED
      BY <3>1, <3>2
  <2>3. ASSUME NEW t \in Targets, paused'[t] # None PROVE paused'[t].attempt # Current(u)
    BY <1>1, <2>1, <2>3 DEF TypeOK
  <2> QED
    BY <2>2, <2>3
<1>6. RecordsAreTheirs'
  BY <1>1, AttemptTypes DEF StopInv, RecordsAreTheirs, TypeOK
<1> QED
  BY <1>3, <1>4, <1>5, <1>6 DEF StopInv

(* The commands that are left when the first one begins. *)
LEMMA NextCallLeaves ==
  ASSUME TypeOK, NEW a \in Attempts, NEW kind, NextCall(a, kind)
  PROVE  /\ a[1] \in Uploads /\ calls[a[1]] # <<>> /\ calls[a[1]][1] = <<kind, a>>
         /\ Len(calls[a[1]]) >= 1
         /\ \A u \in Uploads : u # a[1] => calls'[u] = calls[u]
         /\ Len(calls'[a[1]]) = Len(calls[a[1]]) - 1
         /\ \A i \in 1 .. Len(calls[a[1]]) - 1 : calls'[a[1]][i] = calls[a[1]][i + 1]
         /\ calls'[a[1]] = <<>> <=> Len(calls[a[1]]) = 1
         /\ Len(calls[a[1]]) \in Nat
<1>1. a[1] \in Uploads /\ calls[a[1]] \in Seq({"pause", "stop"} \X Attempts)
  BY AttemptTypes DEF TypeOK
<1>2. calls'[a[1]] = Tail(calls[a[1]]) /\ \A u \in Uploads : u # a[1] => calls'[u] = calls[u]
  BY <1>1 DEF NextCall, TypeOK
<1> DEFINE s == calls[a[1]]
<1>3. s # <<>> /\ Head(s) = <<kind, a>>
  BY DEF NextCall
<1>4. s \in Seq({"pause", "stop"} \X Attempts)
  BY <1>1
<1> HIDE DEF s
<1>5. /\ s[1] = <<kind, a>> /\ Len(s) \in Nat /\ Len(s) >= 1
      /\ Len(Tail(s)) = Len(s) - 1 /\ Tail(s) \in Seq({"pause", "stop"} \X Attempts)
      /\ \A i \in 1 .. Len(s) - 1 : Tail(s)[i] = s[i + 1]
  BY <1>3, <1>4
<1>6. Tail(s) = <<>> <=> Len(s) = 1
  <2>1. Len(Tail(s)) = 0 <=> Len(s) = 1
    BY <1>5
  <2>2. Len(Tail(s)) = 0 <=> Tail(s) = <<>>
    BY <1>5, EmptySeq
  <2> QED
    BY <2>1, <2>2
<1> QED
  BY <1>1, <1>2, <1>3, <1>5, <1>6 DEF s

(* A Pause that begins is not the last command of a stopped row. *)
LEMMA PauseKeepsStop ==
  ASSUME TypeOK, StopInv, NEW a \in Attempts, BeginPause(a)
  PROVE  StopInv'
<1> DEFINE r == a[1]
<1>1. /\ UNCHANGED <<intent, tries, paused>>
      /\ marks' = IF IsMarked(a) THEN marks ELSE Capped(Append(marks, a))
      /\ NextCall(a, "pause")
  BY DEF BeginPause
<1>2. /\ r \in Uploads /\ calls[r] # <<>> /\ calls[r][1] = <<"pause", a>> /\ Len(calls[r]) >= 1
      /\ \A u \in Uploads : u # r => calls'[u] = calls[u]
      /\ Len(calls'[r]) = Len(calls[r]) - 1
      /\ \A i \in 1 .. Len(calls[r]) - 1 : calls'[r][i] = calls[r][i + 1]
      /\ calls'[r] = <<>> <=> Len(calls[r]) = 1
      /\ Len(calls[r]) \in Nat
  BY <1>1, NextCallLeaves
<1>3. intent[r] = "stopped" =>
         /\ Len(calls[r]) # 1
         /\ calls'[r] # <<>> /\ calls'[r][Len(calls'[r])] = <<"stop", Current(r)>>
  <2> SUFFICES ASSUME intent[r] = "stopped"
               PROVE  /\ Len(calls[r]) # 1
                      /\ calls'[r] # <<>> /\ calls'[r][Len(calls'[r])] = <<"stop", Current(r)>>
    OBVIOUS
  <2>1. calls[r][Len(calls[r])] = <<"stop", Current(r)>>
    BY <1>2 DEF StopInv, StopIsLast
  <2>2. Len(calls[r]) # 1
    BY <1>2, <2>1
  <2>3. /\ Len(calls[r]) - 1 \in 1 .. Len(calls[r]) - 1
        /\ (Len(calls[r]) - 1) + 1 = Len(calls[r])
    BY <1>2, <2>2
  <2> QED
    BY <1>2, <2>1, <2>2, <2>3
<1>4. \A u \in Uploads : Current(u)' = Current(u)
  BY <1>1 DEF Current
<1>5. StopIsLast'
  BY <1>1, <1>2, <1>3, <1>4 DEF StopInv, StopIsLast
<1>6. /\ \A i, j \in DOMAIN marks' : marks'[i] = marks'[j] => i = j
      /\ \A i \in DOMAIN marks' : IsMarked(marks'[i]) \/ marks'[i] = a
  <2>1. CASE IsMarked(a)
    BY <1>1, <2>1 DEF StopInv, MarksApart, IsMarked
  <2>2. CASE ~IsMarked(a)
    BY <1>1, <2>2, MarkSets DEF StopInv, TypeOK
  <2> QED
    BY <2>1, <2>2
<1>7. StopTookAll'
  <2> SUFFICES ASSUME NEW u \in Uploads, intent[u] = "stopped", calls'[u] = <<>>
               PROVE  /\ ~IsMarked(Current(u))'
                      /\ \A t \in Targets : paused[t] # None => paused[t].attempt # Current(u)
    BY <1>1, <1>4 DEF StopTookAll
  <2>1. u # r /\ calls[u] = <<>>
    BY <1>2, <1>3
  <2>2. /\ ~IsMarked(Current(u))
        /\ \A t \in Targets : paused[t] # None => paused[t].attempt # Current(u)
    BY <2>1 DEF StopInv, StopTookAll
  <2>3. Current(u) # a
    BY <2>1 DEF Current
  <2> QED
    BY <1>4, <1>6, <2>2, <2>3 DEF IsMarked
<1> QED
  BY <1>1, <1>5, <1>6, <1>7 DEF StopInv, MarksApart, RecordsAreTheirs

(* A Stop that begins takes the attempt's mark and what was kept for it. *)
LEMMA StopKeepsStop ==
  ASSUME TypeOK, StopInv, NEW a \in Attempts, BeginStop(a)
  PROVE  StopInv'
<1> DEFINE r == a[1]
<1>1. /\ UNCHANGED <<intent, tries>> /\ marks' = Unmark(a) /\ NextCall(a, "stop")
  BY DEF BeginStop, TakeMark
<1>2. /\ r \in Uploads /\ calls[r] # <<>> /\ calls[r][1] = <<"stop", a>> /\ Len(calls[r]) >= 1
      /\ \A u \in Uploads : u # r => calls'[u] = calls[u]
      /\ Len(calls'[r]) = Len(calls[r]) - 1
      /\ \A i \in 1 .. Len(calls[r]) - 1 : calls'[r][i] = calls[r][i + 1]
      /\ calls'[r] = <<>> <=> Len(calls[r]) = 1
      /\ Len(calls[r]) \in Nat
  BY <1>1, NextCallLeaves
<1>3. \A u \in Uploads : Current(u)' = Current(u)
  BY <1>1 DEF Current
<1>4. intent[r] = "stopped" /\ calls'[r] # <<>> =>
         calls'[r][Len(calls'[r])] = <<"stop", Current(r)>>
  <2> SUFFICES ASSUME intent[r] = "stopped", calls'[r] # <<>>
               PROVE  calls'[r][Len(calls'[r])] = <<"stop", Current(r)>>
    OBVIOUS
  <2>1. calls[r][Len(calls[r])] = <<"stop", Current(r)>>
    BY <1>2 DEF StopInv, StopIsLast
  <2>2. /\ Len(calls[r]) - 1 \in 1 .. Len(calls[r]) - 1
        /\ (Len(calls[r]) - 1) + 1 = Len(calls[r])
    BY <1>2
  <2> QED
    BY <1>2, <2>1, <2>2
<1>5. StopIsLast'
  BY <1>1, <1>2, <1>3, <1>4 DEF StopInv, StopIsLast
<1>6. intent[r] = "stopped" /\ calls'[r] = <<>> => Current(r) = a
  BY <1>2 DEF StopInv, StopIsLast
<1>7. \A t \in Targets : /\ paused'[t] # None => paused'[t] = paused[t]
                         /\ paused'[t] # None => paused'[t].attempt # a
  <2>1. \A t \in Targets : paused[t] # None => Target(paused[t].attempt) = t
    BY DEF StopInv, RecordsAreTheirs
  <2>2. Target(a) \in Targets
    BY AttemptTypes
  <2>3. CASE paused[Target(a)] # None /\ paused[Target(a)].attempt = a
    <3>1. paused' = [paused EXCEPT ![Target(a)] = None]
      BY <2>3 DEF BeginStop, Take
    <3>2. \A t \in Targets : paused'[t] # None => paused'[t] = paused[t] /\ t # Target(a)
      BY <3>1 DEF TypeOK
    <3> QED
      BY <2>1, <3>2
  <2>4. CASE ~(paused[Target(a)] # None /\ paused[Target(a)].attempt = a)
    BY <2>1, <2>2, <2>4 DEF BeginStop, TypeOK
  <2> QED
    BY <2>3, <2>4
<1>8. /\ \A i, j \in DOMAIN marks' : marks'[i] = marks'[j] => i = j
      /\ \A b \in Attempts : IsMarked(b)' => IsMarked(b) /\ b # a
      /\ \A i \in DOMAIN marks' : marks'[i] \in Attempts
  BY <1>1, UnmarkedMarks
<1>9. StopTookAll'
  <2> SUFFICES ASSUME NEW u \in Uploads, intent[u] = "stopped", calls'[u] = <<>>
               PROVE  /\ ~IsMarked(Current(u))'
                      /\ \A t \in Targets : paused'[t] # None => paused'[t].attempt # Current(u)
    BY <1>1, <1>3 DEF StopTookAll
  <2>1. CASE u = r
    BY <1>3, <1>6, <1>7, <1>8, <2>1
  <2>2. CASE u # r
    <3>1. /\ ~IsMarked(Current(u))
          /\ \A t \in Targets : paused[t] # None => paused[t].attempt # Current(u)
      BY <1>2, <2>2 DEF StopInv, StopTookAll
    <3> QED
      <4>1. \A t \in Targets : paused'[t] # None => paused'[t].attempt # Current(u)
        BY <1>7, <3>1
      <4>2. CASE Current(u) \in Attempts
        BY <1>3, <1>8, <3>1, <4>1, <4>2
      <4>3. CASE Current(u) \notin Attempts
        BY <1>3, <1>8, <4>1, <4>3 DEF IsMarked
      <4> QED
        BY <4>2, <4>3
  <2> QED
    BY <2>1, <2>2
<1>10. RecordsAreTheirs'
  BY <1>7 DEF StopInv, RecordsAreTheirs
<1> QED
  BY <1>5, <1>8, <1>9, <1>10 DEF StopInv, MarksApart

(* One step keeps the account of a Stop. *)
LEMMA StopInvStep == TypeOK /\ StopInv /\ [Next]_vars => StopInv'
<1> SUFFICES ASSUME TypeOK, StopInv, [Next]_vars PROVE StopInv'
  OBVIOUS
<1>1. ASSUME NEW a \in Attempts,
             \/ Reserve(a) \/ Claim(a) \/ Verify(a) \/ Discarded(a) \/ Begin(a) \/ Submit(a)
             \/ FinishCancelled(a) \/ PublishedAnyway(a) \/ Settle(a) \/ Cleaned(a) \/ Answer(a)
             \/ Run(a) \/ PoolCancel(a) \/ Clean(a)
      PROVE  StopInv'
  BY <1>1, StepIsStopQuiet, StopQuietKeeps
<1>2. CASE Close \/ CloseRows \/ (\E u \in Uploads : Approve(u)) \/ UNCHANGED vars
  BY <1>2, OtherIsStopQuiet, StopQuietKeeps
<1>3. ASSUME NEW u \in Uploads, Upload(u) \/ Resume(u) \/ Retry(u)
      PROVE  StopInv'
  BY <1>3, NewKeepsStop
<1>4. ASSUME NEW u \in Uploads, AskPause(u)
      PROVE  StopInv'
  <2>1. /\ intent'[u] = "paused"
        /\ \A v \in Uploads : v # u => intent'[v] = intent[v] /\ calls'[v] = calls[v]
    BY <1>4 DEF AskPause, TypeOK
  <2>2. UNCHANGED <<tries, marks, paused>> /\ DOMAIN intent' = Uploads
    BY <1>4 DEF AskPause, registry, TypeOK
  <2> QED
    BY <2>1, <2>2
       DEF StopInv, StopIsLast, MarksApart, StopTookAll, RecordsAreTheirs, Current, IsMarked
<1>5. ASSUME NEW u \in Uploads, AskStop(u)
      PROVE  StopInv'
  BY <1>5, StopRowsKeepsStop DEF AskStop, registry
<1>6. CASE CloseTab
  BY <1>6, StopRowsKeepsStop DEF CloseTab, registry
<1>7. ASSUME NEW a \in Attempts, EndAttempt(a) \/ BeginPause(a) \/ BeginStop(a)
      PROVE  StopInv'
  BY <1>7, EndKeepsStop, PauseKeepsStop, StopKeepsStop
<1> QED
  BY <1>1, <1>2, <1>3, <1>4, <1>5, <1>6, <1>7 DEF Next, User, Unwind, Cancel

(* At first no row is stopped. *)
LEMMA InitStopInv == Init => StopInv
<1> SUFFICES ASSUME Init PROVE StopInv
  OBVIOUS
<1>1. marks = <<>> /\ \A t \in Targets : paused[t] = None
  BY DEF Init
<1> QED
  BY <1>1 DEF Init, StopInv, StopIsLast, MarksApart, StopTookAll, RecordsAreTheirs, IsMarked

(* Once the Stop of an attempt has begun and the attempt is over, nothing  *)
(* is kept for it, for any rows, destinations and number of attempts.      *)
THEOREM StopsLeaveNothing == Spec => []StopLeavesNoRecord
<1>1. Init => StopInv
  BY InitStopInv
<1>2. TypeOK /\ StopInv /\ [Next]_vars => StopInv'
  BY StopInvStep
<1>3. StopInv => StopLeavesNoRecord
  BY AttemptTypes DEF StopInv, StopTookAll, StopLeavesNoRecord
<1> QED
  BY <1>1, <1>2, <1>3, StagingTypes, PTL DEF Spec

(* Whether an attempt is marked after its mark was taken, or one was set    *)
(* where there is room.                                                    *)
LEMMA MarksAfter ==
  ASSUME TypeOK, MarksApart, NEW a \in Attempts, NEW b \in Attempts
  PROVE  /\ marks' = Unmark(a) => (IsMarked(b)' <=> IsMarked(b) /\ b # a)
         /\ Len(marks) < MarkCap /\ ~IsMarked(a) /\ marks' = Capped(Append(marks, a))
               => IsMarked(a)' /\ (IsMarked(b) => IsMarked(b)')
<1>1. marks \in Seq(Attempts)
  BY DEF TypeOK
<1>2. ASSUME marks' = Unmark(a) PROVE IsMarked(b)' <=> IsMarked(b) /\ b # a
  <2>1. (\E i \in DOMAIN marks' : marks'[i] = b) <=> IsMarked(b) /\ b # a
    BY <1>1, <1>2, UnmarkTakes
  <2> QED
    BY <2>1 DEF IsMarked
<1>3. ASSUME Len(marks) < MarkCap, ~IsMarked(a), marks' = Capped(Append(marks, a))
      PROVE  IsMarked(a)' /\ (IsMarked(b) => IsMarked(b)')
  <2>1. /\ \E i \in DOMAIN marks' : marks'[i] = a
        /\ IsMarked(b) => \E i \in DOMAIN marks' : marks'[i] = b
    BY <1>1, <1>3, MarkSets
  <2> QED
    BY <2>1 DEF IsMarked
<1> QED
  BY <1>2, <1>3

(* A step that asks, begins and marks nothing, and takes no attempt back. *)
PauseQuiet ==
    /\ UNCHANGED <<intent, calls, tries, marks>>
    /\ \A u \in Uploads : row'[u] = "active" => row[u] = "active"
    /\ session = "open" <=> session' = "open"
    /\ \A a \in Attempts :
        /\ pc[a] \in {"unused", "over"} => pc'[a] = pc[a]
        /\ pc'[a] = "cleaning" => pc[a] = "cleaning"
        /\ pc[a] = "returned" => pc'[a] \in {"returned", "over"}
        /\ Touched(a)' => Touched(a) \/ (session # "open" /\ pc[a] # "unused")

(* The steps of an attempt, a task or a cleanup are of that kind. *)
LEMMA StepIsPauseQuiet ==
  ASSUME TypeOK, TriesCount, NEW a \in Attempts,
         \/ Reserve(a) \/ Claim(a) \/ Verify(a) \/ Discarded(a) \/ Begin(a) \/ Submit(a)
         \/ FinishCancelled(a) \/ PublishedAnyway(a) \/ Settle(a) \/ Cleaned(a)
         \/ Answer(a) \/ Dispatch(a) \/ Write(a) \/ FinishWhole(a) \/ FinishFailed(a)
         \/ FinishUnknown(a) \/ PoolCancel(a) \/ CleanRemoves(a) \/ CleanGivesUp(a)
         \/ CleanFindsNoSession(a)
  PROVE  PauseQuiet
<1> USE DEF PauseQuiet, Touched, Submitted, TypeOK, rowVars, localVars, registry, poolVars,
            closeVars, server
<1>1. CASE Reserve(a)
  BY <1>1 DEF Reserve
<1>2. CASE Claim(a)
  BY <1>2 DEF Claim, Take
<1>3. CASE Verify(a)
  BY <1>3 DEF Verify
<1>4. CASE Discarded(a)
  BY <1>4 DEF Discarded, At
<1>5. CASE Begin(a)
  BY <1>5 DEF Begin, At
<1>6. CASE Submit(a)
  BY <1>6 DEF Submit
<1>7. CASE FinishCancelled(a)
  BY <1>7 DEF FinishCancelled, Finish
<1>8. CASE PublishedAnyway(a)
  BY <1>8 DEF PublishedAnyway, At
<1>9. CASE Settle(a)
  BY <1>9 DEF Settle
<1>10. CASE Cleaned(a)
  BY <1>10 DEF Cleaned, At
<1>11. CASE Answer(a)
  BY <1>11 DEF Answer, At
<1>12. CASE Dispatch(a)
  BY <1>12 DEF Dispatch, At
<1>13. CASE Write(a)
  BY <1>13 DEF Write, At
<1>14. CASE FinishWhole(a)
  BY <1>14 DEF FinishWhole, At, Finish
<1>15. CASE FinishFailed(a)
  BY <1>15 DEF FinishFailed, Finish
<1>16. CASE FinishUnknown(a)
  BY <1>16 DEF FinishUnknown, At, Finish
<1>17. CASE PoolCancel(a)
  <2>1. /\ told'[a] \subseteq told[a] /\ told[a] # {}
        /\ \A b \in Attempts : b # a => told'[b] = told[b]
    BY <1>17 DEF PoolCancel
  <2>2. CASE ~HasPool \/ Submitted(a)
    BY <1>17, <2>1, <2>2 DEF PoolCancel
  <2>3. CASE HasPool /\ pc[a] = "queued"
    BY <1>17, <2>1, <2>3 DEF PoolCancel
  <2>4. CASE HasPool /\ pc[a] \in {"running", "writing"}
    BY <1>17, <2>1, <2>4 DEF PoolCancel
  <2>5. CASE HasPool /\ ~Submitted(a) /\ pc[a] \notin {"queued", "running", "writing"}
    BY <1>17, <2>1, <2>5 DEF PoolCancel, RememberCancelled
  <2> QED
    BY <2>2, <2>3, <2>4, <2>5
<1>18. CASE CleanRemoves(a)
  BY <1>18 DEF CleanRemoves
<1>19. CASE CleanGivesUp(a)
  BY <1>19 DEF CleanGivesUp
<1>20. CASE CleanFindsNoSession(a)
  BY <1>20 DEF CleanFindsNoSession
<1> QED
  BY <1>1, <1>2, <1>3, <1>4, <1>5, <1>6, <1>7, <1>8, <1>9, <1>10,
     <1>11, <1>12, <1>13, <1>14, <1>15, <1>16, <1>17, <1>18, <1>19, <1>20

(* So are an answer of the user, and a disconnect once it has begun. *)
LEMMA OtherIsPauseQuiet ==
  ASSUME TypeOK, TriesCount,
         Close \/ CloseRows \/ (\E u \in Uploads : Approve(u)) \/ UNCHANGED vars
  PROVE  PauseQuiet
<1> USE DEF PauseQuiet, Touched, Submitted, TypeOK, rowVars, localVars, registry, poolVars,
            closeVars, server
<1>1. ASSUME NEW u \in Uploads, Approve(u) PROVE PauseQuiet
  <2>1. Current(u) \in Attempts
    BY <1>1, CurrentTypes DEF Approve
  <2> QED
    BY <1>1, <2>1 DEF Approve, At
<1>2. CASE RemoveSession
  BY <1>2 DEF RemoveSession
<1>3. CASE TakeSession \/ CloseSession \/ \E f \in Attempts : SweepOne(f)
  BY <1>3 DEF TakeSession, CloseSession, SweepOne
<1>4. CASE Sweep
  BY <1>4 DEF Sweep
<1>5. CASE CloseRows
  BY <1>5 DEF CloseRows
<1>6. CASE UNCHANGED vars
  BY <1>6 DEF vars
<1> QED
  BY <1>1, <1>2, <1>3, <1>4, <1>5, <1>6 DEF Close

(* They keep the account of a Pause. *)
LEMMA PauseQuietKeeps ==
  ASSUME TypeOK, TriesCount, PauseInv, PauseQuiet
  PROVE  PauseInv'
<1>1. CallsAreSent'
  BY DEF PauseQuiet, PauseInv, CallsAreSent, CommandsOf
<1>2. FreshIsUntouched'
  <2>1. \A a \in Attempts : a[2] > tries[a[1]] => pc[a] = "unused"
    BY AttemptTypes DEF TriesCount, TypeOK
  <2> HIDE DEF Touched
  <2> QED
    BY <2>1 DEF PauseQuiet, PauseInv, FreshIsUntouched
<1>3. ActiveIsUnasked'
  BY DEF PauseQuiet, PauseInv, ActiveIsUnasked
<1>4. ClosedIsStopped'
  BY DEF PauseQuiet, PauseInv, ClosedIsStopped, Dead
<1>5. CancelledIsMarked'
  BY DEF PauseQuiet, PauseInv, CancelledIsMarked, Dead, IsMarked
<1> QED
  BY <1>1, <1>2, <1>3, <1>4, <1>5 DEF PauseInv

(* A new attempt is untouched, and none of its row's commands is for it. *)
LEMMA NewKeepsPause ==
  ASSUME TypeOK, TriesCount, PauseInv, NEW u \in Uploads, Upload(u) \/ Resume(u) \/ Retry(u)
  PROVE  PauseInv'
<1>1. /\ tries[u] \in Nat /\ session = "open" /\ session' = "open"
      /\ tries' = [tries EXCEPT ![u] = @ + 1] /\ row' = [row EXCEPT ![u] = "active"]
      /\ intent' = [intent EXCEPT ![u] = "none"]
      /\ UNCHANGED <<calls, result, told, token, poolCancelled, marks>>
      /\ \E at \in {"called", "asked"} : pc' = [pc EXCEPT ![<<u, tries[u] + 1>>] = at]
  BY StagingAssumption
     DEF Upload, Resume, Retry, NewAttempt, Dead, TypeOK, registry, poolVars, closeVars
<1>2. \A a \in Attempts : a # <<u, tries[u] + 1>> => pc'[a] = pc[a]
  BY <1>1 DEF TypeOK
<1>3. ASSUME NEW a \in Attempts
      PROVE  a[1] \in Uploads /\ a[2] \in Nat /\ tries[a[1]] \in Nat /\ a = <<a[1], a[2]>>
  BY AttemptTypes, StagingAssumption DEF TypeOK
<1>4. \A v \in Uploads : v # u => tries'[v] = tries[v] /\ intent'[v] = intent[v] /\ row'[v] = row[v]
  BY <1>1 DEF TypeOK
<1>5. tries'[u] = tries[u] + 1 /\ intent'[u] = "none"
  BY <1>1 DEF TypeOK
<1>6. \A a \in Attempts : Touched(a)' => Touched(a) \/ a = <<u, tries[u] + 1>>
  BY <1>1, <1>2 DEF Touched, Submitted
<1>7. \A a \in Attempts : a = <<u, tries[u] + 1>> => ~Touched(a)'
  <2> SUFFICES ASSUME NEW a \in Attempts, a = <<u, tries[u] + 1>> PROVE ~Touched(a)'
    OBVIOUS
  <2>1. a[2] > tries[a[1]]
    BY <1>1
  <2>2. pc[a] = "unused"
    BY <2>1, <1>3 DEF TriesCount
  <2>3. ~Touched(a)
    BY <2>1 DEF PauseInv, FreshIsUntouched
  <2> QED
    BY <1>1, <2>2, <2>3 DEF Touched, Submitted
<1>8. CallsAreSent'
  <2> SUFFICES ASSUME NEW v \in Uploads, NEW i \in 1 .. Len(calls[v])
               PROVE  LET kind == calls[v][i][1]
                          a == calls[v][i][2]
                      IN  /\ a[1] = v /\ a[2] <= tries'[v]
                          /\ kind = "stop" /\ a[2] = tries'[v] => intent'[v] = "stopped"
                          /\ kind = "pause" /\ a[2] = tries'[v] => intent'[v] # "none"
    BY <1>1 DEF CallsAreSent, CommandsOf
  <2>1. calls[v] \in Seq({"pause", "stop"} \X Attempts)
    BY DEF TypeOK
  <2>2. calls[v][i][2] \in Attempts
    BY <2>1
  <2>3. calls[v][i][2][2] \in Nat
    BY <1>3, <2>2
  <2>4. /\ calls[v][i][2][1] = v /\ calls[v][i][2][2] <= tries[v]
        /\ calls[v][i][1] = "stop" /\ calls[v][i][2][2] = tries[v] => intent[v] = "stopped"
        /\ calls[v][i][1] = "pause" /\ calls[v][i][2][2] = tries[v] => intent[v] # "none"
    BY DEF PauseInv, CallsAreSent, CommandsOf
  <2>5. CASE v = u
    BY <1>1, <1>5, <2>3, <2>4, <2>5
  <2>6. CASE v # u
    BY <1>4, <2>4, <2>6
  <2> QED
    BY <2>5, <2>6
<1> HIDE DEF Touched
<1>9. FreshIsUntouched'
  <2> SUFFICES ASSUME NEW a \in Attempts, a[2] > tries'[a[1]] PROVE ~Touched(a)'
    BY DEF FreshIsUntouched
  <2>1. a[2] > tries[a[1]]
    BY <1>1, <1>3, <1>4, <1>5
  <2> QED
    BY <1>6, <1>7, <2>1 DEF PauseInv, FreshIsUntouched
<1>10. ActiveIsUnasked'
  BY <1>1, <1>4, <1>5 DEF PauseInv, ActiveIsUnasked
<1>11. ClosedIsStopped'
  BY <1>1 DEF ClosedIsStopped, Dead
<1>12. CancelledIsMarked'
  <2> SUFFICES ASSUME NEW a \in Attempts, a[2] = tries'[a[1]], Touched(a)', pc'[a] # "over"
               PROVE  \/ intent'[a[1]] = "stopped"
                      \/ /\ intent'[a[1]] = "paused"
                         /\ pc'[a] = "returned" \/ (IsMarked(a)' /\ pc'[a] # "cleaning")
    BY DEF CancelledIsMarked
  <2>1. Touched(a) /\ a # <<u, tries[u] + 1>>
    BY <1>6, <1>7
  <2>2. a[1] # u
    BY <1>3, <1>5, <2>1
  <2>3. a[2] = tries[a[1]] /\ intent'[a[1]] = intent[a[1]] /\ pc'[a] = pc[a] /\ ~Dead
    BY <1>1, <1>2, <1>3, <1>4, <2>1, <2>2 DEF Dead
  <2>4. IsMarked(a)' <=> IsMarked(a)
    BY <1>1 DEF IsMarked
  <2> QED
    BY <2>1, <2>3, <2>4 DEF PauseInv, CancelledIsMarked
<1> QED
  BY <1>8, <1>9, <1>10, <1>11, <1>12 DEF PauseInv

(* A command sent now is the last of its row, and for its current attempt. *)
LEMMA SentCommand ==
  ASSUME TypeOK, TriesCount, PauseInv, NEW u \in Uploads, NEW kind,
         calls'[u] = Append(calls[u], <<kind, Current(u)>>), UNCHANGED tries,
         kind = "stop" => intent'[u] = "stopped", kind = "pause" => intent'[u] # "none",
         intent[u] = "stopped" => intent'[u] = "stopped",
         intent[u] # "none" => intent'[u] # "none"
  PROVE  CommandsOf(u)'
<1> DEFINE s == calls[u]
           e == <<kind, Current(u)>>
<1>1. s \in Seq({"pause", "stop"} \X Attempts) /\ tries[u] \in Nat
  BY StagingAssumption DEF TypeOK
<1>2. e[1] = kind /\ e[2][1] = u /\ e[2][2] = tries[u]
  BY DEF Current
<1> HIDE DEF e
<1>3. /\ Len(s) \in Nat /\ Len(Append(s, e)) = Len(s) + 1
      /\ \A i \in 1 .. Len(s) : Append(s, e)[i] = s[i]
      /\ Append(s, e)[Len(s) + 1] = e
  BY <1>1
<1> SUFFICES ASSUME NEW i \in 1 .. Len(calls'[u])
             PROVE  LET k == calls'[u][i][1]
                        a == calls'[u][i][2]
                    IN  /\ a[1] = u /\ a[2] <= tries'[u]
                        /\ k = "stop" /\ a[2] = tries'[u] => intent'[u] = "stopped"
                        /\ k = "pause" /\ a[2] = tries'[u] => intent'[u] # "none"
  BY DEF CommandsOf
<1>4. calls'[u] = Append(s, e)
  BY DEF e
<1>5. CASE i \in 1 .. Len(s)
  <2>1. calls'[u][i] = s[i]
    BY <1>3, <1>4, <1>5
  <2>2. /\ s[i][2][1] = u /\ s[i][2][2] <= tries[u]
        /\ s[i][1] = "stop" /\ s[i][2][2] = tries[u] => intent[u] = "stopped"
        /\ s[i][1] = "pause" /\ s[i][2][2] = tries[u] => intent[u] # "none"
    BY <1>5 DEF PauseInv, CallsAreSent, CommandsOf
  <2> QED
    BY <2>1, <2>2
<1>6. CASE i = Len(s) + 1
  <2>1. calls'[u][i] = e
    BY <1>3, <1>4, <1>6
  <2> QED
    BY <1>1, <1>2, <2>1
<1> QED
  BY <1>3, <1>4, <1>5, <1>6

(* A Pause is asked of an active row: its attempt was not touched before.  *)
LEMMA AskPauseKeepsPause ==
  ASSUME TypeOK, TriesCount, PauseInv, NEW u \in Uploads, AskPause(u)
  PROVE  PauseInv'
<1>1. /\ row[u] = "active" /\ intent[u] = "none" /\ ~Dead
      /\ row' = [row EXCEPT ![u] = "cancelling"] /\ intent' = [intent EXCEPT ![u] = "paused"]
      /\ calls' = [calls EXCEPT ![u] = Append(@, <<"pause", Current(u)>>)]
      /\ UNCHANGED <<tries, pc, result, told, marks, token, poolCancelled, session>>
  BY DEF AskPause, PauseInv, ActiveIsUnasked, ClosedIsStopped, localVars, registry, poolVars,
         closeVars
<1>2. /\ intent'[u] = "paused" /\ row'[u] = "cancelling"
      /\ \A v \in Uploads : v # u => intent'[v] = intent[v] /\ row'[v] = row[v]
      /\ \A v \in Uploads : v # u => calls'[v] = calls[v]
  BY <1>1 DEF TypeOK
<1>3. CallsAreSent'
  <2>1. /\ calls'[u] = Append(calls[u], <<"pause", Current(u)>>)
        /\ intent[u] # "stopped" /\ UNCHANGED tries
    BY <1>1 DEF TypeOK
  <2>2. CommandsOf(u)'
    BY <1>2, <2>1, SentCommand
  <2>3. ASSUME NEW v \in Uploads, v # u
        PROVE  CommandsOf(v)'
    BY <1>1, <1>2, <2>3 DEF PauseInv, CallsAreSent, CommandsOf
  <2> QED
    BY <2>2, <2>3 DEF CallsAreSent
<1>4. \A a \in Attempts : Touched(a)' <=> Touched(a)
  BY <1>1 DEF Touched, Submitted
<1>5. FreshIsUntouched' /\ ActiveIsUnasked' /\ ClosedIsStopped'
  BY <1>1, <1>2, <1>4 DEF PauseInv, FreshIsUntouched, ActiveIsUnasked, ClosedIsStopped, Dead
<1>6. CancelledIsMarked'
  <2> SUFFICES ASSUME NEW a \in Attempts, a[2] = tries[a[1]], Touched(a), pc[a] # "over"
               PROVE  \/ intent'[a[1]] = "stopped"
                      \/ /\ intent'[a[1]] = "paused"
                         /\ pc[a] = "returned" \/ (IsMarked(a) /\ pc[a] # "cleaning")
    BY <1>1, <1>4 DEF CancelledIsMarked, IsMarked
  <2>1. a[1] \in Uploads
    BY AttemptTypes
  <2>2. \/ intent[a[1]] = "stopped"
        \/ /\ intent[a[1]] = "paused"
           /\ pc[a] = "returned" \/ (IsMarked(a) /\ pc[a] # "cleaning")
    BY <1>1 DEF PauseInv, CancelledIsMarked
  <2>3. a[1] # u
    BY <1>1, <2>2
  <2> QED
    BY <1>2, <2>1, <2>2, <2>3
<1> QED
  BY <1>3, <1>5, <1>6 DEF PauseInv

(* A Stop of some rows, all those in flight when the tab is closed. *)
LEMMA StopRowsKeepsPause ==
  ASSUME TypeOK, TriesCount, Latest, PauseInv, NEW S \in SUBSET Uploads, StopRows(S),
         UNCHANGED <<tries, pc, result, told, marks, token, poolCancelled>>,
         session' = session \/ (Dead' /\ S = {u \in Uploads : MayStop(u)})
  PROVE  PauseInv'
<1>1. /\ \A u \in S : intent'[u] = "stopped" /\ row'[u] # "active"
      /\ \A u \in S : calls'[u] = Append(calls[u], <<"stop", Current(u)>>)
      /\ \A u \in Uploads \ S : intent'[u] = intent[u] /\ row'[u] = row[u] /\ calls'[u] = calls[u]
      /\ Dead => Dead'
  BY DEF StopRows, Dead
<1>2. CallsAreSent'
  <2> SUFFICES ASSUME NEW v \in Uploads
               PROVE  CommandsOf(v)'
    BY DEF CallsAreSent
  <2>1. CASE v \in S
    BY <1>1, <2>1, SentCommand
  <2>2. CASE v \notin S
    BY <1>1, <2>2 DEF PauseInv, CallsAreSent, CommandsOf
  <2> QED
    BY <2>1, <2>2
<1>3. \A a \in Attempts : Touched(a)' <=> Touched(a)
  BY DEF Touched, Submitted
<1>4. FreshIsUntouched' /\ ActiveIsUnasked'
  BY <1>1, <1>3 DEF PauseInv, FreshIsUntouched, ActiveIsUnasked
<1>5. ClosedIsStopped'
  <2>1. CASE session' = session
    BY <1>1, <2>1, AttemptTypes DEF PauseInv, ClosedIsStopped, Dead
  <2>2. CASE S = {u \in Uploads : MayStop(u)}
    <3>1. ASSUME NEW u \in Uploads PROVE row'[u] # "active"
      BY <1>1, <2>2 DEF MayStop, PauseInv, ActiveIsUnasked
    <3>2. ASSUME NEW a \in Attempts, a[2] = tries[a[1]], intent'[a[1]] = "paused"
          PROVE  pc[a] \in {"unused", "over"} \/ Dead
      <4>1. a[1] \in Uploads \ S /\ intent[a[1]] = "paused"
        BY <1>1, <3>2, AttemptTypes
      <4>2. row[a[1]] \notin {"active", "cancelling", "paused"}
        BY <2>2, <4>1 DEF MayStop
      <4> QED
        BY <4>2 DEF Latest
    <3>3. CASE Dead
      BY <1>1, <3>1, <3>3, AttemptTypes DEF PauseInv, ClosedIsStopped
    <3> QED
      BY <3>1, <3>2, <3>3 DEF ClosedIsStopped
  <2> QED
    BY <2>1, <2>2
<1>6. CancelledIsMarked'
  BY <1>1, <1>3, AttemptTypes DEF PauseInv, CancelledIsMarked, IsMarked
<1> QED
  BY <1>2, <1>4, <1>5, <1>6 DEF PauseInv

(* An attempt that ends under a Pause finds its mark. *)
LEMMA EndKeepsPause ==
  ASSUME TypeOK, TriesCount, Latest, MarksApart, PauseInv, NEW a \in Attempts, EndAttempt(a)
  PROVE  PauseInv'
<1>1. /\ pc[a] \in {"live", "notlive"} /\ marks' = Unmark(a)
      /\ pc' = [pc EXCEPT ![a] = pc'[a]] /\ pc'[a] \in {"cleaning", "returned"}
      /\ pc'[a] = "cleaning" => ~IsMarked(a)
      /\ UNCHANGED <<row, intent, calls, tries, result, told, token, poolCancelled, session>>
  BY DEF EndAttempt, rowVars, localVars, poolVars, closeVars, TypeOK
<1>2. \A b \in Attempts : b # a => pc'[b] = pc[b]
  BY <1>1 DEF TypeOK
<1>3. \A b \in Attempts : Touched(b)' <=> Touched(b)
  BY <1>1, <1>2 DEF Touched, Submitted
<1>4. CallsAreSent' /\ FreshIsUntouched' /\ ActiveIsUnasked'
  BY <1>1, <1>3 DEF PauseInv, CallsAreSent, CommandsOf, FreshIsUntouched, ActiveIsUnasked
<1>5. ClosedIsStopped'
  BY <1>1, <1>2 DEF PauseInv, ClosedIsStopped, Dead
<1>6. \A b \in Attempts : IsMarked(b) /\ b # a => IsMarked(b)'
  BY <1>1, MarksAfter
<1>7. CancelledIsMarked'
  <2> SUFFICES ASSUME NEW b \in Attempts, b[2] = tries[b[1]], Touched(b), pc'[b] # "over"
               PROVE  \/ intent[b[1]] = "stopped" \/ Dead
                      \/ /\ intent[b[1]] = "paused"
                         /\ pc'[b] = "returned" \/ (IsMarked(b)' /\ pc'[b] # "cleaning")
    BY <1>1, <1>3 DEF CancelledIsMarked, Dead
  <2>1. CASE b = a
    BY <1>1, <2>1 DEF PauseInv, CancelledIsMarked
  <2>2. CASE b # a
    BY <1>2, <1>6, <2>2 DEF PauseInv, CancelledIsMarked
  <2> QED
    BY <2>1, <2>2
<1> QED
  BY <1>4, <1>5, <1>7 DEF PauseInv

(* A command that begins: it marks the attempt, or its row is stopped. *)
LEMMA BeginKeepsPause ==
  ASSUME TypeOK, TriesCount, MarksApart, MarksHaveRoom, PauseInv, NEW a \in Attempts,
         BeginPause(a) \/ BeginStop(a)
  PROVE  PauseInv'
<1> DEFINE r == a[1]
<1>1. PICK kind \in {"pause", "stop"} :
         /\ NextCall(a, kind)
         /\ kind = "stop" => marks' = Unmark(a)
         /\ kind = "pause" => marks' = IF IsMarked(a) THEN marks ELSE Capped(Append(marks, a))
         /\ told' = [told EXCEPT ![a] = @ \cup {kind}]
         /\ UNCHANGED <<row, intent, tries, pc, result, token, poolCancelled, session>>
  BY DEF BeginPause, BeginStop, TakeMark, localVars, poolVars, closeVars
<1>2. /\ r \in Uploads /\ calls[r][1] = <<kind, a>> /\ 1 \in 1 .. Len(calls[r])
      /\ \A u \in Uploads : u # r => calls'[u] = calls[u]
      /\ Len(calls'[r]) = Len(calls[r]) - 1
      /\ \A i \in 1 .. Len(calls[r]) - 1 : calls'[r][i] = calls[r][i + 1]
      /\ Len(calls[r]) \in Nat
  <2>1. /\ r \in Uploads /\ calls[r][1] = <<kind, a>> /\ Len(calls[r]) >= 1 /\ Len(calls[r]) \in Nat
        /\ \A u \in Uploads : u # r => calls'[u] = calls[u]
        /\ Len(calls'[r]) = Len(calls[r]) - 1
        /\ \A i \in 1 .. Len(calls[r]) - 1 : calls'[r][i] = calls[r][i + 1]
    BY <1>1, NextCallLeaves
  <2> QED
    BY <2>1
<1>3. /\ a[2] <= tries[r]
      /\ kind = "stop" /\ a[2] = tries[r] => intent[r] = "stopped"
      /\ kind = "pause" /\ a[2] = tries[r] => intent[r] # "none"
  BY <1>2 DEF PauseInv, CallsAreSent, CommandsOf
<1>4. \A b \in Attempts : b # a => (Touched(b)' <=> Touched(b))
  BY <1>1 DEF Touched, Submitted, TypeOK
<1>5. CallsAreSent'
  <2>1. \A i \in 1 .. Len(calls'[r]) :
           i + 1 \in 1 .. Len(calls[r]) /\ calls'[r][i] = calls[r][i + 1]
    BY <1>2
  <2>2. \A u \in Uploads : u # r => calls'[u] = calls[u]
    BY <1>2
  <2>3. CommandsOf(r)'
    <3>1. CommandsOf(r)
      BY <1>2 DEF PauseInv, CallsAreSent
    <3> QED
      BY <1>1, <2>1, <3>1 DEF CommandsOf
  <2>4. \A u \in Uploads : u # r => CommandsOf(u)'
    BY <1>1, <2>2 DEF PauseInv, CallsAreSent, CommandsOf
  <2> QED
    BY <2>3, <2>4 DEF CallsAreSent
<1>6. FreshIsUntouched'
  <2>1. ~(a[2] > tries[r])
    BY <1>3, AttemptTypes, StagingAssumption DEF TypeOK
  <2> QED
    BY <1>1, <1>4, <2>1 DEF PauseInv, FreshIsUntouched
<1>7. ActiveIsUnasked' /\ ClosedIsStopped'
  BY <1>1 DEF PauseInv, ActiveIsUnasked, ClosedIsStopped, Dead
<1>8. /\ \A b \in Attempts : IsMarked(b) /\ b # a => IsMarked(b)'
      /\ kind = "pause" => IsMarked(a)'
  <2>1. CASE kind = "stop"
    BY <1>1, <2>1, MarksAfter
  <2>2. CASE kind = "pause" /\ ~IsMarked(a)
    <3>1. Len(marks) < MarkCap
      BY <1>1, <2>2 DEF MarksHaveRoom, NextCall
    <3> QED
      BY <1>1, <2>2, <3>1, MarksAfter
  <2>3. CASE kind = "pause" /\ IsMarked(a)
    BY <1>1, <2>3 DEF IsMarked
  <2> QED
    BY <1>1, <2>1, <2>2, <2>3
<1>9. CancelledIsMarked'
  <2> SUFFICES ASSUME NEW b \in Attempts, b[2] = tries[b[1]], Touched(b)', pc[b] # "over"
               PROVE  \/ intent[b[1]] = "stopped" \/ Dead
                      \/ /\ intent[b[1]] = "paused"
                         /\ pc[b] = "returned" \/ (IsMarked(b)' /\ pc[b] # "cleaning")
    BY <1>1 DEF CancelledIsMarked, Dead
  <2>1. CASE b # a
    BY <1>4, <1>8, <2>1 DEF PauseInv, CancelledIsMarked
  <2>2. CASE b = a /\ kind = "stop"
    BY <1>3, <2>2
  <2>3. CASE b = a /\ kind = "pause"
    <3>1. intent[r] \in {"paused", "stopped"}
      BY <1>2, <1>3, <2>3 DEF TypeOK
    <3>2. CASE Submitted(a)
      <4>1. Touched(a)
        BY <1>1, <2>3, <3>2 DEF Touched, Submitted
      <4> QED
        BY <1>8, <2>3, <4>1 DEF PauseInv, CancelledIsMarked
    <3>3. CASE ~Submitted(a)
      BY <1>8, <2>3, <3>1, <3>3 DEF Submitted
    <3> QED
      BY <3>2, <3>3
  <2> QED
    BY <1>1, <2>1, <2>2, <2>3
<1> QED
  BY <1>5, <1>6, <1>7, <1>9 DEF PauseInv

(* One step keeps the account of a Pause. *)
LEMMA PauseInvStep ==
  TypeOK /\ TriesCount /\ Latest /\ MarksApart /\ MarksHaveRoom /\ PauseInv /\ [Next]_vars
    => PauseInv'
<1> SUFFICES ASSUME TypeOK, TriesCount, Latest, MarksApart, MarksHaveRoom, PauseInv, [Next]_vars
             PROVE  PauseInv'
  OBVIOUS
<1>1. ASSUME NEW a \in Attempts,
             \/ Unwind(a) /\ ~EndAttempt(a)
             \/ Run(a) \/ PoolCancel(a) \/ Clean(a)
      PROVE  PauseInv'
  BY <1>1, StepIsPauseQuiet, PauseQuietKeeps DEF Unwind, Run, Clean
<1>2. CASE Close \/ CloseRows \/ (\E u \in Uploads : Approve(u)) \/ UNCHANGED vars
  BY <1>2, OtherIsPauseQuiet, PauseQuietKeeps
<1>3. ASSUME NEW u \in Uploads, Upload(u) \/ Resume(u) \/ Retry(u)
      PROVE  PauseInv'
  BY <1>3, NewKeepsPause
<1>4. ASSUME NEW u \in Uploads, AskPause(u)
      PROVE  PauseInv'
  BY <1>4, AskPauseKeepsPause
<1>5. ASSUME NEW u \in Uploads, AskStop(u)
      PROVE  PauseInv'
  BY <1>5, StopRowsKeepsPause DEF AskStop, localVars, registry, poolVars, closeVars
<1>6. CASE CloseTab
  BY <1>6, StopRowsKeepsPause DEF CloseTab, localVars, registry, poolVars, Dead
<1>7. ASSUME NEW a \in Attempts, EndAttempt(a)
      PROVE  PauseInv'
  BY <1>7, EndKeepsPause
<1>8. ASSUME NEW a \in Attempts, BeginPause(a) \/ BeginStop(a)
      PROVE  PauseInv'
  BY <1>8, BeginKeepsPause
<1> QED
  BY <1>1, <1>2, <1>3, <1>4, <1>5, <1>6, <1>7, <1>8 DEF Next, User, Cancel

(* While the list of marks has room, an upload that a Pause ended, with no *)
(* Stop after it, is never cleaned up: end_attempt finds the mark.         *)
THEOREM PausesAreKept == Spec /\ []MarksHaveRoom => []PauseIsKept
<1>1. Init => PauseInv /\ StopInv /\ Latest
  <2> SUFFICES ASSUME Init PROVE PauseInv /\ StopInv /\ Latest
    OBVIOUS
  <2>1. StopInv
    BY InitStopInv
  <2>2. /\ \A u \in Uploads : calls[u] = <<>> /\ row[u] = "none" /\ intent[u] = "none"
        /\ ~Dead /\ \A a \in Attempts : pc[a] = "unused" /\ ~Touched(a)
    BY DEF Init, Dead, Touched
  <2> QED
    BY <2>1, <2>2
       DEF PauseInv, CallsAreSent, CommandsOf, FreshIsUntouched, ActiveIsUnasked, ClosedIsStopped,
                      CancelledIsMarked, Latest
<1>2. IInv /\ Latest /\ [Next]_vars => Latest'
  <2>1. IInv /\ Latest /\ Next => Latest'
    BY LatestStep DEF IInv
  <2>2. IInv /\ Latest /\ UNCHANGED vars => Latest'
    BY DEF vars, rowVars, Latest, Dead, closeVars
  <2> QED
    BY <2>1, <2>2
<1>3. IInv /\ StopInv /\ [Next]_vars => StopInv'
  BY StopInvStep DEF IInv
<1>4. IInv /\ Latest /\ StopInv /\ MarksHaveRoom /\ PauseInv /\ [Next]_vars => PauseInv'
  BY PauseInvStep DEF IInv, StopInv
<1>5. PauseInv => PauseIsKept
  <2> SUFFICES ASSUME PauseInv, NEW u \in Uploads, NEW a \in Attempts,
                      a = Current(u), result[a] = "cancelled", intent[u] = "paused"
               PROVE  pc[a] # "cleaning"
    BY DEF PauseIsKept
  <2>1. a[1] = u /\ a[2] = tries[u] /\ Touched(a)
    BY DEF Current, Touched
  <2> QED
    BY <2>1 DEF PauseInv, CancelledIsMarked, ClosedIsStopped
<1> QED
  BY <1>1, <1>2, <1>3, <1>4, <1>5, StagingIInv, PTL DEF Spec

(* Marks of no more attempts than the cap leave room for the next one. *)
LEMMA RoomForPauseMarks ==
  ASSUME IsFiniteSet(Attempts), Cardinality(Attempts) <= MarkCap, TypeOK, MarksApart
  PROVE  MarksHaveRoom
<1> SUFFICES ASSUME NEW a \in Attempts, ~IsMarked(a)
             PROVE  Len(marks) < MarkCap
  BY DEF MarksHaveRoom
<1> DEFINE others == Attempts \ {a}
<1>1. /\ DOMAIN marks = 1 .. Len(marks) /\ Len(marks) \in Nat
      /\ \A i \in 1 .. Len(marks) : marks[i] \in others
  BY DEF TypeOK, IsMarked
<1>2. /\ IsFiniteSet(others) /\ Cardinality(others) = Cardinality(Attempts) - 1
      /\ Cardinality(Attempts) \in Nat
  BY FS_RemoveElement, FS_CardinalityType
<1>3. marks \in Injection(1 .. Len(marks), others)
  <2>1. marks = [i \in 1 .. Len(marks) |-> marks[i]]
    BY <1>1 DEF TypeOK
  <2>2. marks \in [1 .. Len(marks) -> others]
    BY <1>1, <2>1
  <2> QED
    BY <1>1, <2>2 DEF Injection, IsInjective, MarksApart
<1>4. Cardinality(1 .. Len(marks)) <= Cardinality(others)
  <2> HIDE DEF others
  <2> QED
    BY <1>2, <1>3, FS_Injection
<1>5. Cardinality(1 .. Len(marks)) = Len(marks)
  <2>1. 1 \in Int /\ Len(marks) \in Int
    BY <1>1
  <2>2. Cardinality(1 .. Len(marks)) = IF 1 > Len(marks) THEN 0 ELSE Len(marks) - 1 + 1
    BY <2>1, FS_Interval, Zenon
  <2> QED
    BY <1>1, <2>2
<1>6. MarkCap \in Nat
  BY StagingAssumption
<1> QED
  BY <1>1, <1>2, <1>4, <1>5, <1>6

(* Of no more attempts than MARK_CAP, in any run, no upload that a Pause   *)
(* ended is cleaned up (upload_staging.rs, mark and end_attempt).          *)
THEOREM PausesWithinTheCapAreKept ==
  ASSUME Cardinality(Attempts) <= MarkCap
  PROVE  Spec => []PauseIsKept
<1>1. IsFiniteSet(Attempts)
  <2>1. IsFiniteSet(Uploads) /\ 1 \in Int /\ MaxTries \in Int
    BY StagingAssumption
  <2>2. IsFiniteSet(1 .. MaxTries)
    BY <2>1, FS_Interval, Zenon
  <2>3. IsFiniteSet(Uploads \X (1 .. MaxTries))
    BY <2>1, <2>2, FS_Product, Zenon
  <2> QED
    BY <2>3 DEF Attempts
<1>2. TypeOK /\ MarksApart => MarksHaveRoom
  BY <1>1, RoomForPauseMarks
<1>3. IInv /\ StopInv /\ [Next]_vars => StopInv'
  BY StopInvStep DEF IInv
<1>4. IInv /\ StopInv => MarksHaveRoom
  BY <1>2 DEF IInv, StopInv
<1> QED
  BY <1>3, <1>4, InitStopInv, PausesAreKept, StagingIInv, PTL DEF Spec
=============================================================================
