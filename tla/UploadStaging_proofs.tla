------------------------ MODULE UploadStaging_proofs ------------------------
(***************************************************************************)
(* Theorems about UploadStaging, for any rows, destinations, attempts and  *)
(* any cap on the marks.                                                   *)
(***************************************************************************)
EXTENDS UploadStaging, SequenceTheorems, TLAPS

(* An attempt that is over uses its staging file no more. *)
Done == {"returned", "over"}

(* A row that was ever started has an attempt, and attempts are numbered in *)
(* order: the next number is unused.                                        *)
TriesCount ==
    /\ \A u \in Uploads : row[u] # "none" => tries[u] # 0
    /\ \A a \in Attempts : pc[a] # "unused" => a[2] <= tries[a[1]]

(* An adopted file was made for the same destination by an attempt that is *)
(* over; only an adopted file is verified or discarded.                    *)
Names ==
    \A a \in Attempts :
        /\ Target(partial[a]) = Target(a)
        /\ partial[a] # a => pc[partial[a]] \in Done
        /\ pc[a] \in {"verifying", "discarding"} => partial[a] # a

(* Of the attempts that have one file, all but one are over. *)
OneUser ==
    \A a, b \in Attempts :
        a # b /\ partial[a] = partial[b] => pc[a] \in Done \/ pc[b] \in Done

(* What is kept for a destination is nobody's. *)
Records ==
    \A t \in Targets : paused[t] # None =>
        /\ Target(paused[t].file) = t
        /\ pc[paused[t].file] \in Done
        /\ cleanup[paused[t].file] # "running"
        /\ \A a \in Attempts : partial[a] = paused[t].file => pc[a] \in Done

(* What is being cleaned up is used by nobody but who waits for that. *)
Cleanups ==
    \A f \in Attempts : cleanup[f] = "running" =>
        /\ pc[f] \in Done \cup {"cleaning"}
        /\ \A a \in Attempts :
            partial[a] = f => pc[a] \in Done \cup {"discarding", "cleaning"}

(* A sweep begins after the last transfer: none is queued without a pool.  *)
Sweeping ==
    /\ sweep # {} => session = "sweeping"
    /\ ~HasPool => \A a \in Attempts : pc[a] # "queued"
    /\ session = "sweeping" => \A a \in Attempts : pc[a] \notin {"running", "writing"}

Own == Names /\ OneUser /\ Records /\ Cleanups

IInv == TypeOK /\ TriesCount /\ Own /\ Sweeping
-----------------------------------------------------------------------------
(* What is left of a sequence when one element is removed. *)
LEMMA RemoveAtIs ==
    ASSUME NEW S, NEW s \in Seq(S), NEW i \in 1 .. Len(s)
    PROVE  /\ RemoveAt(s, i) \in Seq(S)
           /\ Len(RemoveAt(s, i)) = Len(s) - 1
           /\ \A j \in 1 .. (Len(s) - 1) :
                RemoveAt(s, i)[j] = IF j < i THEN s[j] ELSE s[j + 1]
<1> DEFINE a == SubSeq(s, 1, i - 1)
           b == SubSeq(s, i + 1, Len(s))
<1>1. a \in Seq(S) /\ Len(a) = i - 1 /\ \A j \in 1 .. (i - 1) : a[j] = s[j]
  OBVIOUS
<1>2. b \in Seq(S) /\ Len(b) = Len(s) - i /\ \A j \in 1 .. (Len(s) - i) : b[j] = s[i + j]
  OBVIOUS
<1>3. RemoveAt(s, i) = a \o b
  BY DEF RemoveAt
<1> HIDE DEF a, b
<1>4. a \o b \in Seq(S) /\ Len(a \o b) = Len(s) - 1
  <2>1. a \in Seq(S) /\ Len(a) = i - 1 /\ b \in Seq(S) /\ Len(b) = Len(s) - i
    BY <1>1, <1>2
  <2>2. a \o b \in Seq(S) /\ Len(a \o b) = Len(a) + Len(b)
    BY <2>1
  <2>3. QED
    BY <2>1, <2>2
<1>5. ASSUME NEW j \in 1 .. (Len(s) - 1)
      PROVE  (a \o b)[j] = IF j < i THEN s[j] ELSE s[j + 1]
  <2>1. CASE j < i
    BY <1>1, <1>2, <2>1
  <2>2. CASE ~(j < i)
    <3>1. (a \o b)[j] = b[j - Len(a)] /\ j - Len(a) = j - i + 1
      BY <1>1, <1>2, <2>2
    <3>2. b[j - i + 1] = s[i + (j - i + 1)]
      BY <1>2, <2>2
    <3>3. QED
      BY <1>1, <2>2, <3>1, <3>2
  <2>3. QED
    BY <2>1, <2>2
<1>6. QED
  BY <1>3, <1>4, <1>5

(* Unmark and Capped keep the list of marks within its bound. *)
LEMMA UnmarkTypes ==
    ASSUME marks \in Seq(Attempts), Len(marks) <= MarkCap, NEW a \in Attempts
    PROVE  Unmark(a) \in Seq(Attempts) /\ Len(Unmark(a)) <= MarkCap
<1>1. CASE ~IsMarked(a)
  BY <1>1 DEF Unmark
<1>2. CASE IsMarked(a)
  <2> DEFINE i == CHOOSE i \in DOMAIN marks : marks[i] = a
  <2>1. i \in 1 .. Len(marks)
    BY <1>2 DEF IsMarked
  <2>2. Unmark(a) = RemoveAt(marks, i)
    BY <1>2 DEF Unmark
  <2> HIDE DEF i
  <2>3. RemoveAt(marks, i) \in Seq(Attempts) /\ Len(RemoveAt(marks, i)) <= Len(marks)
    BY <2>1, RemoveAtIs
  <2>4. Len(RemoveAt(marks, i)) \in Nat /\ Len(marks) \in Nat /\ MarkCap \in Nat
    BY <2>3, StagingAssumption
  <2>5. QED
    BY <2>2, <2>3, <2>4
<1>3. QED
  BY <1>1, <1>2

(* A new mark keeps the list within its bound. *)
LEMMA MarkTypes ==
    ASSUME marks \in Seq(Attempts), Len(marks) <= MarkCap, NEW a \in Attempts
    PROVE  /\ Capped(Append(marks, a)) \in Seq(Attempts)
           /\ Len(Capped(Append(marks, a))) <= MarkCap
<1> DEFINE s == Append(marks, a)
<1>1. s \in Seq(Attempts) /\ Len(s) = Len(marks) + 1 /\ s # <<>>
  OBVIOUS
<1>2. MarkCap \in Nat /\ Len(marks) \in Nat
  BY StagingAssumption
<1> HIDE DEF s
<1>3. Tail(s) \in Seq(Attempts) /\ Len(Tail(s)) = Len(s) - 1
  BY <1>1
<1>4. Capped(s) \in Seq(Attempts) /\ Len(Capped(s)) <= MarkCap
  BY <1>1, <1>2, <1>3 DEF Capped
<1>5. QED
  BY <1>4 DEF s

(* An attempt has a row and a destination; no attempt is None. *)
LEMMA AttemptTypes ==
    ASSUME NEW a \in Attempts
    PROVE  a[1] \in Uploads /\ Target(a) \in Targets /\ a = <<a[1], a[2]>> /\ a # None
           /\ a[2] \in 1 .. MaxTries
<1>1. /\ a[1] \in Uploads /\ a[2] \in 1 .. MaxTries /\ a = <<a[1], a[2]>>
  BY DEF Attempts
<1>2. Target(a) \in Targets
  BY <1>1, StagingAssumption DEF Target
<1>3. a # None
  BY <1>1 DEF None
<1>4. QED
  BY <1>1, <1>2, <1>3

(* A row that was started has a current attempt. *)
LEMMA CurrentTypes ==
    ASSUME TypeOK, TriesCount, NEW u \in Uploads, row[u] # "none" \/ tries[u] > 0
    PROVE  Current(u) \in Attempts
<1>1. tries[u] \in 0 .. MaxTries /\ tries[u] # 0
  BY DEF TypeOK, TriesCount
<1>2. tries[u] \in 1 .. MaxTries
  BY <1>1, StagingAssumption
<1>3. QED
  BY <1>2 DEF Current, Attempts

(* A row's next attempt. *)
LEMMA NewAttemptTypes ==
    ASSUME TypeOK, NEW u \in Uploads, NEW at \in Places, NEW wants \in BOOLEAN,
           NewAttempt(u, at, wants)
    PROVE  TypeOK'
<1>1. tries[u] \in 0 .. MaxTries /\ tries[u] + 1 \in 1 .. MaxTries
  BY StagingAssumption DEF TypeOK, NewAttempt
<1>2. <<u, tries[u] + 1>> \in Attempts
  BY <1>1 DEF Attempts
<1>3. tries' \in [Uploads -> 0 .. MaxTries]
  BY <1>1 DEF TypeOK, NewAttempt
<1>4. pc' \in [Attempts -> Places] /\ resume' \in [Attempts -> BOOLEAN]
  BY <1>2 DEF TypeOK, NewAttempt
<1>5. /\ row' \in [Uploads -> {"none", "active", "cancelling", "paused", "stopped", "error", "done"}]
      /\ intent' \in [Uploads -> {"none", "paused", "stopped"}]
  BY DEF TypeOK, NewAttempt
<1>6. QED
  BY <1>3, <1>4, <1>5 DEF TypeOK, NewAttempt, registry, poolVars, closeVars, server

(* A dropped reservation leaves reservations. *)
LEMMA DropLeaseTypes ==
    ASSUME TypeOK, NEW a \in Attempts, lease' = lease \/ DropLease(a)
    PROVE  lease' \in [Targets -> Attempts \cup {None}]
<1>1. lease \in [Targets -> Attempts \cup {None}] /\ Target(a) \in Targets
  BY AttemptTypes DEF TypeOK
<1>2. CASE lease' = lease
  BY <1>1, <1>2
<1>3. CASE DropLease(a)
  <2>1. (IF lease[Target(a)] = a THEN None ELSE lease[Target(a)]) \in Attempts \cup {None}
    BY <1>1
  <2>2. QED
    BY <1>1, <1>3, <2>1 DEF DropLease
<1>4. QED
  BY <1>2, <1>3

(* Every action keeps the types. *)
LEMMA TypeStep == TypeOK /\ TriesCount /\ Next => TypeOK'
<1> SUFFICES ASSUME TypeOK, TriesCount, Next PROVE TypeOK'
  OBVIOUS
<1> USE DEF TypeOK, rowVars, localVars, registry, poolVars, closeVars, server
<1>Upload. ASSUME NEW u \in Uploads, Upload(u) PROVE TypeOK'
  BY <1>Upload, "called" \in Places, NewAttemptTypes DEF Upload, Places
<1>Resume. ASSUME NEW u \in Uploads, Resume(u) PROVE TypeOK'
  BY <1>Resume, "called" \in Places, NewAttemptTypes DEF Resume, Places
<1>Retry. ASSUME NEW u \in Uploads, Retry(u) PROVE TypeOK'
  BY <1>Retry, "asked" \in Places, NewAttemptTypes DEF Retry, Places
<1>Approve. ASSUME NEW u \in Uploads, Approve(u) PROVE TypeOK'
  BY <1>Approve, CurrentTypes DEF Approve, At, Places, RECORD
<1>AskPause. ASSUME NEW u \in Uploads, AskPause(u) PROVE TypeOK'
  BY <1>AskPause, CurrentTypes DEF AskPause, Places, RECORD
<1>AskStop. ASSUME NEW u \in Uploads, AskStop(u) PROVE TypeOK'
  BY <1>AskStop, CurrentTypes DEF AskStop, MayStop, StopRows, Places, RECORD
<1>CloseTab. ASSUME CloseTab PROVE TypeOK'
  BY <1>CloseTab, CurrentTypes DEF CloseTab, MayStop, StopRows, Places, RECORD
<1>CloseRows. ASSUME CloseRows PROVE TypeOK'
  BY <1>CloseRows DEF CloseRows, Places, RECORD
<1>RemoveSession. ASSUME RemoveSession PROVE TypeOK'
  BY <1>RemoveSession DEF RemoveSession, Places, RECORD
<1>TakeSession. ASSUME TakeSession PROVE TypeOK'
  BY <1>TakeSession DEF TakeSession, Places, RECORD
<1>Sweep. ASSUME Sweep PROVE TypeOK'
  BY <1>Sweep DEF Sweep, Recorded, Places, RECORD
<1>CloseSession. ASSUME CloseSession PROVE TypeOK'
  BY <1>CloseSession DEF CloseSession, Recorded, Places, RECORD
<1>SweepOne. ASSUME NEW f \in Attempts, SweepOne(f) PROVE TypeOK'
  BY <1>SweepOne DEF SweepOne, Places, RECORD
<1>Answer. ASSUME NEW a \in Attempts, Answer(a) PROVE TypeOK'
  BY <1>Answer, AttemptTypes DEF Answer, At, Places, RECORD
<1>Reserve. ASSUME NEW a \in Attempts, Reserve(a) PROVE TypeOK'
  <2>1. Target(a) \in Targets
    BY AttemptTypes
  <2>2. pc' \in [Attempts -> Places] /\ result' \in [Attempts -> {"none", "ok", "failed", "cancelled"}]
    BY <1>Reserve DEF Reserve, Places
  <2>3. lease' \in [Targets -> Attempts \cup {None}]
    <3>1. lease' = lease \/ lease' = [lease EXCEPT ![Target(a)] = a]
      BY <1>Reserve DEF Reserve
    <3>2. QED
      BY <2>1, <3>1
  <2>4. QED
    BY <1>Reserve, <2>2, <2>3 DEF Reserve
<1>Claim. ASSUME NEW a \in Attempts, Claim(a) PROVE TypeOK'
  BY <1>Claim, AttemptTypes DEF Claim, Take, StartCleanup, Places, RECORD
<1>Verify. ASSUME NEW a \in Attempts, Verify(a) PROVE TypeOK'
  BY <1>Verify, AttemptTypes DEF Verify, StartCleanup, Places, RECORD
<1>Discarded. ASSUME NEW a \in Attempts, Discarded(a) PROVE TypeOK'
  BY <1>Discarded, AttemptTypes DEF Discarded, At, Places, RECORD
<1>Begin. ASSUME NEW a \in Attempts, Begin(a) PROVE TypeOK'
  BY <1>Begin, AttemptTypes DEF Begin, At, Places, RECORD
<1>Submit. ASSUME NEW a \in Attempts, Submit(a) PROVE TypeOK'
  <2>1. pc' \in [Attempts -> Places] /\ result' \in [Attempts -> {"none", "ok", "failed", "cancelled"}]
    BY <1>Submit DEF Submit, Places
  <2>2. lease' \in [Targets -> Attempts \cup {None}]
    <3>1. lease' = lease \/ DropLease(a)
      BY <1>Submit DEF Submit
    <3>2. QED
      BY <3>1, DropLeaseTypes
  <2>3. poolCancelled' \subseteq Attempts
    BY <1>Submit DEF Submit
  <2>4. QED
    BY <1>Submit, <2>1, <2>2, <2>3 DEF Submit
<1>FinishCancelled. ASSUME NEW a \in Attempts, FinishCancelled(a) PROVE TypeOK'
  BY <1>FinishCancelled, AttemptTypes DEF FinishCancelled, Finish, DropLease, Renamed,
     Places, RECORD
<1>PublishedAnyway. ASSUME NEW a \in Attempts, PublishedAnyway(a) PROVE TypeOK'
  <2>1. pc' \in [Attempts -> Places] /\ result' \in [Attempts -> {"none", "ok", "failed", "cancelled"}]
    BY <1>PublishedAnyway DEF PublishedAnyway, At, Places
  <2>2. QED
    BY <1>PublishedAnyway, <2>1 DEF PublishedAnyway
<1>Settle. ASSUME NEW a \in Attempts, Settle(a) PROVE TypeOK'
  BY <1>Settle, AttemptTypes DEF Settle, Places, RECORD
<1>EndAttempt. ASSUME NEW a \in Attempts, EndAttempt(a) PROVE TypeOK'
  <2>1. pc' \in [Attempts -> Places]
    <3>1. pc' = [pc EXCEPT ![a] = "cleaning"] \/ pc' = [pc EXCEPT ![a] = "returned"]
      BY <1>EndAttempt DEF EndAttempt
    <3>2. QED
      BY <3>1 DEF Places
  <2>2. active' \subseteq Attempts
    BY <1>EndAttempt DEF EndAttempt, ActiveAfter
  <2>3. marks' \in Seq(Attempts) /\ Len(marks') <= MarkCap
    BY <1>EndAttempt, UnmarkTypes DEF EndAttempt
  <2>4. paused' \in [Targets -> RECORD \cup {None}]
    <3>1. \/ paused' = paused
          \/ paused' = [paused EXCEPT ![Target(a)] = [file |-> partial[a], attempt |-> a]]
      BY <1>EndAttempt DEF EndAttempt
    <3>2. [file |-> partial[a], attempt |-> a] \in RECORD
      BY DEF RECORD
    <3>3. QED
      BY <3>1, <3>2
  <2>5. cleanup' \in [Attempts -> {"none", "running", "nosession"}]
    BY <1>EndAttempt DEF EndAttempt, StartCleanup
  <2>6. QED
    BY <1>EndAttempt, <2>1, <2>2, <2>3, <2>4, <2>5 DEF EndAttempt
<1>Cleaned. ASSUME NEW a \in Attempts, Cleaned(a) PROVE TypeOK'
  BY <1>Cleaned, AttemptTypes DEF Cleaned, At, Places, RECORD
<1>Dispatch. ASSUME NEW a \in Attempts, Dispatch(a) PROVE TypeOK'
  BY <1>Dispatch, AttemptTypes DEF Dispatch, At, Places, RECORD
<1>Write. ASSUME NEW a \in Attempts, Write(a) PROVE TypeOK'
  BY <1>Write, AttemptTypes DEF Write, At, Places, RECORD
<1>FinishWhole. ASSUME NEW a \in Attempts, FinishWhole(a) PROVE TypeOK'
  BY <1>FinishWhole, AttemptTypes DEF FinishWhole, Finish, DropLease, Renamed, At, Places,
     RECORD
<1>FinishFailed. ASSUME NEW a \in Attempts, FinishFailed(a) PROVE TypeOK'
  BY <1>FinishFailed, AttemptTypes DEF FinishFailed, Finish, DropLease, Places, RECORD
<1>FinishUnknown. ASSUME NEW a \in Attempts, FinishUnknown(a) PROVE TypeOK'
  BY <1>FinishUnknown, AttemptTypes DEF FinishUnknown, Finish, DropLease, Renamed, At,
     Places, RECORD
<1>BeginPause. ASSUME NEW a \in Attempts, BeginPause(a) PROVE TypeOK'
  <2>1. marks' \in Seq(Attempts) /\ Len(marks') <= MarkCap
    BY <1>BeginPause, MarkTypes DEF BeginPause
  <2>2. calls' \in [Uploads -> Seq({"pause", "stop"} \X Attempts)]
    BY <1>BeginPause, AttemptTypes DEF BeginPause, NextCall
  <2>3. told' \in [Attempts -> SUBSET {"pause", "stop"}]
    BY <1>BeginPause DEF BeginPause
  <2>4. QED
    BY <1>BeginPause, <2>1, <2>2, <2>3 DEF BeginPause
<1>BeginStop. ASSUME NEW a \in Attempts, BeginStop(a) PROVE TypeOK'
  <2>1. marks' \in Seq(Attempts) /\ Len(marks') <= MarkCap
    BY <1>BeginStop, UnmarkTypes DEF BeginStop, TakeMark
  <2>2. calls' \in [Uploads -> Seq({"pause", "stop"} \X Attempts)]
    BY <1>BeginStop, AttemptTypes DEF BeginStop, NextCall
  <2>3. told' \in [Attempts -> SUBSET {"pause", "stop"}]
    BY <1>BeginStop DEF BeginStop
  <2>4. paused' \in [Targets -> RECORD \cup {None}]
    BY <1>BeginStop DEF BeginStop, Take
  <2>5. cleanup' \in [Attempts -> {"none", "running", "nosession"}]
    BY <1>BeginStop DEF BeginStop, StartCleanup
  <2>6. QED
    BY <1>BeginStop, <2>1, <2>2, <2>3, <2>4, <2>5 DEF BeginStop
<1>PoolCancel. ASSUME NEW a \in Attempts, PoolCancel(a) PROVE TypeOK'
  <2>1. pc' \in [Attempts -> Places] /\ result' \in [Attempts -> {"none", "ok", "failed", "cancelled"}]
    <3>1. /\ pc' = pc \/ pc' = [pc EXCEPT ![a] = "ended"]
          /\ result' = result \/ result' = [result EXCEPT ![a] = "cancelled"]
      BY <1>PoolCancel DEF PoolCancel
    <3>2. QED
      BY <3>1 DEF Places
  <2>2. lease' \in [Targets -> Attempts \cup {None}]
    <3>1. lease' = lease \/ DropLease(a)
      BY <1>PoolCancel DEF PoolCancel
    <3>2. QED
      BY <3>1, DropLeaseTypes
  <2>3. token' \subseteq Attempts /\ poolCancelled' \subseteq Attempts
    BY <1>PoolCancel DEF PoolCancel, RememberCancelled
  <2>4. told' \in [Attempts -> SUBSET {"pause", "stop"}]
    BY <1>PoolCancel DEF PoolCancel
  <2>5. QED
    BY <1>PoolCancel, <2>1, <2>2, <2>3, <2>4 DEF PoolCancel
<1>CleanRemoves. ASSUME NEW a \in Attempts, CleanRemoves(a) PROVE TypeOK'
  BY <1>CleanRemoves, AttemptTypes DEF CleanRemoves, Places, RECORD
<1>CleanGivesUp. ASSUME NEW a \in Attempts, CleanGivesUp(a) PROVE TypeOK'
  BY <1>CleanGivesUp, AttemptTypes DEF CleanGivesUp, Places, RECORD
<1>CleanFindsNoSession. ASSUME NEW a \in Attempts, CleanFindsNoSession(a) PROVE TypeOK'
  BY <1>CleanFindsNoSession, AttemptTypes DEF CleanFindsNoSession, Places, RECORD
<1>q. QED
  BY <1>Upload, <1>Resume, <1>Retry, <1>Approve, <1>AskPause, <1>AskStop, <1>CloseTab,
     <1>CloseRows, <1>RemoveSession, <1>TakeSession, <1>Sweep, <1>CloseSession,
     <1>SweepOne, <1>Answer, <1>Reserve, <1>Claim, <1>Verify, <1>Discarded, <1>Begin,
     <1>Submit, <1>FinishCancelled, <1>PublishedAnyway, <1>Settle, <1>EndAttempt,
     <1>Cleaned, <1>Dispatch, <1>Write, <1>FinishWhole, <1>FinishFailed, <1>FinishUnknown,
     <1>BeginPause, <1>BeginStop, <1>PoolCancel, <1>CleanRemoves, <1>CleanGivesUp,
     <1>CleanFindsNoSession DEF Next, User, Unwind, Run, Cancel, Clean, Close
-----------------------------------------------------------------------------
(* The count of attempts: only NewAttempt starts one, with the next number. *)
LEMMA TriesStep == TypeOK /\ TriesCount /\ Next => TriesCount'
<1> SUFFICES ASSUME TypeOK, TriesCount, Next PROVE TriesCount'
  OBVIOUS
<1> DEFINE Keeps ==
      /\ tries' = tries
      /\ \A u \in Uploads : row'[u] # "none" => row[u] # "none" \/ tries[u] # 0
      /\ \A a \in Attempts : pc'[a] # "unused" => pc[a] # "unused"
<1>1. ASSUME NEW u \in Uploads, NEW at, NEW wants, NewAttempt(u, at, wants)
      PROVE  TriesCount'
  <2>1. tries[u] \in Nat /\ tries' = [tries EXCEPT ![u] = tries[u] + 1]
    BY <1>1, StagingAssumption DEF NewAttempt, TypeOK
  <2>2. ASSUME NEW v \in Uploads, row'[v] # "none" PROVE tries'[v] # 0
    BY <1>1, <2>1, <2>2 DEF NewAttempt, TypeOK, TriesCount
  <2>3. ASSUME NEW a \in Attempts, pc'[a] # "unused" PROVE a[2] <= tries'[a[1]]
    <3>1. a[1] \in Uploads /\ a[2] \in Nat /\ tries[a[1]] \in Nat
      BY AttemptTypes, StagingAssumption DEF TypeOK
    <3>2. CASE a = <<u, tries[u] + 1>>
      BY <2>1, <3>1, <3>2 DEF TypeOK
    <3>3. CASE a # <<u, tries[u] + 1>>
      <4>1. pc[a] # "unused"
        BY <1>1, <2>3, <3>3 DEF NewAttempt, TypeOK
      <4>2. a[2] <= tries[a[1]]
        BY <4>1 DEF TriesCount
      <4>3. tries'[a[1]] = tries[a[1]] \/ tries'[a[1]] = tries[a[1]] + 1
        BY <2>1, <3>1 DEF TypeOK
      <4>4. QED
        BY <3>1, <4>2, <4>3
    <3>4. QED
      BY <3>2, <3>3
  <2>4. QED
    BY <2>2, <2>3 DEF TriesCount
<1>2. ASSUME Keeps PROVE TriesCount'
  BY <1>2 DEF TriesCount
<1> USE DEF rowVars
<1>Approve. ASSUME NEW u \in Uploads, Approve(u) PROVE Keeps
  BY <1>Approve DEF Approve, At, TypeOK
<1>AskPause. ASSUME NEW u \in Uploads, AskPause(u) PROVE Keeps
  BY <1>AskPause DEF AskPause, TypeOK
<1>AskStop. ASSUME NEW u \in Uploads, AskStop(u) PROVE Keeps
  BY <1>AskStop DEF AskStop, MayStop, StopRows, TypeOK
<1>CloseTab. ASSUME CloseTab PROVE Keeps
  BY <1>CloseTab DEF CloseTab, MayStop, StopRows, TypeOK
<1>CloseRows. ASSUME CloseRows PROVE Keeps
  BY <1>CloseRows DEF CloseRows, TypeOK
<1>RemoveSession. ASSUME RemoveSession PROVE Keeps
  BY <1>RemoveSession DEF RemoveSession, TypeOK
<1>TakeSession. ASSUME TakeSession PROVE Keeps
  BY <1>TakeSession DEF TakeSession, TypeOK
<1>Sweep. ASSUME Sweep PROVE Keeps
  BY <1>Sweep DEF Sweep, TypeOK
<1>CloseSession. ASSUME CloseSession PROVE Keeps
  BY <1>CloseSession DEF CloseSession, TypeOK
<1>SweepOne. ASSUME NEW f \in Attempts, SweepOne(f) PROVE Keeps
  BY <1>SweepOne DEF SweepOne, TypeOK
<1>Answer. ASSUME NEW a \in Attempts, Answer(a) PROVE Keeps
  <2>1. a[2] <= tries[a[1]] /\ a[1] \in Uploads /\ a[2] \in 1 .. MaxTries /\ tries[a[1]] \in Nat
    BY <1>Answer, AttemptTypes, StagingAssumption DEF Answer, At, TriesCount, TypeOK
  <2>2. tries[a[1]] # 0
    BY <2>1, StagingAssumption
  <2>3. ASSUME NEW u \in Uploads, row'[u] # "none" PROVE row[u] # "none" \/ tries[u] # 0
    BY <1>Answer, <2>1, <2>2, <2>3 DEF Answer, TypeOK
  <2>4. tries' = tries /\ \A b \in Attempts : pc'[b] # "unused" => pc[b] # "unused"
    BY <1>Answer DEF Answer, At, TypeOK
  <2>5. QED
    BY <2>3, <2>4
<1>Reserve. ASSUME NEW a \in Attempts, Reserve(a) PROVE Keeps
  BY <1>Reserve DEF Reserve, TypeOK
<1>Claim. ASSUME NEW a \in Attempts, Claim(a) PROVE Keeps
  BY <1>Claim DEF Claim, TypeOK
<1>Verify. ASSUME NEW a \in Attempts, Verify(a) PROVE Keeps
  BY <1>Verify DEF Verify, TypeOK
<1>Discarded. ASSUME NEW a \in Attempts, Discarded(a) PROVE Keeps
  BY <1>Discarded DEF Discarded, At, TypeOK
<1>Begin. ASSUME NEW a \in Attempts, Begin(a) PROVE Keeps
  BY <1>Begin DEF Begin, At, TypeOK
<1>Submit. ASSUME NEW a \in Attempts, Submit(a) PROVE Keeps
  BY <1>Submit DEF Submit, TypeOK
<1>FinishCancelled. ASSUME NEW a \in Attempts, FinishCancelled(a) PROVE Keeps
  BY <1>FinishCancelled DEF FinishCancelled, Finish, TypeOK
<1>PublishedAnyway. ASSUME NEW a \in Attempts, PublishedAnyway(a) PROVE Keeps
  BY <1>PublishedAnyway DEF PublishedAnyway, At, TypeOK
<1>Settle. ASSUME NEW a \in Attempts, Settle(a) PROVE Keeps
  BY <1>Settle DEF Settle, TypeOK
<1>EndAttempt. ASSUME NEW a \in Attempts, EndAttempt(a) PROVE Keeps
  BY <1>EndAttempt DEF EndAttempt, TypeOK
<1>Cleaned. ASSUME NEW a \in Attempts, Cleaned(a) PROVE Keeps
  BY <1>Cleaned DEF Cleaned, At, TypeOK
<1>Dispatch. ASSUME NEW a \in Attempts, Dispatch(a) PROVE Keeps
  BY <1>Dispatch DEF Dispatch, At, TypeOK
<1>Write. ASSUME NEW a \in Attempts, Write(a) PROVE Keeps
  BY <1>Write DEF Write, At, TypeOK
<1>FinishWhole. ASSUME NEW a \in Attempts, FinishWhole(a) PROVE Keeps
  BY <1>FinishWhole DEF FinishWhole, Finish, At, TypeOK
<1>FinishFailed. ASSUME NEW a \in Attempts, FinishFailed(a) PROVE Keeps
  BY <1>FinishFailed DEF FinishFailed, Finish, TypeOK
<1>FinishUnknown. ASSUME NEW a \in Attempts, FinishUnknown(a) PROVE Keeps
  BY <1>FinishUnknown DEF FinishUnknown, Finish, At, TypeOK
<1>BeginPause. ASSUME NEW a \in Attempts, BeginPause(a) PROVE Keeps
  BY <1>BeginPause DEF BeginPause, NextCall, TypeOK
<1>BeginStop. ASSUME NEW a \in Attempts, BeginStop(a) PROVE Keeps
  BY <1>BeginStop DEF BeginStop, NextCall, TypeOK
<1>PoolCancel. ASSUME NEW a \in Attempts, PoolCancel(a) PROVE Keeps
  BY <1>PoolCancel DEF PoolCancel, TypeOK
<1>CleanRemoves. ASSUME NEW a \in Attempts, CleanRemoves(a) PROVE Keeps
  BY <1>CleanRemoves DEF CleanRemoves, TypeOK
<1>CleanGivesUp. ASSUME NEW a \in Attempts, CleanGivesUp(a) PROVE Keeps
  BY <1>CleanGivesUp DEF CleanGivesUp, TypeOK
<1>CleanFindsNoSession. ASSUME NEW a \in Attempts, CleanFindsNoSession(a) PROVE Keeps
  BY <1>CleanFindsNoSession DEF CleanFindsNoSession, TypeOK
<1>starts. ASSUME NEW u \in Uploads, Upload(u) \/ Resume(u) \/ Retry(u) PROVE TriesCount'
  BY <1>starts, <1>1 DEF Upload, Resume, Retry
<1>q. QED
  BY <1>2, <1>starts, <1>Approve, <1>AskPause, <1>AskStop, <1>CloseTab, <1>CloseRows,
     <1>RemoveSession, <1>TakeSession, <1>Sweep, <1>CloseSession, <1>SweepOne, <1>Answer,
     <1>Reserve, <1>Claim, <1>Verify, <1>Discarded, <1>Begin, <1>Submit,
     <1>FinishCancelled, <1>PublishedAnyway, <1>Settle, <1>EndAttempt, <1>Cleaned,
     <1>Dispatch, <1>Write, <1>FinishWhole, <1>FinishFailed, <1>FinishUnknown,
     <1>BeginPause, <1>BeginStop, <1>PoolCancel, <1>CleanRemoves, <1>CleanGivesUp,
     <1>CleanFindsNoSession DEF Next, User, Unwind, Run, Cancel, Clean, Close
-----------------------------------------------------------------------------
(* What a sweep needs: a pool that is gone has nothing queued, and stays so. *)
LEMMA SweepingStep == TypeOK /\ Sweeping /\ Next => Sweeping'
<1> SUFFICES ASSUME TypeOK, Sweeping, Next PROVE Sweeping'
  OBVIOUS
<1> DEFINE Keeps ==
      /\ session' = session /\ sweep' \subseteq sweep
      /\ \A a \in Attempts :
            /\ pc'[a] = "queued" => pc[a] = "queued" \/ HasPool
            /\ pc'[a] \in {"running", "writing"} => pc[a] \in {"queued", "running", "writing"}
<1>1. ASSUME Keeps PROVE Sweeping'
  BY <1>1 DEF Sweeping, HasPool
<1> USE DEF closeVars
<1>Upload. ASSUME NEW u \in Uploads, Upload(u) PROVE Keeps
  BY <1>Upload DEF Upload, NewAttempt, TypeOK
<1>Resume. ASSUME NEW u \in Uploads, Resume(u) PROVE Keeps
  BY <1>Resume DEF Resume, NewAttempt, TypeOK
<1>Retry. ASSUME NEW u \in Uploads, Retry(u) PROVE Keeps
  BY <1>Retry DEF Retry, NewAttempt, TypeOK
<1>Approve. ASSUME NEW u \in Uploads, Approve(u) PROVE Keeps
  BY <1>Approve DEF Approve, At, TypeOK
<1>AskPause. ASSUME NEW u \in Uploads, AskPause(u) PROVE Keeps
  BY <1>AskPause DEF AskPause, TypeOK
<1>AskStop. ASSUME NEW u \in Uploads, AskStop(u) PROVE Keeps
  BY <1>AskStop DEF AskStop, MayStop, StopRows, TypeOK
<1>CloseTab. ASSUME CloseTab PROVE Sweeping'
  BY <1>CloseTab DEF CloseTab, Sweeping, HasPool, TypeOK
<1>CloseRows. ASSUME CloseRows PROVE Keeps
  BY <1>CloseRows DEF CloseRows, TypeOK
<1>RemoveSession. ASSUME RemoveSession PROVE Sweeping'
  BY <1>RemoveSession DEF RemoveSession, Sweeping, HasPool, TypeOK
<1>TakeSession. ASSUME TakeSession PROVE Sweeping'
  BY <1>TakeSession DEF TakeSession, Sweeping, HasPool, TypeOK
<1>Sweep. ASSUME Sweep PROVE Sweeping'
  BY <1>Sweep DEF Sweep, Sweeping, HasPool, TypeOK
<1>CloseSession. ASSUME CloseSession PROVE Sweeping'
  BY <1>CloseSession DEF CloseSession, Sweeping, HasPool, TypeOK
<1>SweepOne. ASSUME NEW f \in Attempts, SweepOne(f) PROVE Keeps
  BY <1>SweepOne DEF SweepOne, TypeOK
<1>Answer. ASSUME NEW a \in Attempts, Answer(a) PROVE Keeps
  BY <1>Answer DEF Answer, At, TypeOK
<1>Reserve. ASSUME NEW a \in Attempts, Reserve(a) PROVE Keeps
  BY <1>Reserve DEF Reserve, TypeOK
<1>Claim. ASSUME NEW a \in Attempts, Claim(a) PROVE Keeps
  BY <1>Claim DEF Claim, TypeOK
<1>Verify. ASSUME NEW a \in Attempts, Verify(a) PROVE Keeps
  BY <1>Verify DEF Verify, TypeOK
<1>Discarded. ASSUME NEW a \in Attempts, Discarded(a) PROVE Keeps
  BY <1>Discarded DEF Discarded, At, TypeOK
<1>Begin. ASSUME NEW a \in Attempts, Begin(a) PROVE Keeps
  BY <1>Begin DEF Begin, At, TypeOK
<1>Submit. ASSUME NEW a \in Attempts, Submit(a) PROVE Keeps
  BY <1>Submit DEF Submit, TypeOK
<1>FinishCancelled. ASSUME NEW a \in Attempts, FinishCancelled(a) PROVE Keeps
  BY <1>FinishCancelled DEF FinishCancelled, Finish, TypeOK
<1>PublishedAnyway. ASSUME NEW a \in Attempts, PublishedAnyway(a) PROVE Keeps
  BY <1>PublishedAnyway DEF PublishedAnyway, At, TypeOK
<1>Settle. ASSUME NEW a \in Attempts, Settle(a) PROVE Keeps
  BY <1>Settle DEF Settle, TypeOK
<1>EndAttempt. ASSUME NEW a \in Attempts, EndAttempt(a) PROVE Keeps
  BY <1>EndAttempt DEF EndAttempt, TypeOK
<1>Cleaned. ASSUME NEW a \in Attempts, Cleaned(a) PROVE Keeps
  BY <1>Cleaned DEF Cleaned, At, TypeOK
<1>Dispatch. ASSUME NEW a \in Attempts, Dispatch(a) PROVE Keeps
  BY <1>Dispatch DEF Dispatch, At, TypeOK
<1>Write. ASSUME NEW a \in Attempts, Write(a) PROVE Keeps
  BY <1>Write DEF Write, At, TypeOK
<1>FinishWhole. ASSUME NEW a \in Attempts, FinishWhole(a) PROVE Keeps
  BY <1>FinishWhole DEF FinishWhole, Finish, At, TypeOK
<1>FinishFailed. ASSUME NEW a \in Attempts, FinishFailed(a) PROVE Keeps
  BY <1>FinishFailed DEF FinishFailed, Finish, TypeOK
<1>FinishUnknown. ASSUME NEW a \in Attempts, FinishUnknown(a) PROVE Keeps
  BY <1>FinishUnknown DEF FinishUnknown, Finish, At, TypeOK
<1>BeginPause. ASSUME NEW a \in Attempts, BeginPause(a) PROVE Keeps
  BY <1>BeginPause DEF BeginPause, NextCall, TypeOK
<1>BeginStop. ASSUME NEW a \in Attempts, BeginStop(a) PROVE Keeps
  BY <1>BeginStop DEF BeginStop, NextCall, TypeOK
<1>PoolCancel. ASSUME NEW a \in Attempts, PoolCancel(a) PROVE Keeps
  BY <1>PoolCancel DEF PoolCancel, TypeOK
<1>CleanRemoves. ASSUME NEW a \in Attempts, CleanRemoves(a) PROVE Keeps
  BY <1>CleanRemoves DEF CleanRemoves, TypeOK
<1>CleanGivesUp. ASSUME NEW a \in Attempts, CleanGivesUp(a) PROVE Keeps
  BY <1>CleanGivesUp DEF CleanGivesUp, TypeOK
<1>CleanFindsNoSession. ASSUME NEW a \in Attempts, CleanFindsNoSession(a) PROVE Keeps
  BY <1>CleanFindsNoSession DEF CleanFindsNoSession, TypeOK
<1>q. QED
  BY <1>1, <1>Upload, <1>Resume, <1>Retry, <1>Approve, <1>AskPause, <1>AskStop,
     <1>CloseTab, <1>CloseRows, <1>RemoveSession, <1>TakeSession, <1>Sweep,
     <1>CloseSession, <1>SweepOne, <1>Answer, <1>Reserve, <1>Claim, <1>Verify,
     <1>Discarded, <1>Begin, <1>Submit, <1>FinishCancelled, <1>PublishedAnyway, <1>Settle,
     <1>EndAttempt, <1>Cleaned, <1>Dispatch, <1>Write, <1>FinishWhole, <1>FinishFailed,
     <1>FinishUnknown, <1>BeginPause, <1>BeginStop, <1>PoolCancel, <1>CleanRemoves,
     <1>CleanGivesUp, <1>CleanFindsNoSession DEF Next, User, Unwind, Run, Cancel, Clean,
     Close
-----------------------------------------------------------------------------
(* A file that may be cleaned up: no record has it, and nobody uses it who *)
(* does not wait for that.                                                 *)
Free(f) ==
    /\ pc[f] \in Done \cup {"cleaning"}
    /\ \A a \in Attempts : partial[a] = f => pc[a] \in Done \cup {"discarding", "cleaning"}
    /\ \A t \in Targets : paused[t] # None => paused[t].file # f

(* A step that hands no file over: names stay, records are at most taken,  *)
(* attempts only end, and only free files are cleaned up.                  *)
Quiet ==
    /\ partial' = partial
    /\ \A t \in Targets : paused'[t] \in {None, paused[t]}
    /\ \A a \in Attempts :
        /\ pc[a] \in Done => pc'[a] \in Done
        /\ pc[a] = "discarding" => pc'[a] = "discarding"
        /\ pc[a] = "cleaning" => pc'[a] \in Done \cup {"cleaning"}
        /\ pc'[a] \in {"verifying", "discarding"} => pc[a] \in {"verifying", "discarding"}
    /\ \A f \in Attempts : cleanup'[f] = "running" => cleanup[f] = "running" \/ Free(f)'

(* A quiet step leaves every file with whom it was. *)
LEMMA QuietKeepsOwn == TypeOK /\ Own /\ Quiet => Own'
<1> SUFFICES ASSUME TypeOK, Own, Quiet PROVE Own'
  OBVIOUS
<1> USE DEF Own, TypeOK
<1>1. Names'
  BY DEF Names, Quiet, Target
<1>2. OneUser'
  BY DEF OneUser, Quiet
<1>3. Records'
  <2> SUFFICES ASSUME NEW t \in Targets, paused'[t] # None
               PROVE  /\ Target(paused'[t].file) = t
                      /\ pc'[paused'[t].file] \in Done
                      /\ cleanup'[paused'[t].file] # "running"
                      /\ \A a \in Attempts : partial'[a] = paused'[t].file => pc'[a] \in Done
    BY DEF Records, Target
  <2>1. paused'[t] = paused[t] /\ paused[t] # None /\ paused[t].file \in Attempts
    BY DEF Quiet, RECORD
  <2>2. /\ Target(paused[t].file) = t /\ pc[paused[t].file] \in Done
        /\ cleanup[paused[t].file] # "running"
        /\ \A a \in Attempts : partial[a] = paused[t].file => pc[a] \in Done
    BY <2>1 DEF Records
  <2>3. ~Free(paused[t].file)'
    BY <2>1 DEF Free
  <2>4. QED
    BY <2>1, <2>2, <2>3 DEF Quiet
<1>4. Cleanups'
  <2> SUFFICES ASSUME NEW f \in Attempts, cleanup'[f] = "running"
               PROVE  /\ pc'[f] \in Done \cup {"cleaning"}
                      /\ \A a \in Attempts :
                           partial'[a] = f => pc'[a] \in Done \cup {"discarding", "cleaning"}
    BY DEF Cleanups
  <2>1. CASE cleanup[f] = "running"
    BY <2>1 DEF Cleanups, Quiet
  <2>2. CASE Free(f)'
    BY <2>2 DEF Free
  <2>3. QED
    BY <2>1, <2>2 DEF Quiet
<1>5. QED
  BY <1>1, <1>2, <1>3, <1>4

(* A step of one attempt, from a place where it uses its file, to another. *)
LEMMA StepIsQuiet ==
    ASSUME TypeOK, NEW a \in Attempts, NEW to,
           pc' = [pc EXCEPT ![a] = to],
           pc[a] \notin Done \cup {"discarding"},
           pc[a] = "cleaning" => to \in Done,
           to \notin {"verifying", "discarding"},
           partial' = partial, paused' = paused, cleanup' = cleanup
    PROVE  Quiet
  BY DEF Quiet, TypeOK

(* A step that moves no attempt and touches no file is quiet. *)
LEMMA SameIsQuiet ==
    ASSUME pc' = pc, partial' = partial, paused' = paused, cleanup' = cleanup
    PROVE  Quiet
  BY DEF Quiet

(* The three steps that hand a file over. *)
LEMMA ClaimKeepsOwn ==
    ASSUME TypeOK, Own, NEW a \in Attempts, Claim(a) PROVE Own'
<1> DEFINE t == Target(a)
           f == paused[t].file
<1> USE DEF TypeOK
<1>1. t \in Targets /\ pc[a] = "reserved" /\ paused' = [paused EXCEPT ![t] = None]
  BY AttemptTypes DEF Claim, Take
<1>2. CASE paused[t] = None
  <2>1. Quiet
    <3>1. paused' = paused
      BY <1>1, <1>2
    <3>2. pc' = [pc EXCEPT ![a] = "ready"] /\ partial' = partial /\ cleanup' = cleanup
      BY <1>2 DEF Claim
    <3>3. QED
      <4>1. pc[a] \notin Done \cup {"discarding"} /\ pc[a] # "cleaning"
        BY <1>1 DEF Done
      <4> HIDE DEF TypeOK
      <4>2. QED
        BY <3>1, <3>2, <4>1, StepIsQuiet
  <2>2. QED
    BY <2>1, QuietKeepsOwn
<1>3. CASE paused[t] # None
  <2>1. /\ f \in Attempts /\ Target(f) = t /\ pc[f] \in Done /\ cleanup[f] # "running"
        /\ \A b \in Attempts : partial[b] = f => pc[b] \in Done
    BY <1>1, <1>3 DEF Own, Records, RECORD
  <2>2. f # a
    BY <1>1, <2>1 DEF Done
  <2>3. PICK to \in {"verifying", "discarding"} :
          /\ pc' = [pc EXCEPT ![a] = to] /\ partial' = [partial EXCEPT ![a] = f]
          /\ \/ cleanup' = cleanup
             \/ to = "discarding" /\ \E v : cleanup' = [cleanup EXCEPT ![f] = v]
    <3>1. CASE resume[a]
      BY <1>3, <3>1 DEF Claim
    <3>2. CASE ~resume[a]
      <4>1. pc' = [pc EXCEPT ![a] = "discarding"] /\ partial' = [partial EXCEPT ![a] = f]
        BY <1>3, <3>2 DEF Claim
      <4>2. StartCleanup(f)
        BY <1>3, <3>2 DEF Claim
      <4>3. \E v : cleanup' = [cleanup EXCEPT ![f] = v]
        BY <4>2 DEF StartCleanup
      <4>4. QED
        BY <4>1, <4>3
    <3>3. QED
      BY <3>1, <3>2
  <2> HIDE DEF f, t
  <2>4. Names'
    BY <1>1, <2>1, <2>2, <2>3 DEF Own, Names, Done, Target, t
  <2>5. OneUser'
    BY <1>1, <2>1, <2>3 DEF Own, OneUser, Done
  <2>6. Records'
    <3> SUFFICES ASSUME NEW s \in Targets, paused'[s] # None
                 PROVE  /\ Target(paused'[s].file) = s
                        /\ pc'[paused'[s].file] \in Done
                        /\ cleanup'[paused'[s].file] # "running"
                        /\ \A b \in Attempts : partial'[b] = paused'[s].file => pc'[b] \in Done
      BY DEF Records, Target
    <3> DEFINE g == paused[s].file
    <3>1. s # t /\ paused'[s] = paused[s] /\ paused[s] # None
      BY <1>1
    <3>2. /\ g \in Attempts /\ Target(g) = s /\ pc[g] \in Done /\ cleanup[g] # "running"
          /\ \A b \in Attempts : partial[b] = g => pc[b] \in Done
      BY <3>1 DEF Own, Records, RECORD
    <3>3. g # f /\ g # a
      BY <1>1, <2>1, <3>1, <3>2 DEF Done
    <3>4. QED
      BY <2>1, <2>3, <3>1, <3>2, <3>3
  <2>7. Cleanups'
    BY <1>1, <2>1, <2>2, <2>3 DEF Own, Cleanups, Done
  <2>8. QED
    BY <2>4, <2>5, <2>6, <2>7 DEF Own
<1>4. QED
  BY <1>2, <1>3

(* An attempt whose adopted file is discarded goes on with its own. *)
LEMMA DiscardedKeepsOwn ==
    ASSUME TypeOK, Own, NEW a \in Attempts, Discarded(a) PROVE Own'
<1> USE DEF TypeOK
<1>1. /\ pc[a] = "discarding" /\ pc' = [pc EXCEPT ![a] = "ready"]
      /\ partial' = [partial EXCEPT ![a] = a] /\ cleanup' = cleanup /\ paused' = paused
  BY DEF Discarded, At, registry
<1>2. pc[a] \notin Done /\ "ready" \notin Done
  BY <1>1 DEF Done
<1>3. \A b \in Attempts : partial[b] # b => partial[b] # a
  BY <1>2 DEF Own, Names
<1>4. Names'
  BY <1>1, <1>2, <1>3 DEF Own, Names, Target
<1>5. OneUser'
  BY <1>1, <1>2, <1>3 DEF Own, OneUser
<1>6. Records'
  BY <1>1, <1>2 DEF Own, Records, Target, RECORD
<1>7. Cleanups'
  BY <1>1, <1>2 DEF Own, Cleanups, Done
<1>8. QED
  BY <1>4, <1>5, <1>6, <1>7 DEF Own

(* An attempt that ends keeps, cleans up or drops the file that was its own. *)
LEMMA EndAttemptKeepsOwn ==
    ASSUME TypeOK, Own, NEW a \in Attempts, EndAttempt(a) PROVE Own'
<1> USE DEF TypeOK
<1>f. PICK f \in Attempts : f = partial[a]
  OBVIOUS
<1>1. /\ pc[a] \in {"live", "notlive"} /\ pc[a] \notin Done /\ partial' = partial
      /\ f \in Attempts /\ Target(a) \in Targets
  BY <1>f, AttemptTypes DEF EndAttempt, localVars, Done
<1>2. /\ Target(f) = Target(a) /\ (f # a => pc[f] \in Done)
      /\ \A b \in Attempts : b # a /\ partial[b] = f => pc[b] \in Done
  BY <1>f, <1>1 DEF Own, Names, OneUser
<1>3. cleanup[f] # "running" /\ \A t \in Targets : paused[t] # None => paused[t].file # f
  BY <1>f, <1>1 DEF Own, Cleanups, Records, Done
<1>4. \/ /\ pc' = [pc EXCEPT ![a] = "returned"] /\ cleanup' = cleanup
         /\ paused' = [paused EXCEPT ![Target(a)] = [file |-> f, attempt |-> a]]
      \/ pc' = [pc EXCEPT ![a] = "returned"] /\ cleanup' = cleanup /\ paused' = paused
      \/ /\ pc' = [pc EXCEPT ![a] = "cleaning"] /\ paused' = paused
         /\ \E v : cleanup' = [cleanup EXCEPT ![f] = v]
  BY <1>f DEF EndAttempt, StartCleanup
<1>5. CASE pc' = [pc EXCEPT ![a] = "returned"] /\ cleanup' = cleanup /\ paused' = paused
  <2>1. pc[a] \notin Done \cup {"discarding"} /\ pc[a] # "cleaning"
    BY <1>1
  <2> HIDE DEF TypeOK
  <2>2. Quiet
    BY <1>1, <1>5, <2>1, StepIsQuiet
  <2>3. QED
    BY <2>2, QuietKeepsOwn
<1>6. CASE /\ pc' = [pc EXCEPT ![a] = "cleaning"] /\ paused' = paused
           /\ \E v : cleanup' = [cleanup EXCEPT ![f] = v]
  <2>1. Free(f)'
    <3>1. pc'[f] \in Done \cup {"cleaning"}
      BY <1>1, <1>2, <1>6
    <3>2. ASSUME NEW b \in Attempts, partial[b] = f PROVE pc'[b] \in Done \cup {"cleaning"}
      BY <1>2, <1>6, <3>2
    <3>3. \A t \in Targets : paused'[t] # None => paused'[t].file # f
      BY <1>3, <1>6
    <3>4. \A b \in Attempts : partial'[b] = f => pc'[b] \in Done \cup {"discarding", "cleaning"}
      BY <1>1, <3>2
    <3>5. QED
      BY <3>1, <3>3, <3>4 DEF Free
  <2>2. Quiet
    <3>1. \A g \in Attempts : cleanup'[g] = "running" => cleanup[g] = "running" \/ Free(g)'
      BY <1>6, <2>1
    <3>2. ASSUME NEW b \in Attempts
          PROVE  /\ pc[b] \in Done => pc'[b] \in Done
                 /\ pc[b] = "discarding" => pc'[b] = "discarding"
                 /\ pc[b] = "cleaning" => pc'[b] \in Done \cup {"cleaning"}
                 /\ pc'[b] \in {"verifying", "discarding"} => pc[b] \in {"verifying", "discarding"}
      BY <1>1, <1>6
    <3>3. QED
      BY <1>1, <1>6, <3>1, <3>2 DEF Quiet
  <2>3. QED
    BY <2>2, QuietKeepsOwn
<1>7. CASE /\ pc' = [pc EXCEPT ![a] = "returned"] /\ cleanup' = cleanup
           /\ paused' = [paused EXCEPT ![Target(a)] = [file |-> f, attempt |-> a]]
  <2>1. "returned" \in Done
    BY DEF Done
  <2>2. Names'
    BY <1>1, <1>7, <2>1 DEF Own, Names, Target
  <2>3. OneUser'
    BY <1>1, <1>7, <2>1 DEF Own, OneUser
  <2>4. Records'
    <3> SUFFICES ASSUME NEW t \in Targets, paused'[t] # None
                 PROVE  /\ Target(paused'[t].file) = t
                        /\ pc'[paused'[t].file] \in Done
                        /\ cleanup'[paused'[t].file] # "running"
                        /\ \A b \in Attempts : partial'[b] = paused'[t].file => pc'[b] \in Done
      BY DEF Records, Target
    <3>1. CASE t = Target(a)
      <4>1. paused'[t].file = f
        BY <1>1, <1>7, <3>1
      <4>2. pc'[f] \in Done /\ cleanup'[f] # "running"
        BY <1>1, <1>2, <1>3, <1>7, <2>1
      <4>3. ASSUME NEW b \in Attempts, partial'[b] = f PROVE pc'[b] \in Done
        BY <1>1, <1>2, <1>7, <2>1, <4>3
      <4>4. QED
        BY <1>2, <3>1, <4>1, <4>2, <4>3
    <3>2. CASE t # Target(a)
      <4>1. paused'[t] = paused[t] /\ paused[t].file \in Attempts
        BY <1>1, <1>7, <3>2 DEF RECORD
      <4>2. QED
        BY <1>1, <1>7, <2>1, <4>1 DEF Own, Records
    <3>3. QED
      BY <3>1, <3>2
  <2>5. Cleanups'
    BY <1>1, <1>7, <2>1 DEF Own, Cleanups
  <2>6. QED
    BY <2>2, <2>3, <2>4, <2>5 DEF Own
<1>8. QED
  BY <1>4, <1>5, <1>6, <1>7
-----------------------------------------------------------------------------
(* Every other step is quiet. *)
LEMMA OwnStep == TypeOK /\ TriesCount /\ Own /\ Next => Own'
<1> SUFFICES ASSUME TypeOK, TriesCount, Own, Next PROVE Own'
  OBVIOUS
<1> USE DEF rowVars, localVars, registry, poolVars, closeVars, server
<1>1. ASSUME Quiet PROVE Own'
  BY <1>1, QuietKeepsOwn
<1>2. \A t \in Targets : paused[t].file \in Attempts \/ paused[t] = None
  BY DEF TypeOK, RECORD
<1>start. ASSUME NEW u \in Uploads, NEW at \in {"called", "asked"}, NEW wants, NewAttempt(u, at, wants)
          PROVE  Quiet
  <2> DEFINE a == <<u, tries[u] + 1>>
  <2>1. tries[u] \in Nat /\ tries[u] + 1 \in 1 .. MaxTries /\ a \in Attempts
    BY <1>start, StagingAssumption DEF NewAttempt, TypeOK, Attempts
  <2>2. pc[a] = "unused"
    BY <2>1 DEF TriesCount
  <2>3. pc' = [pc EXCEPT ![a] = at] /\ partial' = partial /\ paused' = paused /\ cleanup' = cleanup
    BY <1>start DEF NewAttempt
  <2> HIDE DEF a
  <2>4. pc[a] \notin Done \cup {"discarding"} /\ pc[a] # "cleaning" /\ at \notin {"verifying", "discarding"}
    BY <2>2 DEF Done
  <2>5. QED
    BY <2>1, <2>3, <2>4, StepIsQuiet
<1>starts. ASSUME NEW u \in Uploads, Upload(u) \/ Resume(u) \/ Retry(u) PROVE Quiet
  BY <1>starts, <1>start DEF Upload, Resume, Retry
<1>Approve. ASSUME NEW u \in Uploads, Approve(u) PROVE Quiet
  BY <1>Approve DEF Quiet, Done, Approve, At, TypeOK
<1>AskPause. ASSUME NEW u \in Uploads, AskPause(u) PROVE Quiet
  BY <1>AskPause DEF Quiet, Done, AskPause, TypeOK
<1>AskStop. ASSUME NEW u \in Uploads, AskStop(u) PROVE Quiet
  BY <1>AskStop DEF Quiet, Done, AskStop, MayStop, StopRows, TypeOK
<1>CloseTab. ASSUME CloseTab PROVE Quiet
  BY <1>CloseTab DEF Quiet, Done, CloseTab, MayStop, StopRows, TypeOK
<1>CloseRows. ASSUME CloseRows PROVE Quiet
  BY <1>CloseRows DEF Quiet, Done, CloseRows, TypeOK
<1>RemoveSession. ASSUME RemoveSession PROVE Quiet
  BY <1>RemoveSession DEF Quiet, Done, RemoveSession, TypeOK
<1>TakeSession. ASSUME TakeSession PROVE Quiet
  BY <1>TakeSession DEF Quiet, Done, TakeSession, TypeOK
<1>Sweep. ASSUME Sweep PROVE Quiet
  BY <1>Sweep DEF Quiet, Done, Sweep, TypeOK
<1>CloseSession. ASSUME CloseSession PROVE Quiet
  BY <1>CloseSession DEF Quiet, Done, CloseSession, TypeOK
<1>SweepOne. ASSUME NEW f \in Attempts, SweepOne(f) PROVE Quiet
  BY <1>SweepOne DEF Quiet, Done, SweepOne, TypeOK
<1>Answer. ASSUME NEW a \in Attempts, Answer(a) PROVE Quiet
  BY <1>Answer DEF Quiet, Done, Answer, At, TypeOK
<1>Reserve. ASSUME NEW a \in Attempts, Reserve(a) PROVE Quiet
  BY <1>Reserve DEF Quiet, Done, Reserve, TypeOK
<1>Claim. ASSUME NEW a \in Attempts, Claim(a) PROVE Own'
  BY <1>Claim, ClaimKeepsOwn
<1>Verify. ASSUME NEW a \in Attempts, Verify(a) PROVE Quiet
  <2>1. PICK f \in Attempts : f = partial[a]
    BY DEF TypeOK
  <2>2. /\ pc[a] = "verifying" /\ partial' = partial /\ paused' = paused
        /\ \/ pc' = [pc EXCEPT ![a] = "ready"] /\ cleanup' = cleanup
           \/ pc' = [pc EXCEPT ![a] = "discarding"] /\ \E v : cleanup' = [cleanup EXCEPT ![f] = v]
    BY <1>Verify, <2>1 DEF Verify, StartCleanup
  <2>3. pc[a] \notin Done
    BY <2>2 DEF Done
  <2>4. CASE pc' = [pc EXCEPT ![a] = "discarding"] /\ \E v : cleanup' = [cleanup EXCEPT ![f] = v]
    <3>1. f # a /\ pc[f] \in Done /\ \A b \in Attempts : b # a /\ partial[b] = f => pc[b] \in Done
      BY <2>1, <2>2, <2>3 DEF Own, Names, OneUser
    <3>2. \A t \in Targets : paused[t] # None => paused[t].file # f
      BY <2>1, <2>3 DEF Own, Records
    <3>3. pc'[f] \in Done \cup {"cleaning"}
      BY <2>4, <3>1
    <3>4. \A b \in Attempts : partial'[b] = f => pc'[b] \in Done \cup {"discarding", "cleaning"}
      BY <2>2, <2>4, <3>1 DEF TypeOK
    <3>5. Free(f)'
      BY <2>2, <3>2, <3>3, <3>4 DEF Free
    <3>6. QED
      BY <2>2, <2>3, <2>4, <3>5 DEF Quiet, TypeOK
  <2>5. CASE pc' = [pc EXCEPT ![a] = "ready"] /\ cleanup' = cleanup
    BY <2>2, <2>3, <2>5 DEF Quiet, TypeOK
  <2>6. QED
    BY <2>2, <2>4, <2>5
<1>Discarded. ASSUME NEW a \in Attempts, Discarded(a) PROVE Own'
  BY <1>Discarded, DiscardedKeepsOwn
<1>Begin. ASSUME NEW a \in Attempts, Begin(a) PROVE Quiet
  BY <1>Begin DEF Quiet, Done, Begin, At, TypeOK
<1>Submit. ASSUME NEW a \in Attempts, Submit(a) PROVE Quiet
  BY <1>Submit DEF Quiet, Done, Submit, TypeOK
<1>FinishCancelled. ASSUME NEW a \in Attempts, FinishCancelled(a) PROVE Quiet
  BY <1>FinishCancelled DEF Quiet, Done, FinishCancelled, Finish, TypeOK
<1>PublishedAnyway. ASSUME NEW a \in Attempts, PublishedAnyway(a) PROVE Quiet
  BY <1>PublishedAnyway DEF Quiet, Done, PublishedAnyway, At, TypeOK
<1>Settle. ASSUME NEW a \in Attempts, Settle(a) PROVE Quiet
  BY <1>Settle DEF Quiet, Done, Settle, TypeOK
<1>EndAttempt. ASSUME NEW a \in Attempts, EndAttempt(a) PROVE Own'
  BY <1>EndAttempt, EndAttemptKeepsOwn
<1>Cleaned. ASSUME NEW a \in Attempts, Cleaned(a) PROVE Quiet
  BY <1>Cleaned DEF Quiet, Done, Cleaned, At, TypeOK
<1>Dispatch. ASSUME NEW a \in Attempts, Dispatch(a) PROVE Quiet
  BY <1>Dispatch DEF Quiet, Done, Dispatch, At, TypeOK
<1>Write. ASSUME NEW a \in Attempts, Write(a) PROVE Quiet
  BY <1>Write DEF Quiet, Done, Write, At, TypeOK
<1>FinishWhole. ASSUME NEW a \in Attempts, FinishWhole(a) PROVE Quiet
  BY <1>FinishWhole DEF Quiet, Done, FinishWhole, Finish, At, TypeOK
<1>FinishFailed. ASSUME NEW a \in Attempts, FinishFailed(a) PROVE Quiet
  BY <1>FinishFailed DEF Quiet, Done, FinishFailed, Finish, TypeOK
<1>FinishUnknown. ASSUME NEW a \in Attempts, FinishUnknown(a) PROVE Quiet
  BY <1>FinishUnknown DEF Quiet, Done, FinishUnknown, Finish, At, TypeOK
<1>BeginPause. ASSUME NEW a \in Attempts, BeginPause(a) PROVE Quiet
  BY <1>BeginPause DEF Quiet, Done, BeginPause, NextCall, TypeOK
<1>BeginStop. ASSUME NEW a \in Attempts, BeginStop(a) PROVE Quiet
  <2> DEFINE t == Target(a)
  <2>1. t \in Targets /\ pc' = pc /\ partial' = partial
    BY <1>BeginStop, AttemptTypes DEF BeginStop
  <2>2. CASE paused' = paused /\ cleanup' = cleanup
    BY <2>1, <2>2, SameIsQuiet
  <2>3. CASE paused[t] # None /\ Take(t) /\ StartCleanup(paused[t].file)
    <3>1. PICK f \in Attempts : f = paused[t].file
      BY <1>2, <2>1, <2>3
    <3>2. /\ Target(f) = t /\ pc[f] \in Done
          /\ \A b \in Attempts : partial[b] = f => pc[b] \in Done
      BY <2>1, <2>3, <3>1 DEF Own, Records
    <3>3. paused' = [paused EXCEPT ![t] = None] /\ \E v : cleanup' = [cleanup EXCEPT ![f] = v]
      BY <2>3, <3>1 DEF Take, StartCleanup
    <3>4. \A s \in Targets : paused[s] # None => Target(paused[s].file) = s
      BY DEF Own, Records
    <3>5. \A s \in Targets : paused'[s] # None => paused'[s].file # f
      BY <2>1, <3>2, <3>3, <3>4 DEF TypeOK
    <3>6. Free(f)'
      BY <2>1, <3>2, <3>5 DEF Free
    <3>7. QED
      BY <2>1, <3>3, <3>6 DEF Quiet, TypeOK
  <2>4. QED
    BY <1>BeginStop, <2>2, <2>3 DEF BeginStop
<1>PoolCancel. ASSUME NEW a \in Attempts, PoolCancel(a) PROVE Quiet
  BY <1>PoolCancel DEF Quiet, Done, PoolCancel, TypeOK
<1>CleanRemoves. ASSUME NEW a \in Attempts, CleanRemoves(a) PROVE Quiet
  BY <1>CleanRemoves DEF Quiet, Done, CleanRemoves, TypeOK
<1>CleanGivesUp. ASSUME NEW a \in Attempts, CleanGivesUp(a) PROVE Quiet
  BY <1>CleanGivesUp DEF Quiet, Done, CleanGivesUp, TypeOK
<1>CleanFindsNoSession. ASSUME NEW a \in Attempts, CleanFindsNoSession(a) PROVE Quiet
  BY <1>CleanFindsNoSession DEF Quiet, Done, CleanFindsNoSession, TypeOK
<1>q. QED
  BY <1>1, <1>starts, <1>Approve, <1>AskPause, <1>AskStop, <1>CloseTab, <1>CloseRows,
     <1>RemoveSession, <1>TakeSession, <1>Sweep, <1>CloseSession, <1>SweepOne, <1>Answer,
     <1>Reserve, <1>Claim, <1>Verify, <1>Discarded, <1>Begin, <1>Submit,
     <1>FinishCancelled, <1>PublishedAnyway, <1>Settle, <1>EndAttempt, <1>Cleaned,
     <1>Dispatch, <1>Write, <1>FinishWhole, <1>FinishFailed, <1>FinishUnknown,
     <1>BeginPause, <1>BeginStop, <1>PoolCancel, <1>CleanRemoves, <1>CleanGivesUp,
     <1>CleanFindsNoSession DEF Next, User, Unwind, Run, Cancel, Clean, Close
-----------------------------------------------------------------------------
(* No attempt has begun. *)
LEMMA InitIInv == Init => IInv
<1> SUFFICES ASSUME Init PROVE IInv
  OBVIOUS
<1>1. TypeOK
  BY StagingAssumption DEF Init, TypeOK, Places
<1>2. TriesCount
  BY DEF Init, TriesCount
<1>3. Own
  BY DEF Init, Own, Names, OneUser, Records, Cleanups, Done
<1>4. Sweeping
  BY DEF Init, Sweeping, HasPool
<1>5. QED
  BY <1>1, <1>2, <1>3, <1>4 DEF IInv

(* The invariant speaks of these variables only. *)
LEMMA StutterIInv == IInv /\ UNCHANGED vars => IInv'
<1> SUFFICES ASSUME IInv, UNCHANGED vars PROVE IInv'
  OBVIOUS
<1> USE DEF IInv, vars, rowVars, localVars, registry, poolVars, closeVars, server
<1>1. TypeOK'
  BY DEF TypeOK
<1>2. TriesCount'
  BY DEF TriesCount
<1>3. Own'
  BY DEF Own, Names, OneUser, Records, Cleanups, Target
<1>4. Sweeping'
  BY DEF Sweeping, HasPool
<1>5. QED
  BY <1>1, <1>2, <1>3, <1>4

(* The invariant holds always. *)
LEMMA StagingIInv == Spec => []IInv
<1>1. IInv /\ [Next]_vars => IInv'
  BY TypeStep, TriesStep, OwnStep, SweepingStep, StutterIInv DEF IInv
<1>2. QED
  BY InitIInv, <1>1, PTL DEF Spec

(* Every variable of the staging keeps its type; the marks never exceed    *)
(* MARK_CAP.                                                               *)
THEOREM StagingTypes == Spec => []TypeOK
<1>1. IInv => TypeOK
  BY DEF IInv
<1>2. QED
  BY <1>1, StagingIInv, PTL

(* Two tasks never work on one staging file: while an attempt may write    *)
(* it, no record a Stop could take has it, no cleanup or sweep removes it  *)
(* and no other attempt uses it, whatever Pause, Resume, Stop, a cleanup   *)
(* that outlasts its budget and a disconnect do in the meantime.           *)
THEOREM OneWriterAlways == Spec => []OneWriter
<1>1. IInv => OneWriter
  <2> SUFFICES ASSUME IInv, NEW a \in Attempts, pc[a] \in {"queued", "running", "writing"}
               PROVE  /\ cleanup[partial[a]] # "running"
                      /\ partial[a] \notin sweep
                      /\ \A t \in Targets : paused[t] # None => paused[t].file # partial[a]
                      /\ \A b \in Attempts \ {a} :
                           partial[b] = partial[a] => pc[b] \in {"unused", "returned", "over"}
    BY DEF OneWriter
  <2>1. pc[a] \notin Done \cup {"discarding", "cleaning"} /\ partial[a] \in Attempts
    BY DEF Done, IInv, TypeOK
  <2>2. cleanup[partial[a]] # "running"
    BY <2>1 DEF IInv, Own, Cleanups
  <2>3. partial[a] \notin sweep
    BY DEF IInv, Sweeping, HasPool
  <2>4. \A t \in Targets : paused[t] # None => paused[t].file # partial[a]
    BY <2>1 DEF IInv, Own, Records
  <2>5. \A b \in Attempts \ {a} : partial[b] = partial[a] => pc[b] \in Done
    BY <2>1 DEF IInv, Own, OneUser
  <2>6. QED
    BY <2>2, <2>3, <2>4, <2>5 DEF Done
<1>2. QED
  BY <1>1, StagingIInv, PTL
=============================================================================
