-------------------------- MODULE Network_proofs ----------------------------
(***************************************************************************)
(* The connections: a disconnect is final, an operation reads the replies  *)
(* to its own commands, a password stays with the host the user chose, an  *)
(* answer is true, blocks in flight together keep their places; for any    *)
(* number of calls, connections, sessions, blocks and losses.              *)
(***************************************************************************)
EXTENDS Sessions, FtpChannel, WebDavClient, SftpPipeline, Integers,
        FiniteSetTheorems, SequenceTheorems, TLAPS
-----------------------------------------------------------------------------
(* Sessions: the session registry *)
\* The stages in which a call has the lock of the slot it holds.
Inside == {"holding", "waiting", "restoring", "registered", "torn"}
Connecting == {"holding", "waiting", "restoring", "registered"}
After == {"torn", "leaving", "dropping", "rechecking", "removing", "done"}

StagesFit == \A c \in Calls :
    /\ IF callPc[c] = "new" THEN at[c] = NoCall ELSE kindOf[c] \in Kinds /\ idOf[c] \in Ids
    /\ callPc[c] \in {"restoring", "registered"} => kindOf[c] = "connect"
    /\ callPc[c] = "locking" => at[c] \in Calls

\* A call inside has the lock, and a lock is had by a call inside.
LocksAreHeld ==
    /\ \A c \in Calls : callPc[c] \in Inside => at[c] \in Calls /\ holder[at[c]] = c
    /\ \A s \in Calls : holder[s] # NoCall =>
            callPc[holder[s]] \in Inside /\ at[holder[s]] = s

\* A connect inside has closed what was in the slot, and nobody opens there.
NothingInTheWay == \A c \in Calls :
    kindOf[c] = "connect" /\ callPc[c] \in Connecting => occupant[at[c]] = NoCall

\* A slot's session is that of a connect which is past it.
OpenedBefore == \A s \in Calls : occupant[s] # NoCall =>
    kindOf[occupant[s]] = "connect" /\ callPc[occupant[s]] \in After

\* A live pool is the registered one; its slot is in the map and holds its
\* session, or the lock of the connect about to put it there.
PoolsAreReachable == \A c \in alive :
    /\ idOf[c] \in Ids /\ pools[idOf[c]] = c /\ slots[idOf[c]] \in Calls
    /\ \/ callPc[c] = "registered" /\ slots[idOf[c]] = at[c]
       \/ occupant[slots[idOf[c]]] = c

SlotsStay == \A c \in Calls : kindOf[c] = "connect" /\ at[c] # NoCall =>
    slots[idOf[c]] = at[c] \/ at[c] \in closed \/ callPc[c] = "dropping"

SessionsInv ==
    /\ SessionsTypeOK /\ StagesFit /\ LocksAreHeld /\ NothingInTheWay /\ OpenedBefore
    /\ PoolsAreReachable /\ SlotsStay
-----------------------------------------------------------------------------
(* The registry starts empty. *)
LEMMA SessionsInvInit == SessionsInit => SessionsInv
<1> SUFFICES ASSUME SessionsInit PROVE SessionsInv
  OBVIOUS
<1> USE DEF SessionsInit
<1>1. SessionsTypeOK
  BY DEF SessionsTypeOK
<1>2. StagesFit /\ LocksAreHeld /\ NothingInTheWay
  BY SessionsAssumption DEF StagesFit, LocksAreHeld, NothingInTheWay, Inside, Connecting, Kinds
<1>3. OpenedBefore /\ PoolsAreReachable /\ SlotsStay
  BY DEF OpenedBefore, PoolsAreReachable, SlotsStay
<1> QED
  BY <1>1, <1>2, <1>3 DEF SessionsInv

(* A command arrives. *)
LEMMA ArriveKeeps ==
  ASSUME SessionsInv, NEW c \in Calls, Arrive(c)
  PROVE  SessionsInv'
<1> USE SessionsAssumption
    DEF SessionsInv, SessionsTypeOK, Arrive, GoTo, callIs, registry, Kinds
<1>1. SessionsTypeOK'
  OBVIOUS
<1>2. StagesFit'
  BY DEF StagesFit
<1>3. LocksAreHeld'
  BY DEF LocksAreHeld, Inside
<1>4. NothingInTheWay'
  BY DEF NothingInTheWay, Connecting
<1>5. OpenedBefore'
  BY DEF OpenedBefore, After
<1>6. PoolsAreReachable'
  BY DEF PoolsAreReachable, OpenedBefore, After
<1>7. SlotsStay'
  BY DEF SlotsStay, StagesFit
<1> QED
  BY <1>1, <1>2, <1>3, <1>4, <1>5, <1>6, <1>7

(* A call takes the slot its map entry names, or a new one. *)
LEMMA TakeSlotKeeps ==
  ASSUME SessionsInv, NEW c \in Calls, TakeSlot(c)
  PROVE  SessionsInv'
<1> USE SessionsAssumption
    DEF SessionsInv, SessionsTypeOK, TakeSlot, GoTo, callIs, registry
<1>1. SessionsTypeOK'
  BY DEF StagesFit
<1>2. StagesFit'
  BY DEF StagesFit
<1>3. LocksAreHeld'
  BY DEF LocksAreHeld, Inside
<1>4. NothingInTheWay'
  BY DEF NothingInTheWay, Connecting
<1>5. OpenedBefore'
  BY DEF OpenedBefore, After
<1>6. PoolsAreReachable'
  BY DEF PoolsAreReachable
<1>7. SlotsStay'
  BY DEF SlotsStay
<1> QED
  BY <1>1, <1>2, <1>3, <1>4, <1>5, <1>6, <1>7

(* A call locks its slot, and closes what is there unless it is a browse call. *)
LEMMA LockSlotKeeps ==
  ASSUME SessionsInv, NEW c \in Calls, LockSlot(c)
  PROVE  SessionsInv'
<1> USE SessionsAssumption
    DEF SessionsInv, SessionsTypeOK, LockSlot, GoTo, callIs, registry, TearDown
<1>1. SessionsTypeOK'
  OBVIOUS
<1>2. StagesFit'
  BY DEF StagesFit
<1>3. LocksAreHeld'
  BY DEF LocksAreHeld, Inside, StagesFit
<1>4. NothingInTheWay'
  BY DEF NothingInTheWay, Connecting, LocksAreHeld, Inside, StagesFit
<1>5. OpenedBefore'
  BY DEF OpenedBefore, After
<1>6. PoolsAreReachable'
  BY DEF PoolsAreReachable
<1>7. SlotsStay'
  BY DEF SlotsStay
<1> QED
  BY <1>1, <1>2, <1>3, <1>4, <1>5, <1>6, <1>7

(* A call registers its token. *)
LEMMA StartWaitingKeeps ==
  ASSUME SessionsInv, NEW c \in Calls, StartWaiting(c)
  PROVE  SessionsInv'
<1> USE SessionsAssumption
    DEF SessionsInv, SessionsTypeOK, StartWaiting, GoTo, callIs, registry
<1>1. SessionsTypeOK'
  OBVIOUS
<1>2. StagesFit'
  BY DEF StagesFit
<1>3. LocksAreHeld'
  BY DEF LocksAreHeld, Inside
<1>4. NothingInTheWay'
  BY DEF NothingInTheWay, Connecting
<1>5. OpenedBefore'
  BY DEF OpenedBefore, After
<1>6. PoolsAreReachable'
  BY DEF PoolsAreReachable
<1>7. SlotsStay'
  BY DEF SlotsStay
<1> QED
  BY <1>1, <1>2, <1>3, <1>4, <1>5, <1>6, <1>7

(* The server has answered a connect. *)
LEMMA ConnectAnsweredKeeps ==
  ASSUME SessionsInv, NEW c \in Calls, ConnectAnswered(c)
  PROVE  SessionsInv'
<1> USE SessionsAssumption
    DEF SessionsInv, SessionsTypeOK, ConnectAnswered, GoTo, callIs, registry, FinishConnecting
<1>1. SessionsTypeOK'
  OBVIOUS
<1>2. StagesFit'
  BY DEF StagesFit
<1>3. LocksAreHeld'
  BY DEF LocksAreHeld, Inside
<1>4. NothingInTheWay'
  BY DEF NothingInTheWay, Connecting
<1>5. OpenedBefore'
  BY DEF OpenedBefore, After
<1>6. PoolsAreReachable'
  BY DEF PoolsAreReachable
<1>7. SlotsStay'
  BY DEF SlotsStay
<1> QED
  BY <1>1, <1>2, <1>3, <1>4, <1>5, <1>6, <1>7

(* The server has answered a browse call. *)
LEMMA BrowseAnsweredKeeps ==
  ASSUME SessionsInv, NEW c \in Calls, BrowseAnswered(c)
  PROVE  SessionsInv'
<1> USE SessionsAssumption
    DEF SessionsInv, SessionsTypeOK, BrowseAnswered, GoTo, callIs, registry, FinishConnecting,
        TearDown
<1>1. SessionsTypeOK'
  OBVIOUS
<1>2. StagesFit'
  BY DEF StagesFit
<1>3. LocksAreHeld'
  BY DEF LocksAreHeld, Inside
<1>4. NothingInTheWay'
  BY DEF NothingInTheWay, Connecting, LocksAreHeld, Inside
<1>5. OpenedBefore'
  BY DEF OpenedBefore, After
<1>6. PoolsAreReachable'
  BY DEF PoolsAreReachable
<1>7. SlotsStay'
  BY DEF SlotsStay
<1> QED
  BY <1>1, <1>2, <1>3, <1>4, <1>5, <1>6, <1>7

(* A pool is registered where the lock is had and nothing is in the way. *)
LEMMA RegisterPoolKeeps ==
  ASSUME SessionsInv, NEW c \in Calls, RegisterPool(c)
  PROVE  SessionsInv'
<1> USE SessionsAssumption
    DEF SessionsInv, SessionsTypeOK, RegisterPool, GoTo, callIs, registry
<1>1. SessionsTypeOK'
  OBVIOUS
<1>2. StagesFit'
  BY DEF StagesFit
<1>3. LocksAreHeld'
  BY DEF LocksAreHeld, Inside
<1>4. NothingInTheWay'
  BY DEF NothingInTheWay, Connecting
<1>5. OpenedBefore'
  BY DEF OpenedBefore, After
<1>6. PoolsAreReachable'
  BY DEF PoolsAreReachable, NothingInTheWay, LocksAreHeld, Inside, Connecting, StagesFit
<1>7. SlotsStay'
  BY DEF SlotsStay
<1> QED
  BY <1>1, <1>2, <1>3, <1>4, <1>5, <1>6, <1>7

(* The session follows its pool into the slot. *)
LEMMA OpenSessionInKeeps ==
  ASSUME SessionsInv, NEW c \in Calls, OpenSessionIn(c)
  PROVE  SessionsInv'
<1> USE SessionsAssumption
    DEF SessionsInv, SessionsTypeOK, OpenSessionIn, GoTo, callIs, registry
<1>1. SessionsTypeOK'
  OBVIOUS
<1>2. StagesFit'
  BY DEF StagesFit
<1>3. LocksAreHeld'
  BY DEF LocksAreHeld, Inside
<1>4. NothingInTheWay'
  BY DEF NothingInTheWay, Connecting, LocksAreHeld, Inside
<1>5. OpenedBefore'
  BY DEF OpenedBefore, After, StagesFit
<1>6. PoolsAreReachable'
  BY DEF PoolsAreReachable, NothingInTheWay, LocksAreHeld, Inside, Connecting, StagesFit
<1>7. SlotsStay'
  BY DEF SlotsStay
<1> QED
  BY <1>1, <1>2, <1>3, <1>4, <1>5, <1>6, <1>7

(* The lock is given back. *)
LEMMA UnlockKeeps ==
  ASSUME SessionsInv, NEW c \in Calls, Unlock(c)
  PROVE  SessionsInv'
<1> USE SessionsAssumption
    DEF SessionsInv, SessionsTypeOK, Unlock, GoTo, callIs, registry
<1>1. SessionsTypeOK'
  OBVIOUS
<1>2. StagesFit'
  BY DEF StagesFit
<1>3. LocksAreHeld'
  BY DEF LocksAreHeld, Inside
<1>4. NothingInTheWay'
  BY DEF NothingInTheWay, Connecting
<1>5. OpenedBefore'
  BY DEF OpenedBefore, After
<1>6. PoolsAreReachable'
  BY DEF PoolsAreReachable
<1>7. SlotsStay'
  BY DEF SlotsStay
<1> QED
  BY <1>1, <1>2, <1>3, <1>4, <1>5, <1>6, <1>7

(* A removal that asks first takes no slot from anybody. *)
LEMMA AskRemovalKeeps ==
  ASSUME SessionsInv, NEW c \in Calls, AskRemoval(c)
  PROVE  SessionsInv'
<1> USE SessionsAssumption
    DEF SessionsInv, SessionsTypeOK, AskRemoval, GoTo, callIs, registry, RemoveIfEmpty, Users
<1>1. SessionsTypeOK'
  OBVIOUS
<1>2. StagesFit'
  BY DEF StagesFit
<1>3. LocksAreHeld'
  BY DEF LocksAreHeld, Inside
<1>4. NothingInTheWay'
  BY DEF NothingInTheWay, Connecting
<1>5. OpenedBefore'
  BY DEF OpenedBefore, After
<1>6. PoolsAreReachable'
  BY DEF PoolsAreReachable
<1>7. SlotsStay'
  BY DEF SlotsStay, StagesFit
<1> QED
  BY <1>1, <1>2, <1>3, <1>4, <1>5, <1>6, <1>7

(* A call lets its slot go. *)
LEMMA DropSlotKeeps ==
  ASSUME SessionsInv, NEW c \in Calls, DropSlot(c)
  PROVE  SessionsInv'
<1> USE SessionsAssumption
    DEF SessionsInv, SessionsTypeOK, DropSlot, GoTo, callIs, registry, LetGo, Users
<1>1. SessionsTypeOK'
  OBVIOUS
<1>2. StagesFit'
  BY DEF StagesFit
<1>3. LocksAreHeld'
  BY DEF LocksAreHeld, Inside
<1>4. NothingInTheWay'
  BY DEF NothingInTheWay, Connecting, LocksAreHeld, Inside
<1>5. OpenedBefore'
  BY DEF OpenedBefore, After
<1>6. PoolsAreReachable'
  BY DEF PoolsAreReachable
<1>7. SlotsStay'
  BY DEF SlotsStay
<1> QED
  BY <1>1, <1>2, <1>3, <1>4, <1>5, <1>6, <1>7

(* A connect looks its slot up again. *)
LEMMA RecheckKeeps ==
  ASSUME SessionsInv, NEW c \in Calls, Recheck(c)
  PROVE  SessionsInv'
<1> USE SessionsAssumption
    DEF SessionsInv, SessionsTypeOK, Recheck, GoTo, callIs, registry
<1>1. SessionsTypeOK'
  BY DEF StagesFit
<1>2. StagesFit'
  BY DEF StagesFit
<1>3. LocksAreHeld'
  BY DEF LocksAreHeld, Inside
<1>4. NothingInTheWay'
  BY DEF NothingInTheWay, Connecting
<1>5. OpenedBefore'
  BY DEF OpenedBefore, After
<1>6. PoolsAreReachable'
  BY DEF PoolsAreReachable
<1>7. SlotsStay'
  BY DEF SlotsStay
<1> QED
  BY <1>1, <1>2, <1>3, <1>4, <1>5, <1>6, <1>7

(* A removal after the second look takes no slot from anybody. *)
LEMMA RecheckedRemovalKeeps ==
  ASSUME SessionsInv, NEW c \in Calls, RecheckedRemoval(c)
  PROVE  SessionsInv'
<1> USE SessionsAssumption
    DEF SessionsInv, SessionsTypeOK, RecheckedRemoval, GoTo, callIs, registry, RemoveIfEmpty,
        LetGo, Users
<1>1. SessionsTypeOK'
  OBVIOUS
<1>2. StagesFit'
  BY DEF StagesFit
<1>3. LocksAreHeld'
  BY DEF LocksAreHeld, Inside
<1>4. NothingInTheWay'
  BY DEF NothingInTheWay, Connecting, LocksAreHeld, Inside
<1>5. OpenedBefore'
  BY DEF OpenedBefore, After
<1>6. PoolsAreReachable'
  BY DEF PoolsAreReachable
<1>7. SlotsStay'
  BY DEF SlotsStay, StagesFit
<1> QED
  BY <1>1, <1>2, <1>3, <1>4, <1>5, <1>6, <1>7

(* A token is cancelled. *)
LEMMA CancelTokenKeeps ==
  ASSUME SessionsInv, NEW c \in Calls, CancelToken(c)
  PROVE  SessionsInv'
<1> USE SessionsAssumption
    DEF SessionsInv, SessionsTypeOK, CancelToken, GoTo, callIs, registry
<1>1. SessionsTypeOK'
  BY DEF StagesFit
<1>2. StagesFit'
  BY DEF StagesFit
<1>3. LocksAreHeld'
  BY DEF LocksAreHeld, Inside
<1>4. NothingInTheWay'
  BY DEF NothingInTheWay, Connecting
<1>5. OpenedBefore'
  BY DEF OpenedBefore, After
<1>6. PoolsAreReachable'
  BY DEF PoolsAreReachable
<1>7. SlotsStay'
  BY DEF SlotsStay
<1> QED
  BY <1>1, <1>2, <1>3, <1>4, <1>5, <1>6, <1>7

(* A disconnect takes slot and pool out together. *)
LEMMA TakeOutKeeps ==
  ASSUME SessionsInv, NEW c \in Calls, TakeOut(c)
  PROVE  SessionsInv'
<1> USE SessionsAssumption
    DEF SessionsInv, SessionsTypeOK, TakeOut, GoTo, callIs, registry
<1>1. SessionsTypeOK'
  BY DEF StagesFit
<1>2. StagesFit'
  BY DEF StagesFit
<1>3. LocksAreHeld'
  BY DEF LocksAreHeld, Inside
<1>4. NothingInTheWay'
  BY DEF NothingInTheWay, Connecting
<1>5. OpenedBefore'
  BY DEF OpenedBefore, After
<1>6. PoolsAreReachable'
  BY DEF PoolsAreReachable
<1>7. SlotsStay'
  BY DEF SlotsStay
<1> QED
  BY <1>1, <1>2, <1>3, <1>4, <1>5, <1>6, <1>7

(* A disconnect stops waiting for the lock. *)
LEMMA DetachKeeps ==
  ASSUME SessionsInv, NEW c \in Calls, Detach(c)
  PROVE  SessionsInv'
<1> USE SessionsAssumption
    DEF SessionsInv, SessionsTypeOK, Detach, GoTo, callIs, registry
<1>1. SessionsTypeOK'
  OBVIOUS
<1>2. StagesFit'
  BY DEF StagesFit
<1>3. LocksAreHeld'
  BY DEF LocksAreHeld, Inside
<1>4. NothingInTheWay'
  BY DEF NothingInTheWay, Connecting
<1>5. OpenedBefore'
  BY DEF OpenedBefore, After
<1>6. PoolsAreReachable'
  BY DEF PoolsAreReachable
<1>7. SlotsStay'
  BY DEF SlotsStay
<1> QED
  BY <1>1, <1>2, <1>3, <1>4, <1>5, <1>6, <1>7

(* Every step keeps the invariant. *)
LEMMA SessionsInvStep ==
  ASSUME SessionsInv, [SessionsNext]_sessionsVars
  PROVE  SessionsInv'
<1>1. CASE UNCHANGED sessionsVars
  BY <1>1 DEF sessionsVars, SessionsInv, SessionsTypeOK, StagesFit, LocksAreHeld, Inside,
              NothingInTheWay, Connecting, OpenedBefore, After, PoolsAreReachable, SlotsStay
<1>2. CASE SessionsNext
  BY <1>2, ArriveKeeps, TakeSlotKeeps, LockSlotKeeps, StartWaitingKeeps, ConnectAnsweredKeeps,
     BrowseAnsweredKeeps, RegisterPoolKeeps, OpenSessionInKeeps, UnlockKeeps, AskRemovalKeeps,
     DropSlotKeeps, RecheckKeeps, RecheckedRemovalKeeps, CancelTokenKeeps, TakeOutKeeps,
     DetachKeeps DEF SessionsNext
<1> QED
  BY <1>1, <1>2

(* A live pool is reachable and a connect's slot stays: no disconnect      *)
(* misses a pool (DisconnectIsFinal).                                      *)
LEMMA SessionsInvImplies == SessionsInv => DisconnectIsFinal
<1> SUFFICES ASSUME SessionsInv PROVE DisconnectIsFinal
  OBVIOUS
<1>1. ASSUME NEW c \in alive
      PROVE  pools[idOf[c]] = c /\
             slots[idOf[c]] \in {at[c]} \cup {s \in Calls : occupant[s] = c}
  BY <1>1 DEF SessionsInv, PoolsAreReachable
<1> QED
  BY <1>1 DEF SessionsInv, SlotsStay, DisconnectIsFinal

(* Whatever connects, browse calls, cancels and disconnects overlap, a     *)
(* pool that takes transfers can be found by the next disconnect, and the  *)
(* slot of a waiting connect leaves the map by a disconnect only           *)
(* (Sessions::register_pool, remove, remove_if_empty).                     *)
THEOREM DisconnectsAreFinal == SessionsSpec => []DisconnectIsFinal
<1>1. SessionsInv /\ [SessionsNext]_sessionsVars => SessionsInv'
  BY SessionsInvStep
<1> QED
  BY <1>1, SessionsInvInit, SessionsInvImplies, PTL DEF SessionsSpec
-----------------------------------------------------------------------------
(* FtpChannel: the control connection of a file transfer *)
\* The steps of an operation that has the lock.
Holding == {"send", "answer", "inside", "restored", "port", "connect", "opened", "data",
            "settled", "verdict"}

\* The types of the variables.
ChannelTypes ==
    /\ fNo \in Nat /\ fWire \in Seq(Nat) /\ fPc \in {"none", "lock"} \cup Holding
    /\ fOffset \in 0 .. 1

\* The lock has one holder, and who reads holds it.
LockIsHeld ==
    /\ fPc \in Holding <=> fLock = "operation"
    /\ fAlive = "noop" <=> fLock = "alive"

\* There is one reply on the way to who reads next, and none to anybody else.
WireIsRead ==
    fWire = IF fPc \in (Holding \ {"send", "connect"}) THEN <<fNo>>
            ELSE IF fAlive = "noop" THEN <<0>> ELSE <<>>

\* What the steps tell of the operation.
StepsTellKind ==
    /\ fOffset = 1 => fKind = "get"
    /\ fPc = "answer" => fKind # "put"
    /\ fPc \in {"inside", "restored"} => fKind = "mkdir"

\* A transfer that succeeded began where it was to.
SuccessStartsRight ==
    fEnded = "ok" /\ fPc = "none" /\ fKind \in {"get", "put"} => fStart = fOffset

(* The inductive invariant: who holds the lock is owed the one reply there is. *)
ChannelInv == ChannelTypes /\ LockIsHeld /\ WireIsRead /\ StepsTellKind /\ SuccessStartsRight

\* At most one reply is on the way.
LEMMA ShortWires == <<>> \in Seq(Nat) /\ \A n \in Nat : <<n>> \in Seq(Nat)
OBVIOUS

\* No connection, nothing on the way.
LEMMA ChannelInit == FtpInit => ChannelInv
BY DEF FtpInit, ChannelInv, ChannelTypes, LockIsHeld, WireIsRead, StepsTellKind,
       SuccessStartsRight,
   Holding

\* An operation ends: nothing is on the way, whatever the result.
LEMMA EndsChannel ==
  ASSUME ChannelInv, fPc \in Holding, NEW result,
         \/ result = "failed" /\ End(result)
         \/ fPc \in Reading /\ ReadAndEnd(result),
         result = "ok" /\ fKind \in {"get", "put"} => fStart = fOffset
  PROVE  ChannelInv'
<1>1. EndOperation(result) /\ fStart' = fStart
  BY DEF End, ReadAndEnd
<1>2. /\ fPc' = "none" /\ fLock' = "none" /\ fEnded' = result
      /\ UNCHANGED <<fNo, fKind, fOffset, fAlive>>
  BY <1>1 DEF EndOperation
<1>3. fLock = "operation" /\ fAlive # "noop"
  BY DEF ChannelInv, LockIsHeld
<1>4. fWire' = <<>>
  <2>1. CASE fPc \in Reading /\ ReadAndEnd(result)
    <3>1. fWire = <<fNo>>
      BY <2>1 DEF ChannelInv, WireIsRead, Reading, Holding
    <3>2. Tail(fWire) = <<>>
      BY <3>1
    <3> QED BY <2>1, <3>2 DEF ReadAndEnd, AfterDrop
  <2>2. CASE result = "failed" /\ End(result)
    <3>1. fWire \in {<<fNo>>, <<>>}
      BY <1>3 DEF ChannelInv, WireIsRead
    <3> QED BY <2>2, <3>1 DEF End, AfterDrop, Reusable
  <2> QED BY <2>1, <2>2
<1>5. ChannelTypes'
  BY <1>2, <1>4 DEF ChannelInv, ChannelTypes
<1>6. LockIsHeld' /\ WireIsRead'
  BY <1>2, <1>3, <1>4 DEF LockIsHeld, WireIsRead, Holding
<1>7. StepsTellKind' /\ SuccessStartsRight'
  BY <1>1, <1>2 DEF ChannelInv, StepsTellKind, SuccessStartsRight
<1> QED BY <1>5, <1>6, <1>7 DEF ChannelInv

\* A reply is read and the operation goes on.
LEMMA GoesOn ==
  ASSUME ChannelInv, fPc \in Reading, NEW step \in Holding, NEW more, ReadAndGo(step, more),
         IF step \in {"send", "connect"} THEN more = <<>> ELSE more = <<fNo>>,
         step = "answer" => fKind # "put",
         step \in {"inside", "restored"} => fKind = "mkdir"
  PROVE  ChannelInv'
<1>1. /\ fPc' = step /\ fWire' = Tail(fWire) \o more
      /\ UNCHANGED <<fLock, fAlive, fNo, fKind, fOffset, fEnded>>
  BY DEF ReadAndGo
<1>2. fWire = <<fNo>>
  BY DEF ChannelInv, WireIsRead, Reading, Holding
<1>3. fWire' = more
  <2>1. Tail(fWire) = <<>>
    BY <1>2
  <2>2. CASE more = <<>>
    BY <1>1, <2>1, <2>2
  <2>3. CASE more = <<fNo>>
    <3>1. <<>> \o <<fNo>> = <<fNo>>
      OBVIOUS
    <3> QED BY <1>1, <2>1, <2>3, <3>1
  <2> QED BY <2>2, <2>3
<1>4. fPc \in Holding /\ fLock = "operation" /\ fAlive # "noop"
  BY DEF ChannelInv, LockIsHeld, Reading, Holding
<1>5. ChannelTypes'
  <2>1. more \in Seq(Nat)
    BY ShortWires DEF ChannelInv, ChannelTypes
  <2> QED BY <1>1, <1>3, <2>1 DEF ChannelInv, ChannelTypes
<1>6. LockIsHeld' /\ WireIsRead'
  BY <1>1, <1>3, <1>4 DEF ChannelInv, LockIsHeld, WireIsRead, Holding
<1>7. StepsTellKind' /\ SuccessStartsRight'
  BY <1>1 DEF ChannelInv, StepsTellKind, SuccessStartsRight, Holding
<1> QED BY <1>5, <1>6, <1>7 DEF ChannelInv

\* A command goes out.
LEMMA SendsOut ==
  ASSUME ChannelInv, fPc \in {"send", "connect"}, NEW step \in Reading, Send(step),
         step = "answer" => fKind # "put",
         step \notin {"inside", "restored"}
  PROVE  ChannelInv'
<1>1. /\ fPc' = step /\ fWire' = Append(fWire, fNo)
      /\ UNCHANGED <<fLock, fAlive, fNo, fKind, fOffset, fEnded>>
  BY DEF Send
<1>2. fLock = "operation" /\ fAlive # "noop"
  BY DEF ChannelInv, LockIsHeld, Holding
<1>3. fWire' = <<fNo>>
  BY <1>1, <1>2 DEF ChannelInv, WireIsRead
<1>4. ChannelTypes'
  BY <1>1, <1>3 DEF ChannelInv, ChannelTypes, Reading, Holding
<1>5. LockIsHeld' /\ WireIsRead'
  BY <1>1, <1>2, <1>3 DEF ChannelInv, LockIsHeld, WireIsRead, Reading, Holding
<1>6. StepsTellKind' /\ SuccessStartsRight'
  BY <1>1 DEF ChannelInv, StepsTellKind, SuccessStartsRight, Reading
<1> QED BY <1>4, <1>5, <1>6 DEF ChannelInv

\* The connection and the keep-alive.
LEMMA BesideOperations ==
  ASSUME ChannelInv,
         \/ Open \/ DisconnectFtp
         \/ AliveTicks \/ AliveLocks \/ AliveAnswered \/ AliveFails
  PROVE  ChannelInv'
<1>1. UNCHANGED <<fNo, fKind, fOffset, fPc, fStart, fEnded>>
  BY DEF Open, DisconnectFtp, AliveTicks, AliveLocks, AliveAnswered, AliveFails, opVars, serverVars
<1>2. StepsTellKind' /\ SuccessStartsRight'
  BY <1>1 DEF ChannelInv, StepsTellKind, SuccessStartsRight
<1>3. CASE Open \/ DisconnectFtp
  <2>1. fPc = "none" /\ fWire' = <<>> /\ fLock' = "none" /\ fAlive' # "noop"
    BY <1>3 DEF Open, DisconnectFtp
  <2> QED BY <1>1, <1>2, <2>1 DEF ChannelInv, ChannelTypes, LockIsHeld, WireIsRead, Holding
<1>4. CASE AliveTicks
  <2>1. fAlive = "sleeping" /\ fAlive' = "waiting" /\ UNCHANGED <<fWire, fLock>>
    BY <1>4 DEF AliveTicks, serverVars
  <2> QED BY <1>1, <1>2, <2>1 DEF ChannelInv, ChannelTypes, LockIsHeld, WireIsRead
<1>5. CASE AliveLocks
  <2>1. fLock = "none" /\ fAlive = "waiting"
    BY <1>5 DEF AliveLocks
  <2>2. fPc \notin Holding /\ fWire = <<>>
    BY <2>1 DEF ChannelInv, LockIsHeld, WireIsRead
  <2>3. \/ fLock' = "alive" /\ fAlive' = "noop" /\ fWire' = <<0>>
        \/ fAlive' = "off" /\ UNCHANGED <<fLock, fWire>>
    BY <1>5, <2>2 DEF AliveLocks
  <2>4. fWire' \in Seq(Nat)
    BY <2>3, ShortWires DEF ChannelInv, ChannelTypes
  <2> QED BY <1>1, <1>2, <2>1, <2>2, <2>3, <2>4 DEF ChannelInv, ChannelTypes, LockIsHeld,
      WireIsRead
<1>6. CASE AliveAnswered \/ AliveFails
  <2>1. fAlive = "noop" /\ fLock' = "none" /\ fAlive' # "noop" /\ fWire' \in {Tail(fWire), <<>>}
    BY <1>6 DEF AliveAnswered, AliveFails
  <2>2. fPc \notin Holding /\ fWire = <<0>>
    BY <2>1 DEF ChannelInv, LockIsHeld, WireIsRead
  <2>3. Tail(fWire) = <<>>
    BY <2>2
  <2>4. fWire' = <<>>
    BY <2>1, <2>3
  <2>5. ChannelTypes'
    BY <1>1, <2>4, ShortWires DEF ChannelInv, ChannelTypes
  <2>6. LockIsHeld' /\ WireIsRead'
    BY <1>1, <2>1, <2>2, <2>4 DEF LockIsHeld, WireIsRead, Holding
  <2> QED BY <1>2, <2>5, <2>6 DEF ChannelInv
<1> QED BY <1>3, <1>4, <1>5, <1>6

\* An operation waits for the lock, goes on, or is dropped by its caller.
LEMMA BeginsAndDrops ==
  ASSUME ChannelInv, BeginOperation \/ TakeLock \/ Dropped \/ Transferred
  PROVE  ChannelInv'
<1>1. CASE BeginOperation
  <2>1. /\ fPc = "none" /\ fPc' = "lock" /\ fNo' = fNo + 1 /\ fOffset' \in 0 .. 1
        /\ fOffset' = 1 => fKind' = "get"
        /\ UNCHANGED <<fWire, fLock, fAlive>>
    BY <1>1 DEF BeginOperation, serverVars
  <2> QED BY <2>1 DEF ChannelInv, ChannelTypes, LockIsHeld, WireIsRead, StepsTellKind,
                      SuccessStartsRight, Holding
<1>2. CASE TakeLock
  <2>1. fPc = "lock" /\ fLock = "none" /\ fAlive # "noop" /\ fWire = <<>>
    BY <1>2 DEF TakeLock, ChannelInv, LockIsHeld, WireIsRead, Holding
  <2>2. CASE End("failed")
    <3>1. fPc' = "none" /\ fLock' = "none" /\ fEnded' = "failed" /\ fWire' = <<>>
          /\ UNCHANGED <<fNo, fKind, fOffset, fAlive>>
      BY <2>2, <2>1 DEF End, EndOperation, AfterDrop, Reusable
    <3> QED BY <2>1, <3>1 DEF ChannelInv, ChannelTypes, LockIsHeld, WireIsRead, StepsTellKind,
                        SuccessStartsRight, Holding
  <2>3. CASE /\ fLock' = "operation" /\ fPc' = "send"
             /\ UNCHANGED <<fWire, fAlive, fNo, fKind, fOffset, fEnded>>
    BY <2>1, <2>3 DEF ChannelInv, ChannelTypes, LockIsHeld, WireIsRead, StepsTellKind,
                        SuccessStartsRight, Holding
  <2> QED BY <1>2, <2>2, <2>3 DEF TakeLock, serverVars
<1>3. CASE Dropped
  <2>1. CASE fPc \in (Steps \ {"none", "lock"}) /\ End("failed")
    <3>1. fPc \in Holding
      BY <2>1 DEF ChannelInv, ChannelTypes
    <3> QED BY <2>1, <3>1, EndsChannel
  <2>2. CASE /\ fPc = "lock" /\ fPc' = "none" /\ fEnded' = "failed"
             /\ UNCHANGED <<fWire, fLock, fAlive, fNo, fKind, fOffset>>
    BY <2>2 DEF ChannelInv, ChannelTypes, LockIsHeld, WireIsRead, StepsTellKind,
                        SuccessStartsRight, Holding
  <2> QED BY <1>3, <2>1, <2>2 DEF Dropped, serverVars
<1>4. CASE Transferred
  <2>1. /\ fPc = "data" /\ fPc' \in {"settled", "verdict"}
        /\ UNCHANGED <<fWire, fLock, fAlive, fNo, fKind, fOffset, fEnded>>
    BY <1>4 DEF Transferred, serverVars
  <2> QED BY <2>1 DEF ChannelInv, ChannelTypes, LockIsHeld, WireIsRead, StepsTellKind,
                        SuccessStartsRight, Holding
<1> QED BY <1>1, <1>2, <1>3, <1>4

\* The operations that are one reply after another.
LEMMA Commands ==
  ASSUME ChannelInv,
         \/ FirstCommand \/ CommandAnswered \/ Positioned \/ Entered \/ Restored
         \/ PortAnswered \/ OpenData \/ Verdict \/ Broken
  PROVE  ChannelInv'
<1>0. fNo \in Nat /\ fOffset \in 0 .. 1 /\ (fOffset = 1 => fKind = "get")
      /\ (fPc = "answer" => fKind # "put") /\ (fPc \in {"inside", "restored"} => fKind = "mkdir")
  BY DEF ChannelInv, ChannelTypes, StepsTellKind
<1>1. CASE FirstCommand \/ OpenData
  <2>1. PICK step \in {"answer", "opened", "port"} :
            Send(step) /\ (step = "answer" => fKind # "put") /\ fPc \in {"send", "connect"}
    BY <1>1, <1>0 DEF FirstCommand, OpenData, Transfers
  <2> QED BY <2>1, SendsOut DEF Reading
<1>2. CASE CommandAnswered
  <2>1. fPc \in Reading /\ fPc \in Holding /\ fKind # "get" /\ fKind # "put"
    BY <1>2, <1>0 DEF CommandAnswered, Reading, Holding
  <2>2. CASE \E result \in {"ok", "refused"} : ReadAndEnd(result)
    BY <2>1, <2>2, EndsChannel
  <2>3. CASE fKind = "mkdir" /\ ReadAndGo("inside", <<fNo>>)
    BY <2>1, <2>3, GoesOn DEF Holding
  <2>4. CASE ReadAndGo("send", <<>>)
    BY <2>1, <2>4, GoesOn DEF Holding
  <2> QED BY <1>2, <2>2, <2>3, <2>4 DEF CommandAnswered
<1>3. CASE Positioned
  <2>1. fPc \in Reading /\ fPc \in Holding
    BY <1>3 DEF Positioned, Reading, Holding
  <2>2. CASE ReadAndEnd("refused")
    BY <2>1, <2>2, EndsChannel
  <2>3. CASE \E step \in {"opened", "port"} : ReadAndGo(step, <<fNo>>)
    BY <2>1, <2>3, GoesOn DEF Holding
  <2> QED BY <1>3, <2>2, <2>3 DEF Positioned
<1>4. CASE Entered
  <2>1. fPc \in Reading /\ fPc \in Holding /\ fKind = "mkdir" /\ ReadAndGo("restored", <<fNo>>)
    BY <1>4, <1>0 DEF Entered, Reading, Holding
  <2> QED BY <2>1, GoesOn DEF Holding
<1>5. CASE Restored
  <2>1. fPc \in Reading /\ fPc \in Holding /\ fKind = "mkdir"
    BY <1>5, <1>0 DEF Restored, Reading, Holding
  <2>2. PICK result : ReadAndEnd(result)
    BY <1>5 DEF Restored
  <2> QED BY <2>1, <2>2, EndsChannel
<1>6. CASE PortAnswered
  <2>1. fPc \in Reading /\ fPc \in Holding
    BY <1>6 DEF PortAnswered, Reading, Holding
  <2>2. CASE ReadAndEnd("refused")
    BY <2>1, <2>2, EndsChannel
  <2>3. CASE ReadAndGo("connect", <<>>)
    BY <2>1, <2>3, GoesOn DEF Holding
  <2>4. CASE ReadAndGo("port", <<fNo>>)
    BY <2>1, <2>4, GoesOn DEF Holding
  <2> QED BY <1>6, <2>2, <2>3, <2>4 DEF PortAnswered
<1>7. CASE Verdict
  <2>1. fPc \in Reading /\ fPc \in Holding
    BY <1>7 DEF Verdict, Reading, Holding
  <2>2. \E result \in {"refused", "failed"} : ReadAndEnd(result)
    BY <1>7 DEF Verdict
  <2> QED BY <2>1, <2>2, EndsChannel
<1>8. CASE Broken
  <2>1. fPc \in Holding
    BY <1>8 DEF Broken, ChannelInv, ChannelTypes
  <2> QED BY <1>8, <2>1, EndsChannel DEF Broken
<1> QED BY <1>1, <1>2, <1>3, <1>4, <1>5, <1>6, <1>7, <1>8

\* A transfer's command is answered, and its verdict: a success began where it
\* should, as the length is looked at.
LEMMA TransferAnswers ==
  ASSUME SizeAnswered, ChannelInv, Opened \/ Settled
  PROVE  ChannelInv'
<1>1. CASE Opened
  <2>1. fPc = "opened" /\ fPc \in Reading /\ fPc \in Holding
    BY <1>1 DEF Opened, Reading, Holding
  <2>2. CASE ReadAndGo("data", <<fNo>>)
    BY <2>1, <2>2, GoesOn DEF Holding
  <2>3. CASE EndOperation("refused") /\ fWire' = Tail(fWire)
    <3>1. fWire = <<fNo>>
      BY <2>1 DEF ChannelInv, WireIsRead, Holding
    <3>2. Tail(fWire) = <<>>
      BY <3>1
    <3>3. /\ fWire' = <<>> /\ fPc' = "none" /\ fLock' = "none" /\ fEnded' = "refused"
          /\ UNCHANGED <<fAlive, fNo, fKind, fOffset>>
      BY <2>3, <3>2 DEF EndOperation
    <3>4. fAlive # "noop"
      BY <2>1 DEF ChannelInv, LockIsHeld
    <3>5. ChannelTypes'
      BY <3>3, ShortWires DEF ChannelInv, ChannelTypes
    <3>6. LockIsHeld' /\ WireIsRead'
      BY <3>3, <3>4 DEF LockIsHeld, WireIsRead, Holding
    <3>7. StepsTellKind' /\ SuccessStartsRight'
      BY <3>3 DEF ChannelInv, StepsTellKind, SuccessStartsRight
    <3> QED BY <3>5, <3>6, <3>7 DEF ChannelInv
  <2> QED BY <1>1, <2>2, <2>3 DEF Opened
<1>2. CASE Settled
  <2>1. fPc \in Reading /\ fPc \in Holding
    BY <1>2 DEF Settled, Reading, Holding
  <2>2. \/ ReadAndEnd("refused") \/ ReadAndEnd("wrong")
        \/ ~LengthIsWrong /\ ReadAndEnd("ok")
    BY <1>2 DEF Settled
  <2>3. ~LengthIsWrong /\ fKind \in {"get", "put"} => fStart = fOffset
    BY DEF LengthIsWrong
  <2> QED BY <2>1, <2>2, <2>3, EndsChannel
<1> QED BY <1>1, <1>2

(* Every step of an operation, the keep-alive and the server keeps it. *)
LEMMA ChannelInvStep ==
  ASSUME SizeAnswered, ChannelInv, [FtpNext]_ftpVars
  PROVE  ChannelInv'
<1>1. CASE UNCHANGED ftpVars
  BY <1>1 DEF ftpVars, serverVars, opVars, ChannelInv, ChannelTypes, LockIsHeld, WireIsRead,
     StepsTellKind, SuccessStartsRight
<1> QED BY <1>1, BesideOperations, BeginsAndDrops, Commands, TransferAnswers DEF FtpNext

(* What an operation reads is the reply to its own command, and a transfer     *)
(* that succeeds began at the offset it was given: for any number of           *)
(* operations, connections, broken and dropped transfers and keep-alives, with *)
(* a server that tells the size of a file (ftp.rs, StreamOperation).           *)
THEOREM RepliesFindTheirOperation == ASSUME SizeAnswered PROVE FtpSpec => []OperationsStayApart
<1>1. ChannelInv => OperationsStayApart
  <2> SUFFICES ASSUME ChannelInv PROVE OperationsStayApart
    OBVIOUS
  <2>1. fPc \in Reading => fWire = <<fNo>>
    BY DEF ChannelInv, WireIsRead, Reading, Holding
  <2>2. fAlive = "noop" => fWire = <<0>>
    BY DEF ChannelInv, WireIsRead, LockIsHeld
  <2> QED BY <2>1, <2>2 DEF OperationsStayApart, ChannelInv, SuccessStartsRight
<1>2. ChannelInv /\ [FtpNext]_ftpVars => ChannelInv'
  BY ChannelInvStep
<1> QED BY <1>1, <1>2, ChannelInit, PTL DEF FtpSpec
-----------------------------------------------------------------------------
(* WebDavClient: where the password goes, and what an answer means *)
\* What the connection is: the address stays with the host, and the password is
\* sent only where it may be.
ConnectionInv ==
    /\ address \in DavAddresses /\ address.home
    /\ probing \in [has : BOOLEAN, allowed : BOOLEAN, upgraded : BOOLEAN, send : BOOLEAN]
    /\ probing.send /\ probing.has => address.secure \/ probing.allowed
    /\ PasswordStaysWithItsHost

\* Requests that are not redirected leave the connection alone.
LEMMA ConnectionStays ==
  ASSUME DavNext
  PROVE  Probe \/ Redirected \/ UNCHANGED <<address, probing, carried>>
<1>1. Begins => UNCHANGED <<address, probing, carried>>
  BY DEF Begins, DavBegin, Quiet
<1>2. MakeCollection \/ CreateFile \/ SendDelete \/ SendMove \/ SetsAside \/ SendUpload \/ List =>
        UNCHANGED <<address, probing, carried>>
  BY DEF MakeCollection, CreateFile, SendDelete, SendMove, SetsAside, SendUpload, List, Quiet
<1>3. LookMade \/ LookBeforeCreate \/ LookNew \/ LookOld \/ CheckSize \/ OtherClient =>
        UNCHANGED <<address, probing, carried>>
  BY DEF LookMade, LookBeforeCreate, LookNew, LookOld, CheckSize, OtherClient, Still, Quiet
<1> QED BY <1>1, <1>2, <1>3 DEF DavNext

\* A connection is to the address the user typed, before any request.
LEMMA ConnectionInit == DavInit => ConnectionInv
<1> SUFFICES ASSUME DavInit PROVE ConnectionInv
  OBVIOUS
<1>1. address \in DavAddresses /\ address.home /\ address.secure \in BOOLEAN /\ carried = {}
  BY DEF DavInit, DavAddresses
<1>2. PICK h \in BOOLEAN, a \in BOOLEAN :
        probing = [has |-> h, allowed |-> a, upgraded |-> FALSE,
                   send |-> address.secure \/ a \/ ~h]
  BY DEF DavInit
<1>3. /\ probing.has = h /\ probing.allowed = a /\ probing.send = (address.secure \/ a \/ ~h)
      /\ probing \in [has : BOOLEAN, allowed : BOOLEAN, upgraded : BOOLEAN, send : BOOLEAN]
  BY <1>1, <1>2
<1> QED BY <1>1, <1>3 DEF ConnectionInv, PasswordStaysWithItsHost

(* Every request, redirection and upgrade keeps it. *)
LEMMA ConnectionStep == ConnectionInv /\ [DavNext]_davVars => ConnectionInv'
<1> SUFFICES ASSUME ConnectionInv, [DavNext]_davVars PROVE ConnectionInv'
  OBVIOUS
<1>1. CASE UNCHANGED <<address, probing, carried>>
  BY <1>1 DEF ConnectionInv, PasswordStaysWithItsHost
<1>2. CASE Redirected
  <2>1. UNCHANGED <<address, probing>> /\ Carry(address)
    BY <1>2 DEF Redirected, Follows
  <2> QED BY <2>1 DEF ConnectionInv, PasswordStaysWithItsHost, Carry
<1>3. CASE Probe
  <2>1. Carry(address)
    BY <1>3 DEF Probe
  <2>2. \A a \in carried' : a.home /\ (a.secure \/ probing.allowed)
    BY <2>1 DEF ConnectionInv, PasswordStaysWithItsHost, Carry
  <2>3. CASE UNCHANGED <<address, probing>>
    BY <2>2, <2>3 DEF ConnectionInv, PasswordStaysWithItsHost
  <2>4. CASE \E to \in DavAddresses :
               /\ HttpsUpgrade(address, to) /\ address' = to
               /\ probing' = [probing EXCEPT !.upgraded = TRUE, !.send = TRUE]
    <3>1. /\ address' \in DavAddresses /\ address'.home /\ address'.secure
          /\ probing' = [probing EXCEPT !.upgraded = TRUE, !.send = TRUE]
      BY <2>4 DEF HttpsUpgrade, ConnectionInv
    <3>2. /\ probing' \in [has : BOOLEAN, allowed : BOOLEAN, upgraded : BOOLEAN, send : BOOLEAN]
          /\ probing'.allowed = probing.allowed
      BY <3>1 DEF ConnectionInv
    <3> QED BY <2>2, <3>1, <3>2 DEF ConnectionInv, PasswordStaysWithItsHost
  <2> QED BY <1>3, <2>3, <2>4 DEF Probe
<1> QED BY <1>1, <1>2, <1>3, ConnectionStays DEF davVars

(* The password goes to the host the user chose only, and over an unencrypted  *)
(* connection only if the user allowed that: after any requests, redirections  *)
(* and upgrades (webdav.rs: probe, redirects).                                 *)
THEOREM PasswordsStayWithTheirHost == DavSpec => []PasswordStaysWithItsHost
<1>1. ConnectionInv => PasswordStaysWithItsHost
  BY DEF ConnectionInv
<1> QED BY <1>1, ConnectionInit, ConnectionStep, PTL DEF DavSpec
-----------------------------------------------------------------------------
\* The operations, what they answer, and their stages.
DavOps == {"none", "mkdir", "create", "remove", "upload", "stream", "list",
           "rename", "renameNoReplace"}
DavWords == {"none", "ok", "exists", "failed", "authFailed", "cleartextSignIn"}
DavStages == {"probe", "ready", "make", "lookMade", "look", "create", "delete", "move", "lookNew",
              "lookOld", "setAside", "put", "size", "list", "over"}
Renaming == {"rename", "renameNoReplace"}

\* The stages of an operation, those before it and the one after it.
StagesOf(op) ==
    CASE op = "none" -> {"probe", "ready"}
      [] op = "mkdir" -> {"make", "lookMade"}
      [] op = "create" -> {"look", "create"}
      [] op = "remove" -> {"delete"}
      [] op = "rename" -> {"move", "lookNew", "lookOld", "setAside"}
      [] op = "renameNoReplace" -> {"move"}
      [] op = "upload" -> {"put", "size"}
      [] op = "stream" -> {"put"}
      [] OTHER -> {"list"}

\* An operation is at a stage of its own until it has answered.
DavStageInv ==
    /\ dav \in [op : DavOps, old : DavPaths, new : DavPaths, at : DavStages, step : Nat,
                answer : DavWords]
    /\ IF dav.answer = "none" THEN dav.at \in StagesOf(dav.op) ELSE dav.at = "over"

\* A tree the server can have.
IsTree(t) == t \in [DavPaths -> DavPlaces] /\ Grown(t)

\* The tree, with the file a rename moves in its place unless it was taken away.
DavTreeTypes ==
    /\ IsTree(davTree)
    /\ davHeld \in BOOLEAN /\ stood \in BOOLEAN /\ trampled \in BOOLEAN
\* What a rename finds under its old name.
RenamesAFile(d, t) == d.op \in Renaming => d.old # d.new /\ t[d.old] \in {"none", "mine"}

\* What the histories have seen.
DavSeen ==
    /\ Effect(dav, davTree) => davHeld
    /\ dav.op # "none" /\ davTree[dav.new] # "none" => stood
    /\ dav.op \in {"create", "renameNoReplace"} => ~trampled

\* What an operation may say, and is about to.
DavSaid ==
    /\ dav.answer = "ok" \/ dav.at = "size" => davHeld
    /\ dav.answer = "exists" => stood

(* The inductive invariant: what an answer promises has been seen to hold.     *)
DavInv == DavStageInv /\ DavTreeTypes /\ RenamesAFile(dav, davTree) /\ DavSeen /\ DavSaid

-----------------------------------------------------------------------------
\* A path is under another if it begins like it.
LEMMA UnderIsBelow ==
  ASSUME NEW p \in DavPaths, NEW q \in DavPaths
  PROVE  /\ Len(p) \in Nat /\ Len(q) \in Nat /\ Len(p) > 0 /\ Len(q) > 0
         /\ q \in Under(p) <=> Len(p) <= Len(q) /\ \A i \in 1 .. Len(p) : q[i] = p[i]
<1> DEFINE Names == UNION {ToSet(r) : r \in DavPaths}
<1>1. /\ p \in Seq(Names) /\ q \in Seq(Names) /\ Len(p) \in Nat /\ Len(q) \in Nat /\ Len(p) > 0
      /\ Len(q) > 0
  <2>1. p \in Seq(Names) /\ q \in Seq(Names)
    BY DavAssumption
  <2>2. (Len(p) = 1 \/ Len(p) > 1) /\ (Len(q) = 1 \/ Len(q) > 1)
    BY DavAssumption
  <2> HIDE DEF Names
  <2>3. Len(p) \in Nat /\ Len(q) \in Nat
    BY <2>1
  <2>4. Len(p) # 0 /\ Len(q) # 0
    BY <2>2, <2>3
  <2> QED BY <2>1, <2>3, <2>4
<1> HIDE DEF Names
<1>2. CASE Len(p) <= Len(q)
  <2>1. /\ SubSeq(p, 1, Len(p)) \in Seq(Names) /\ Len(SubSeq(p, 1, Len(p))) = Len(p)
        /\ \A i \in 1 .. Len(p) : SubSeq(p, 1, Len(p))[i] = p[i]
    BY <1>1, SubSeqProperties
  <2>2. /\ SubSeq(q, 1, Len(p)) \in Seq(Names) /\ Len(SubSeq(q, 1, Len(p))) = Len(p)
        /\ \A i \in 1 .. Len(p) : SubSeq(q, 1, Len(p))[i] = q[i]
    BY <1>1, <1>2, SubSeqProperties
  <2>3. SubSeq(p, 1, Len(p)) = SubSeq(q, 1, Len(p)) <=> \A i \in 1 .. Len(p) : q[i] = p[i]
    BY <2>1, <2>2, SeqEqual
  <2> QED BY <1>1, <1>2, <2>3 DEF Under, IsPrefix
<1>3. CASE ~(Len(p) <= Len(q))
  BY <1>1, <1>3 DEF Under, IsPrefix
<1> QED BY <1>1, <1>2, <1>3

\* No shorter path is under another.
LEMMA SamePath ==
  ASSUME NEW p \in DavPaths, NEW q \in DavPaths, q \in Under(p), Len(q) <= Len(p)
  PROVE  p = q
<1> DEFINE Names == UNION {ToSet(r) : r \in DavPaths}
<1>1. p \in Seq(Names) /\ q \in Seq(Names)
  BY DavAssumption
<1> HIDE DEF Names
<1> QED BY <1>1, UnderIsBelow, SeqEqual

\* Under is an order.
LEMMA UnderIsOrder ==
  ASSUME NEW p \in DavPaths, NEW q \in DavPaths
  PROVE  /\ p \in Under(p)
         /\ \A r \in DavPaths : q \in Under(p) /\ r \in Under(q) => r \in Under(p)
         /\ q \in Under(p) /\ p \in Under(q) => p = q
<1>1. p \in Under(p)
  BY UnderIsBelow
<1>2. ASSUME NEW r \in DavPaths, q \in Under(p), r \in Under(q) PROVE r \in Under(p)
  <2>1. Len(p) \in Nat /\ Len(q) \in Nat /\ Len(r) \in Nat
    BY UnderIsBelow
  <2>2. Len(p) <= Len(q) /\ \A i \in 1 .. Len(p) : q[i] = p[i]
    BY <1>2, UnderIsBelow
  <2>3. Len(q) <= Len(r) /\ \A i \in 1 .. Len(q) : r[i] = q[i]
    BY <1>2, UnderIsBelow
  <2>4. Len(p) <= Len(r) /\ \A i \in 1 .. Len(p) : r[i] = p[i]
    BY <2>1, <2>2, <2>3
  <2> QED BY <2>4, UnderIsBelow
<1>3. q \in Under(p) /\ p \in Under(q) => p = q
  BY SamePath, UnderIsBelow
<1> QED BY <1>1, <1>2, <1>3

\* What stands above a path stands above its parent, or is it.
LEMMA ParentBetween ==
  ASSUME NEW p \in DavPaths, NEW q \in DavPaths, q \in Under(p), p # q
  PROVE  /\ Len(q) # 1 /\ Front(q) \in DavPaths /\ Front(q) \in Under(p)
         /\ Front(q) \notin Under(q)
<1> DEFINE Names == UNION {ToSet(r) : r \in DavPaths}
<1>1. q \in Seq(Names)
  BY DavAssumption
<1>2. Len(p) \in Nat /\ Len(q) \in Nat /\ Len(p) > 0 /\ Len(q) > 0 /\ Len(p) < Len(q)
  BY UnderIsBelow, SamePath
<1>3. Len(q) # 1 /\ Front(q) \in DavPaths
  <2>1. Len(q) = 1 \/ Front(q) \in DavPaths
    BY DavAssumption
  <2>2. Len(q) # 1
    <3>1. \A m, n \in Nat : m > 0 /\ m < n => n # 1
      OBVIOUS
    <3> QED BY <1>2, <3>1
  <2> QED BY <2>1, <2>2
<1> HIDE DEF Names
<1>4. Len(Front(q)) = Len(q) - 1 /\ \A i \in 1 .. Len(q) - 1 : Front(q)[i] = q[i]
  BY <1>1, <1>2, SubSeqProperties DEF Front
<1>5. Front(q) \in Under(p)
  <2>1. Len(p) <= Len(q) /\ \A i \in 1 .. Len(p) : q[i] = p[i]
    BY UnderIsBelow
  <2>2. Len(p) <= Len(Front(q)) /\ \A i \in 1 .. Len(p) : Front(q)[i] = p[i]
    BY <1>2, <1>4, <2>1
  <2> QED BY <1>3, <2>2, UnderIsBelow
<1>6. Front(q) \notin Under(q)
  BY <1>2, <1>3, <1>4, UnderIsBelow
<1> QED BY <1>2, <1>3, <1>5, <1>6
\* The parent of a path is not under it.
LEMMA ParentIsAbove ==
  ASSUME NEW q \in DavPaths, Len(q) # 1
  PROVE  Front(q) \in DavPaths /\ Front(q) \notin Under(q)
<1> DEFINE Names == UNION {ToSet(r) : r \in DavPaths}
<1>1. q \in Seq(Names) /\ Front(q) \in DavPaths
  BY DavAssumption
<1> HIDE DEF Names
<1>2. Len(q) \in Nat /\ 1 < Len(q)
  <2>1. \A n \in Nat : n > 0 /\ n # 1 => 1 < n
    OBVIOUS
  <2> QED BY <2>1, UnderIsBelow
<1>3. Len(Front(q)) = Len(q) - 1
  BY <1>1, <1>2, SubSeqProperties DEF Front
<1> QED BY <1>1, <1>2, <1>3, UnderIsBelow
-----------------------------------------------------------------------------
\* A place whose parent is there, and that is no collection with members,
\* may hold anything.
LEMMA TreeGrows ==
  ASSUME NEW t, IsTree(t), NEW q \in DavPaths, HasParent(t, q),
         NEW v \in DavPlaces, v = "dir" \/ t[q] # "dir"
  PROVE  IsTree([t EXCEPT ![q] = v])
<1> DEFINE u == [t EXCEPT ![q] = v]
<1>1. u \in [DavPaths -> DavPlaces] /\ u[q] = v /\ \A r \in DavPaths : r # q => u[r] = t[r]
  BY DEF IsTree
<1> HIDE DEF u
<1>2. ASSUME NEW a \in DavPaths, NEW b \in Under(a) \ {a}, u[b] # "none" PROVE u[a] = "dir"
  <2>1. b \in DavPaths
    BY DEF Under
  <2>2. CASE b = q
    <3>1. Len(q) # 1 /\ Front(q) \in DavPaths /\ Front(q) \in Under(a)
      BY <2>2, ParentBetween
    <3>2. t[Front(q)] = "dir"
      BY <3>1 DEF HasParent
    <3>3. t[a] = "dir"
      BY <3>1, <3>2 DEF IsTree, Grown
    <3> QED BY <1>1, <2>2, <3>3
  <2>3. CASE b # q
    <3>1. t[a] = "dir"
      BY <1>1, <1>2, <2>1, <2>3 DEF IsTree, Grown
    <3> QED BY <1>1, <3>1
  <2> QED BY <2>2, <2>3
<1>3. Grown(u)
  BY <1>2 DEF Grown
<1> QED BY <1>1, <1>3 DEF IsTree, u

\* What goes with all that is below it leaves a tree.
LEMMA TreeShrinks ==
  ASSUME NEW t, IsTree(t), NEW q \in DavPaths
  PROVE  IsTree(Cleared(t, Under(q)))
<1> DEFINE u == Cleared(t, Under(q))
<1>1. /\ u \in [DavPaths -> DavPlaces]
      /\ \A r \in DavPaths : u[r] = IF r \in Under(q) THEN "none" ELSE t[r]
  BY DEF IsTree, Cleared, DavPlaces
<1> HIDE DEF u
<1>2. ASSUME NEW a \in DavPaths, NEW b \in Under(a) \ {a}, u[b] # "none" PROVE u[a] = "dir"
  <2>1. b \in DavPaths
    BY DEF Under
  <2>2. b \notin Under(q) /\ t[b] # "none"
    BY <1>1, <1>2, <2>1
  <2>3. t[a] = "dir" /\ a \notin Under(q)
    BY <2>1, <2>2, UnderIsOrder DEF IsTree, Grown
  <2> QED BY <1>1, <2>3
<1>3. Grown(u)
  BY <1>2 DEF Grown
<1> QED BY <1>1, <1>3 DEF IsTree, u

\* A file goes alone.
LEMMA FileLeaves ==
  ASSUME NEW t, IsTree(t), NEW q \in DavPaths, t[q] # "dir"
  PROVE  IsTree([t EXCEPT ![q] = "none"])
<1> DEFINE u == [t EXCEPT ![q] = "none"]
<1>1. /\ u \in [DavPaths -> DavPlaces] /\ u[q] = "none"
      /\ \A r \in DavPaths : r # q => u[r] = t[r]
  BY DEF IsTree, DavPlaces
<1> HIDE DEF u
<1>2. ASSUME NEW a \in DavPaths, NEW b \in Under(a) \ {a}, u[b] # "none" PROVE u[a] = "dir"
  <2>1. b \in DavPaths
    BY DEF Under
  <2>2. t[a] = "dir"
    BY <1>1, <1>2, <2>1 DEF IsTree, Grown
  <2> QED BY <1>1, <2>2
<1>3. Grown(u)
  BY <1>2 DEF Grown
<1> QED BY <1>1, <1>3 DEF IsTree, u
-----------------------------------------------------------------------------
(* What a request leaves, served or not *)
LEMMA SentServes ==
  ASSUME NEW outs, NEW o \in Sent(outs)
  PROVE  /\ o.tree = davTree \/ \E x \in outs : o.tree = x.tree
         /\ o.reply # "failed" => o \in outs
BY DEF Sent, Out

\* MKCOL that is done leaves a collection.
LEMMA MkcolServes ==
  ASSUME IsTree(davTree), NEW p, NEW o \in Sent(Mkcol(p))
  PROVE  IsTree(o.tree) /\ (p \in DavPaths /\ o.reply = "done" => o.tree[p] = "dir")
<1>1. \A x \in Mkcol(p) :
        \/ x = Out(davTree, "notAllowed")
        \/ x = Out(davTree, "conflict")
        \/ x = Out([davTree EXCEPT ![p] = "dir"], "done") /\ HasParent(davTree, p)
  BY DEF Mkcol
<1>2. HasParent(davTree, p) => IsTree([davTree EXCEPT ![p] = "dir"])
  <2>1. CASE p \in DavPaths
    BY <2>1, TreeGrows DEF DavPlaces
  <2>2. CASE p \notin DavPaths
    <3>1. [davTree EXCEPT ![p] = "dir"] = davTree
      BY <2>2 DEF IsTree
    <3> QED BY <3>1
  <2> QED BY <2>1, <2>2
<1>3. \A x \in Mkcol(p) : IsTree(x.tree)
  BY <1>1, <1>2 DEF Out
<1>4. ASSUME p \in DavPaths, o.reply = "done" PROVE o.tree[p] = "dir"
  <2>1. o = Out([davTree EXCEPT ![p] = "dir"], "done")
    BY <1>1, <1>4, SentServes DEF Out
  <2> QED BY <1>4, <2>1 DEF Out, IsTree
<1> QED BY <1>3, <1>4, SentServes

\* PUT that is done leaves the file; one with If-None-Match replaces nothing.
LEMMA PutServes ==
  ASSUME IsTree(davTree), NEW p \in DavPaths, NEW what \in {"mine", "empty"},
         NEW fresh \in BOOLEAN, NEW o \in Sent(Put(p, what, fresh))
  PROVE  /\ IsTree(o.tree)
         /\ o.reply = "done" => o.tree[p] = what
         /\ o.reply = "taken" => davTree[p] # "none"
         /\ fresh /\ davTree[p] # "none" => o.tree = davTree
<1> DEFINE t == [davTree EXCEPT ![p] = what]
<1>1. \A x \in Put(p, what, fresh) :
        \/ x = Out(davTree, "taken") /\ davTree[p] # "none"
        \/ x = Out(davTree, "conflict")
        \/ /\ x = Out(t, "done") /\ HasParent(davTree, p) /\ davTree[p] # "dir"
           /\ fresh => davTree[p] = "none"
  BY DEF Put
<1>2. HasParent(davTree, p) /\ davTree[p] # "dir" => IsTree(t)
  BY TreeGrows DEF DavPlaces, DavFiles
<1>3. t[p] = what
  BY DEF IsTree
<1> HIDE DEF t
<1>4. \A x \in Put(p, what, fresh) :
         IsTree(x.tree) /\ (fresh /\ davTree[p] # "none" => x.tree = davTree)
  BY <1>1, <1>2 DEF Out
<1>5. ASSUME o.reply = "done" PROVE o.tree[p] = what
  <2>1. o = Out(t, "done")
    BY <1>1, <1>5, SentServes DEF Out
  <2> QED BY <1>3, <2>1 DEF Out
<1>6. ASSUME o.reply = "taken" PROVE davTree[p] # "none"
  BY <1>1, <1>6, SentServes DEF Out
<1> QED BY <1>4, <1>5, <1>6, SentServes

\* DELETE that is done, or finds nothing, leaves nothing.
LEMMA DeleteServes ==
  ASSUME IsTree(davTree), NEW p \in DavPaths, NEW o \in Sent(Delete(p))
  PROVE  /\ IsTree(o.tree)
         /\ o.reply = "notFound" \/ MutationResult(o.reply) =>
               \A q \in Under(p) : o.tree[q] = "none"
<1>1. \A x \in Delete(p) :
        \/ x = Out(davTree, "notFound") /\ davTree[p] = "none"
        \/ x.tree = Cleared(davTree, Under(p))
        \/ /\ x.reply = "multiBad"
           /\ x.tree = davTree \/ \E q \in Under(p) : x.tree = Cleared(davTree, Under(q))
  BY DEF Delete, Out
<1>2. IsTree(Cleared(davTree, Under(p))) /\ \A q \in Under(p) : IsTree(Cleared(davTree, Under(q)))
  BY TreeShrinks DEF Under
<1>3. \A x \in Delete(p) : IsTree(x.tree)
  BY <1>1, <1>2 DEF Out
<1>4. ASSUME o.reply = "notFound" \/ MutationResult(o.reply), NEW q \in Under(p)
      PROVE  o.tree[q] = "none"
  <2>1. q \in DavPaths
    BY DEF Under
  <2>2. o \in Delete(p) /\ o.reply # "multiBad"
    BY <1>4, SentServes DEF MutationResult
  <2>3. CASE o = Out(davTree, "notFound") /\ davTree[p] = "none"
    <3>1. davTree[q] = "none"
      BY <2>1, <2>3 DEF IsTree, Grown
    <3> QED BY <2>3, <3>1 DEF Out
  <2>4. CASE o.tree = Cleared(davTree, Under(p))
    BY <2>1, <2>4 DEF Cleared
  <2> QED BY <1>1, <2>2, <2>3, <2>4
<1> QED BY <1>3, <1>4, SentServes

\* MOVE that is done leaves the file under its new name only.
LEMMA MoveServes ==
  ASSUME IsTree(davTree), NEW old \in DavPaths, NEW new \in DavPaths, old # new,
         davTree[old] \in {"none", "mine"},
         NEW overwrite \in BOOLEAN, NEW o \in Sent(Move(old, new, overwrite))
  PROVE  /\ IsTree(o.tree) /\ o.tree[old] \in {"none", "mine"}
         /\ MutationResult(o.reply) => o.tree[new] = "mine" /\ o.tree[old] = "none"
         /\ o.reply = "taken" => davTree[new] # "none"
         /\ ~overwrite /\ davTree[new] # "none" => o.tree = davTree
<1> DEFINE c == Cleared(davTree, Under(new))
           t == [c EXCEPT ![new] = davTree[old], ![old] = "none"]
<1>1. \A x \in Move(old, new, overwrite) :
        \/ x = Out(davTree, "notFound") \/ x = Out(davTree, "conflict")
        \/ x = Out(davTree, "taken") /\ davTree[new] # "none"
        \/ x = Out(davTree, "forbidden")
        \/ /\ x = Out(t, "done") /\ davTree[old] # "none" /\ HasParent(davTree, new)
           /\ ~overwrite => davTree[new] = "none"
  BY DEF Move
<1>2. /\ c \in [DavPaths -> DavPlaces] /\ c[new] = "none" /\ c[old] \in {"none", "mine"}
      /\ IsTree(c)
  BY TreeShrinks, UnderIsOrder DEF Cleared, IsTree
<1>3. HasParent(davTree, new) => HasParent(c, new)
  <2>1. SUFFICES ASSUME Len(new) # 1, davTree[Front(new)] = "dir" PROVE c[Front(new)] = "dir"
    BY DEF HasParent
  <2>2. Front(new) \in DavPaths /\ Front(new) \notin Under(new)
    BY <2>1, ParentIsAbove
  <2> QED BY <2>1, <2>2 DEF Cleared
<1> HIDE DEF c
<1>4. ASSUME HasParent(davTree, new), davTree[old] = "mine"
      PROVE  IsTree(t) /\ t[new] = "mine" /\ t[old] = "none"
  <2> DEFINE u == [c EXCEPT ![new] = "mine"]
  <2>1. IsTree(u)
    BY <1>2, <1>3, <1>4, TreeGrows DEF DavPlaces, DavFiles
  <2>2. u[old] # "dir" /\ u[new] = "mine"
    BY <1>2
  <2>3. t = [u EXCEPT ![old] = "none"]
    BY <1>2, <1>4
  <2> HIDE DEF u, t
  <2>4. IsTree(t)
    BY <2>1, <2>2, <2>3, FileLeaves
  <2> QED BY <2>1, <2>2, <2>3, <2>4 DEF IsTree
<1> HIDE DEF t
<1>5. \A x \in Move(old, new, overwrite) :
        /\ IsTree(x.tree) /\ x.tree[old] \in {"none", "mine"}
        /\ ~overwrite /\ davTree[new] # "none" => x.tree = davTree
  BY <1>1, <1>4 DEF Out
<1>6. ASSUME MutationResult(o.reply) PROVE o.tree[new] = "mine" /\ o.tree[old] = "none"
  <2>1. o.reply \in {"done", "multiFine"} /\ o \in Move(old, new, overwrite)
    BY <1>6, SentServes DEF MutationResult
  <2>2. o = Out(t, "done") /\ davTree[old] # "none" /\ HasParent(davTree, new)
    BY <1>1, <2>1 DEF Out
  <2> QED BY <1>4, <2>2 DEF Out
<1>7. ASSUME o.reply = "taken" PROVE davTree[new] # "none"
  <2>1. o \in Move(old, new, overwrite)
    BY <1>7, SentServes
  <2> QED BY <1>1, <1>7, <2>1 DEF Out
<1> QED BY <1>5, <1>6, <1>7, SentServes
-----------------------------------------------------------------------------
(* What a step makes of the invariant *)
\* The same operation goes on, and the tree is what its history says.
SameOperation == dav'.op = dav.op /\ dav'.old = dav.old /\ dav'.new = dav.new
TreeKept == DavTreeTypes' /\ RenamesAFile(dav, davTree)' /\ DavSeen'

\* What an operation is to bring about depends on its kind and paths only.
LEMMA EffectIsOfTheOperation ==
  ASSUME SameOperation, NEW t
  PROVE  Effect(dav', t) = Effect(dav, t)
BY DEF SameOperation, Effect

\* A request that acts.
LEMMA ActedKeeps ==
  ASSUME DavInv, SameOperation, dav.op # "none", NEW t, IsTree(t), Acted(t),
         RenamesAFile(dav, t),
         dav.op \in {"create", "renameNoReplace"} /\ davTree[dav.new] # "none" => t = davTree
  PROVE  /\ TreeKept
         /\ Effect(dav, t) \/ davHeld => davHeld'
         /\ stood \/ davTree[dav.new] # "none" => stood'
<1>1. /\ davTree' = t /\ davHeld' = (davHeld \/ Effect(dav, t))
      /\ stood' = (stood \/ t[dav.new] # "none")
      /\ trampled' = (trampled \/ (davTree[dav.new] # "none" /\ t[dav.new] # davTree[dav.new]))
  BY DEF Acted, Became
<1>2. Effect(dav, t) \in BOOLEAN
  BY DEF Effect
<1>3. DavTreeTypes'
  BY <1>1, <1>2 DEF DavInv, DavTreeTypes
<1>4. RenamesAFile(dav, davTree)'
  BY <1>1 DEF SameOperation, RenamesAFile
<1>5. DavSeen'
  <2>1. Effect(dav', davTree') => davHeld'
    BY <1>1, EffectIsOfTheOperation
  <2>2. dav'.op # "none" /\ davTree'[dav'.new] # "none" => stood'
    BY <1>1 DEF SameOperation
  <2>3. dav.op \in {"create", "renameNoReplace"} => ~trampled'
    BY <1>1 DEF DavInv, DavSeen
  <2> QED BY <2>1, <2>2, <2>3 DEF DavSeen, SameOperation
<1> QED BY <1>1, <1>3, <1>4, <1>5 DEF TreeKept, DavInv, DavSeen

\* One that only looks.
LEMMA StillKeeps ==
  ASSUME DavInv, SameOperation, UNCHANGED <<davTree, davHeld, stood, trampled>>
  PROVE  TreeKept
<1>1. Effect(dav', davTree') = Effect(dav, davTree)
  BY EffectIsOfTheOperation
<1>2. DavTreeTypes' /\ RenamesAFile(dav, davTree)'
  BY DEF DavInv, DavTreeTypes, RenamesAFile, SameOperation
<1>3. DavSeen'
  BY <1>1 DEF DavInv, DavSeen, SameOperation
<1> QED BY <1>2, <1>3 DEF TreeKept

\* The operation answers, or goes on.
LEMMA AnswerIsSame ==
  ASSUME DavInv, NEW a, DavAnswered(a)
  PROVE  SameOperation
BY DEF DavInv, DavStageInv, DavAnswered, SameOperation

\* An answer that was seen to hold keeps the invariant, ...
LEMMA AnswerKeeps ==
  ASSUME DavInv, TreeKept, NEW a \in DavWords \ {"none"}, DavAnswered(a),
         a = "ok" => davHeld', a = "exists" => stood'
  PROVE  DavInv'
<1>1. DavStageInv' /\ dav'.answer = a /\ dav'.at = "over"
  BY DEF DavInv, DavStageInv, DavAnswered, DavStages
<1>2. DavSaid'
  BY <1>1 DEF DavSaid
<1> QED BY <1>1, <1>2 DEF DavInv, TreeKept

\* Going on changes the stage only, ...
LEMMA GoesIsSame ==
  ASSUME DavInv, NEW stage, Goes(stage)
  PROVE  SameOperation
BY DEF DavInv, DavStageInv, Goes, SameOperation

\* ... and keeps the invariant when the stage is one of the operation.
LEMMA GoesKeeps ==
  ASSUME DavInv, TreeKept, dav.answer = "none", NEW stage \in StagesOf(dav.op), Goes(stage),
         stage = "size" => davHeld'
  PROVE  DavInv'
<1>1. stage \in DavStages
  BY DEF StagesOf, DavInv, DavStageInv, DavOps, DavStages
<1>2. DavStageInv' /\ dav'.answer = "none" /\ dav'.at = stage
  BY <1>1 DEF DavInv, DavStageInv, Goes
<1>3. DavSaid'
  BY <1>2 DEF DavSaid
<1> QED BY <1>2, <1>3 DEF DavInv, TreeKept

\* An operation at one of its stages has not answered.
LEMMA StageTells ==
  ASSUME DavInv
  PROVE  /\ dav.at # "over" => dav.answer = "none" /\ dav.at \in StagesOf(dav.op)
         /\ dav.at \in {"probe", "ready"} <=> dav.op = "none" /\ dav.at # "over"
         /\ dav.at \in {"make", "lookMade"} => dav.op = "mkdir"
         /\ dav.at \in {"look", "create"} => dav.op = "create"
         /\ dav.at = "delete" => dav.op = "remove"
         /\ dav.at = "move" => dav.op \in Renaming
         /\ dav.at \in {"lookNew", "lookOld", "setAside"} => dav.op = "rename"
         /\ dav.at = "put" => dav.op \in {"upload", "stream"}
         /\ dav.at = "size" => dav.op = "upload"
         /\ dav.at = "list" => dav.op = "list"
<1>1. dav.op \in DavOps
  BY DEF DavInv, DavStageInv
<1>2. dav.at # "over" => dav.answer = "none" /\ dav.at \in StagesOf(dav.op)
  BY DEF DavInv, DavStageInv
<1>3. dav.at # "over" =>
        /\ dav.op = "none" <=> dav.at \in {"probe", "ready"}
        /\ dav.op = "mkdir" <=> dav.at \in {"make", "lookMade"}
        /\ dav.op = "create" <=> dav.at \in {"look", "create"}
        /\ dav.op = "remove" <=> dav.at = "delete"
        /\ dav.op = "list" <=> dav.at = "list"
  BY <1>1, <1>2 DEF StagesOf, DavOps
<1>4. dav.at # "over" =>
        /\ dav.op \in Renaming <=> dav.at \in {"move", "lookNew", "lookOld", "setAside"}
        /\ dav.op = "renameNoReplace" => dav.at = "move"
        /\ dav.op \in {"upload", "stream"} <=> dav.at \in {"put", "size"}
        /\ dav.op = "stream" => dav.at = "put"
  BY <1>1, <1>2 DEF StagesOf, DavOps, Renaming
<1> QED BY <1>2, <1>3, <1>4 DEF Renaming

\* The whole path is the path.
LEMMA WholePath ==
  ASSUME NEW p \in DavPaths
  PROVE  SubSeq(p, 1, Len(p)) = p
<1> DEFINE Names == UNION {ToSet(r) : r \in DavPaths}
<1>1. p \in Seq(Names)
  BY DavAssumption
<1> HIDE DEF Names
<1>2. Len(p) \in Nat /\ Len(p) > 0
  BY UnderIsBelow
<1> QED BY <1>1, <1>2, SubSeqProperties, SeqEqual

\* What a look says of a path.
LEMMA LookTells ==
  ASSUME NEW p \in DavPaths, NEW r \in ResourceAt(p)
  PROVE  /\ r \in {"nothing", "collection", "file", "failed"}
         /\ r \in {"collection", "file"} => davTree[p] # "none"
         /\ r = "collection" => davTree[p] = "dir"
<1>1. r = "failed" \/ r = (IF davTree[p] = "none" THEN "nothing"
        ELSE IF \E e \in ParsedPropfind(Described(p, 0, FALSE, TRUE)) : e.dir THEN "collection"
        ELSE "file")
  BY DEF ResourceAt
<1>2. ASSUME NEW e \in ParsedPropfind(Described(p, 0, FALSE, TRUE)), e.dir
      PROVE  davTree[p] = "dir"
  <2>1. PICK d \in Described(p, 0, FALSE, TRUE) : e = DavEntry(d)
    BY DEF ParsedPropfind
  <2>2. PICK q \in Under(p) : Len(q) - Len(p) <= 0 /\ d = Response(q, TRUE)
    BY <2>1 DEF Described
  <2>3. q \in DavPaths
    BY DEF Under
  <2>4. q = p
    <3>1. \A m, n \in Nat : m - n <= 0 => m <= n
      OBVIOUS
    <3>2. Len(p) \in Nat /\ Len(q) \in Nat
      BY <2>3, UnderIsBelow
    <3> QED BY <2>2, <2>3, <3>1, <3>2, SamePath
  <2>5. \E x \in d.props : x.good /\ x.dir
    BY <1>2, <2>1 DEF DavEntry
  <2>6. \A x \in d.props : x.good => x.dir = (davTree[p] = "dir")
    BY <2>2, <2>4 DEF Response
  <2> QED BY <2>5, <2>6
<1> QED BY <1>1, <1>2
-----------------------------------------------------------------------------
\* Before the first operation.
LEMMA DavInvInit == DavInit => DavInv
<1> SUFFICES ASSUME DavInit PROVE DavInv
  OBVIOUS
<1>1. /\ davTree \in [DavPaths -> DavPlaces] /\ Grown(davTree)
      /\ davHeld = FALSE /\ stood = FALSE /\ trampled = FALSE
  BY DEF DavInit, DavPlaces, DavFiles
<1>2. PICK p \in DavPaths :
        dav = [op |-> "none", old |-> p, new |-> p, at |-> "probe", step |-> 0, answer |-> "none"]
  <2>1. (CHOOSE q \in DavPaths : TRUE) \in DavPaths
    <3>1. \E q : q \in DavPaths
      BY DavAssumption
    <3> QED BY <3>1
  <2> DEFINE root == CHOOSE q \in DavPaths : TRUE
  <2>2. dav \in {[op |-> "none", old |-> p, new |-> p, at |-> "probe", step |-> 0,
                 answer |-> "none"] : p \in {root}}
    BY DEF DavInit
  <2> HIDE DEF root
  <2>3. root \in DavPaths
    BY <2>1 DEF root
  <2> QED BY <2>2, <2>3
<1>3. DavStageInv
  BY <1>2 DEF DavStageInv, DavOps, DavStages, DavWords, StagesOf
<1>4. RenamesAFile(dav, davTree) /\ DavSaid
  BY <1>2 DEF RenamesAFile, DavSaid, Renaming
<1>5. DavSeen
  BY <1>2 DEF DavSeen, Effect
<1> QED BY <1>1, <1>3, <1>4, <1>5 DEF DavInv, DavTreeTypes, IsTree

\* Connecting.
LEMMA ProbeKeeps == ASSUME DavInv, Probe PROVE DavInv'
<1>1. dav.at = "probe" /\ UNCHANGED <<davTree, davHeld, stood, trampled>>
  BY DEF Probe
<1>2. dav.answer = "none" /\ "ready" \in StagesOf(dav.op)
  <2>1. dav.op = "none" /\ dav.answer = "none"
    BY <1>1, StageTells
  <2> QED BY <2>1 DEF StagesOf
<1>3. CASE UNCHANGED dav
  BY <1>1, <1>3 DEF DavInv, DavStageInv, DavTreeTypes, RenamesAFile, DavSeen, DavSaid
<1>4. CASE Goes("ready")
  BY <1>1, <1>2, <1>4, GoesIsSame, GoesKeeps, StillKeeps
<1>5. CASE \E a \in {"failed", "authFailed", "cleartextSignIn"} : DavAnswered(a)
  BY <1>1, <1>5, AnswerIsSame, AnswerKeeps, StillKeeps DEF DavWords
<1> QED BY <1>3, <1>4, <1>5 DEF Probe, Goes

\* An operation begins, ...
LEMMA BeginKeeps ==
  ASSUME DavInv, NEW op \in DavOps \ {"none"}, NEW old \in DavPaths, NEW new \in DavPaths,
         NEW first \in StagesOf(op), first # "size", DavBegin(op, old, new, first),
         op \in Renaming => old # new /\ davTree[old] = "mine"
  PROVE  DavInv'
<1>1. /\ dav.at = "ready" /\ dav.answer = "none"
      /\ dav' = [dav EXCEPT !.op = op, !.old = old, !.new = new, !.at = first]
      /\ davHeld' = Effect(dav', davTree) /\ stood' = (davTree[new] # "none")
      /\ trampled' = FALSE /\ davTree' = davTree
  BY DEF DavBegin, DavInv, DavStageInv
<1>2. first \in DavStages
  BY DEF StagesOf, DavOps, DavStages
<1>3. DavStageInv' /\ dav'.op = op /\ dav'.old = old /\ dav'.new = new /\ dav'.at = first
  BY <1>1, <1>2 DEF DavInv, DavStageInv
<1>4. DavTreeTypes' /\ RenamesAFile(dav, davTree)'
  <2>1. Effect(dav', davTree) \in BOOLEAN
    BY DEF Effect
  <2> QED BY <1>1, <1>3, <2>1 DEF DavInv, DavTreeTypes, RenamesAFile
<1>5. DavSeen'
  BY <1>1, <1>3 DEF DavSeen
<1>6. DavSaid'
  BY <1>1, <1>3 DEF DavSaid, DavInv, DavStageInv
<1> QED BY <1>3, <1>4, <1>5, <1>6 DEF DavInv

\* ... whichever it is.
LEMMA BeginsKeep == ASSUME DavInv, Begins PROVE DavInv'
<1>1. CASE \E p \in DavPaths :
             \E o \in {<<"mkdir", "make">>, <<"create", "look">>, <<"remove", "delete">>,
                     <<"upload", "put">>, <<"stream", "put">>, <<"list", "list">>} :
                DavBegin(o[1], p, p, o[2])
  <2>1. PICK p \in DavPaths, o \in {<<"mkdir", "make">>, <<"create", "look">>,
                <<"remove", "delete">>, <<"upload", "put">>, <<"stream", "put">>,
                <<"list", "list">>} : DavBegin(o[1], p, p, o[2])
    BY <1>1
  <2>2. /\ o[1] \in DavOps \ {"none"} /\ o[1] \notin Renaming
        /\ o[2] \in StagesOf(o[1]) /\ o[2] # "size"
    BY DEF DavOps, Renaming, StagesOf
  <2> QED BY <2>1, <2>2, BeginKeeps
<1>2. CASE \E p \in DavPaths, old \in DavPaths :
             /\ davTree[old] = "mine" /\ old # p /\ old \notin Under(p)
             /\ \E op \in {"rename", "renameNoReplace"} : DavBegin(op, old, p, "move")
  <2>1. PICK p \in DavPaths, old \in DavPaths, op \in {"rename", "renameNoReplace"} :
           davTree[old] = "mine" /\ old # p /\ DavBegin(op, old, p, "move")
    BY <1>2
  <2>2. op \in DavOps \ {"none"} /\ "move" \in StagesOf(op) /\ "move" # "size"
    BY DEF DavOps, StagesOf
  <2> QED BY <2>1, <2>2, BeginKeeps
<1> QED BY <1>1, <1>2 DEF Begins

\* mkdir: the folder at once, or its ancestors one by one.
LEMMA MadeKeeps ==
  ASSUME DavInv, TreeKept, dav.op = "mkdir", dav.answer = "none",
         \/ Made /\ (davTree'[Making] = "dir" \/ Making \notin DavPaths) 
         \/ NotMade
  PROVE  DavInv'
<1>1. CASE DavAnswered("failed")
  BY <1>1, AnswerKeeps DEF DavWords
<1>2. CASE DavAnswered("ok") /\ dav.step \in {0, Len(dav.new)} /\ davTree'[dav.new] = "dir"
  <2>1. Effect(dav', davTree')
    BY <1>2, AnswerIsSame DEF SameOperation, Effect
  <2> QED BY <1>2, <2>1, AnswerKeeps DEF DavWords, TreeKept, DavSeen
<1>3. CASE \E n \in Nat : dav' = [dav EXCEPT !.step = n, !.at = "make"]
  <2>1. DavStageInv' /\ dav'.answer = "none" /\ dav'.at = "make"
    BY <1>3 DEF DavInv, DavStageInv, DavStages, StagesOf
  <2>2. DavSaid'
    BY <2>1 DEF DavSaid
  <2> QED BY <2>1, <2>2 DEF DavInv, TreeKept
<1>4. dav.step \in Nat /\ dav.new \in DavPaths
  BY DEF DavInv, DavStageInv
<1>5. dav.step \in {0, Len(dav.new)} => Making = dav.new
  BY <1>4, WholePath DEF Making
<1>6. CASE NotMade
  BY <1>1, <1>3, <1>6 DEF NotMade
<1>7. CASE Made /\ (davTree'[Making] = "dir" \/ Making \notin DavPaths)
  <2>1. CASE dav.step \in {0, Len(dav.new)}
    BY <1>2, <1>4, <1>5, <1>7, <2>1 DEF Made
  <2>2. CASE dav.step \notin {0, Len(dav.new)}
    <3>1. dav' = [dav EXCEPT !.step = dav.step + 1, !.at = "make"] /\ dav.step + 1 \in Nat
      BY <1>4, <1>7, <2>2 DEF Made
    <3> QED BY <1>3, <3>1
  <2> QED BY <2>1, <2>2
<1> QED BY <1>6, <1>7

\* The collections one after the other, ...
LEMMA MakeKeeps == ASSUME DavInv, MakeCollection PROVE DavInv'
<1>1. dav.at = "make" /\ dav.op = "mkdir" /\ dav.answer = "none"
  BY StageTells DEF MakeCollection
<1>2. PICK o \in Sent(Mkcol(Making)) :
        /\ Acted(o.tree)
        /\ \/ o.reply = "done" /\ Made
           \/ o.reply = "notAllowed" /\ Goes("lookMade")
           \/ o.reply \notin {"done", "notAllowed"} /\ NotMade
  BY DEF MakeCollection
<1>3. IsTree(o.tree) /\ (Making \in DavPaths /\ o.reply = "done" => o.tree[Making] = "dir")
  BY MkcolServes DEF DavInv, DavTreeTypes
<1>4. SameOperation
  BY <1>2 DEF Made, NotMade, Goes, DavAnswered, SameOperation, DavInv, DavStageInv
<1>5. TreeKept /\ davTree' = o.tree
  BY <1>1, <1>2, <1>3, <1>4, ActedKeeps DEF RenamesAFile, Renaming, Acted, Became
<1>6. CASE Goes("lookMade")
  BY <1>1, <1>5, <1>6, GoesKeeps DEF StagesOf
<1> QED BY <1>1, <1>2, <1>3, <1>5, <1>6, MadeKeeps

\* ... and the look at one that was there.
LEMMA LookMadeKeeps == ASSUME DavInv, LookMade PROVE DavInv'
<1>1. dav.at = "lookMade" /\ dav.op = "mkdir" /\ dav.answer = "none"
  BY StageTells DEF LookMade
<1>2. PICK r \in ResourceAt(Making) : IF r = "collection" THEN Made ELSE NotMade
  BY DEF LookMade
<1>3. SameOperation
  BY <1>2 DEF Made, NotMade, DavAnswered, SameOperation, DavInv, DavStageInv
<1>4. TreeKept /\ davTree' = davTree
  BY <1>3, StillKeeps DEF LookMade, Still
<1>5. r = "collection" /\ Making \in DavPaths => davTree[Making] = "dir"
  BY LookTells
<1> QED BY <1>1, <1>2, <1>4, <1>5, MadeKeeps

\* create_file
LEMMA LookBeforeCreateKeeps == ASSUME DavInv, LookBeforeCreate PROVE DavInv'
<1>1. dav.at = "look" /\ dav.op = "create" /\ dav.answer = "none" /\ dav.new \in DavPaths
  BY StageTells DEF LookBeforeCreate, DavInv, DavStageInv
<1>2. PICK r \in ResourceAt(dav.new) :
          \/ r = "nothing" /\ Goes("create")
          \/ r \in {"file", "collection"} /\ DavAnswered("exists")
          \/ r = "failed" /\ DavAnswered("failed")
  BY DEF LookBeforeCreate
<1>3. TreeKept /\ stood' = stood
  BY <1>2, GoesIsSame, AnswerIsSame, StillKeeps DEF LookBeforeCreate, Still
<1>4. CASE Goes("create")
  BY <1>1, <1>3, <1>4, GoesKeeps DEF StagesOf
<1>5. CASE r \in {"file", "collection"} /\ DavAnswered("exists")
  <2>1. stood'
    BY <1>1, <1>3, <1>5, LookTells DEF DavInv, DavSeen
  <2> QED BY <1>3, <1>5, <2>1, AnswerKeeps DEF DavWords
<1>6. CASE DavAnswered("failed")
  BY <1>3, <1>6, AnswerKeeps DEF DavWords
<1> QED BY <1>2, <1>4, <1>5, <1>6

\* The empty file, if nothing is there.
LEMMA CreateFileKeeps == ASSUME DavInv, CreateFile PROVE DavInv'
<1>1. dav.at = "create" /\ dav.op = "create" /\ dav.new \in DavPaths
  BY StageTells DEF CreateFile, DavInv, DavStageInv
<1>2. PICK o \in Sent(Put(dav.new, "empty", TRUE)) :
        /\ Acted(o.tree)
        /\ DavAnswered(CASE o.reply = "done" -> "ok" [] o.reply = "taken" -> "exists"
                         [] OTHER -> "failed")
  BY DEF CreateFile
<1> DEFINE a == CASE o.reply = "done" -> "ok" [] o.reply = "taken" -> "exists"
                  [] OTHER -> "failed"
<1>3. a \in DavWords \ {"none"} /\ (a = "ok" => o.reply = "done")
      /\ (a = "exists" => o.reply = "taken")
  BY DEF DavWords
<1> HIDE DEF a
<1>4. DavAnswered(a)
  BY <1>2 DEF a
<1>5. /\ IsTree(o.tree)
      /\ o.reply = "done" => o.tree[dav.new] = "empty"
      /\ o.reply = "taken" => davTree[dav.new] # "none"
      /\ davTree[dav.new] # "none" => o.tree = davTree
  <2>1. IsTree(davTree) /\ "empty" \in {"mine", "empty"} /\ TRUE \in BOOLEAN
    BY DEF DavInv, DavTreeTypes
  <2> QED BY <1>1, <1>2, <2>1, PutServes
<1>6. SameOperation
  BY <1>4, AnswerIsSame
<1>7. /\ TreeKept
      /\ Effect(dav, o.tree) => davHeld'
      /\ davTree[dav.new] # "none" => stood'
  BY <1>1, <1>2, <1>5, <1>6, ActedKeeps DEF RenamesAFile, Renaming
<1>8. o.reply = "done" => Effect(dav, o.tree)
  BY <1>1, <1>5 DEF Effect
<1> QED BY <1>3, <1>4, <1>5, <1>7, <1>8, AnswerKeeps

\* delete_file and delete_directory.
LEMMA DeleteKeeps == ASSUME DavInv, SendDelete PROVE DavInv'
<1>1. dav.at = "delete" /\ dav.op = "remove" /\ dav.new \in DavPaths
  BY StageTells DEF SendDelete, DavInv, DavStageInv
<1>2. PICK o \in Sent(Delete(dav.new)) :
        /\ Acted(o.tree)
        /\ DavAnswered(IF o.reply = "notFound" \/ MutationResult(o.reply) THEN "ok" ELSE "failed")
  BY DEF SendDelete
<1>3. /\ IsTree(o.tree)
      /\ o.reply = "notFound" \/ MutationResult(o.reply) =>
            \A q \in Under(dav.new) : o.tree[q] = "none"
  BY <1>1, DeleteServes DEF DavInv, DavTreeTypes
<1>4. SameOperation
  BY <1>2, AnswerIsSame
<1>5. TreeKept /\ (Effect(dav, o.tree) => davHeld')
  BY <1>1, <1>2, <1>3, <1>4, ActedKeeps DEF RenamesAFile, Renaming
<1>6. CASE o.reply = "notFound" \/ MutationResult(o.reply)
  <2>1. DavAnswered("ok") /\ Effect(dav, o.tree)
    BY <1>1, <1>2, <1>3, <1>6 DEF Effect
  <2> QED BY <1>5, <2>1, AnswerKeeps DEF DavWords
<1>7. CASE ~(o.reply = "notFound" \/ MutationResult(o.reply))
  <2>1. DavAnswered("failed")
    BY <1>2, <1>7
  <2> QED BY <1>5, <2>1, AnswerKeeps DEF DavWords
<1> QED BY <1>6, <1>7

\* rename
LEMMA MoveKeeps == ASSUME DavInv, SendMove PROVE DavInv'
<1>1. /\ dav.at = "move" /\ dav.op \in Renaming /\ dav.answer = "none"
      /\ dav.new \in DavPaths /\ dav.old \in DavPaths
      /\ dav.old # dav.new /\ davTree[dav.old] \in {"none", "mine"}
  BY StageTells DEF SendMove, DavInv, DavStageInv, RenamesAFile
<1>2. PICK o \in Sent(Move(dav.old, dav.new, dav.op = "rename")) :
          /\ Acted(o.tree)
          /\ \/ MutationResult(o.reply) /\ DavAnswered("ok")
             \/ /\ o.reply \in {"taken", "forbidden", "notAllowed", "conflict"}
                /\ IF dav.op = "rename" THEN Goes("lookNew")
                   ELSE DavAnswered(IF o.reply = "taken" THEN "exists" ELSE "failed")
             \/ o.reply \in {"notFound", "failed"} /\ DavAnswered("failed")
  BY DEF SendMove
<1>3. /\ IsTree(o.tree) /\ o.tree[dav.old] \in {"none", "mine"}
      /\ MutationResult(o.reply) => o.tree[dav.new] = "mine" /\ o.tree[dav.old] = "none"
      /\ o.reply = "taken" => davTree[dav.new] # "none"
      /\ dav.op # "rename" /\ davTree[dav.new] # "none" => o.tree = davTree
  <2> DEFINE overwrite == dav.op = "rename"
  <2>1. /\ IsTree(davTree) /\ overwrite \in BOOLEAN
        /\ o \in Sent(Move(dav.old, dav.new, overwrite))
    BY <1>2 DEF DavInv, DavTreeTypes
  <2> HIDE DEF overwrite
  <2>2. /\ IsTree(o.tree) /\ o.tree[dav.old] \in {"none", "mine"}
        /\ MutationResult(o.reply) => o.tree[dav.new] = "mine" /\ o.tree[dav.old] = "none"
        /\ o.reply = "taken" => davTree[dav.new] # "none"
        /\ ~overwrite /\ davTree[dav.new] # "none" => o.tree = davTree
    BY <1>1, <2>1, MoveServes
  <2> QED BY <2>2 DEF overwrite
<1>4. SameOperation
  BY <1>2, AnswerIsSame, GoesIsSame
<1>5. /\ TreeKept
      /\ Effect(dav, o.tree) => davHeld'
      /\ davTree[dav.new] # "none" => stood'
  BY <1>1, <1>2, <1>3, <1>4, ActedKeeps DEF RenamesAFile, Renaming
<1>6. CASE MutationResult(o.reply) /\ DavAnswered("ok")
  <2>1. Effect(dav, o.tree)
    BY <1>1, <1>3, <1>6 DEF Effect, Renaming
  <2> QED BY <1>5, <1>6, <2>1, AnswerKeeps DEF DavWords
<1>7. CASE dav.op = "rename" /\ Goes("lookNew")
  BY <1>1, <1>5, <1>7, GoesKeeps DEF StagesOf
<1>8. CASE o.reply = "taken" /\ DavAnswered("exists")
  BY <1>3, <1>5, <1>8, AnswerKeeps DEF DavWords
<1>9. CASE DavAnswered("failed")
  BY <1>5, <1>9, AnswerKeeps DEF DavWords
<1> QED BY <1>2, <1>6, <1>7, <1>8, <1>9

\* The looks after a MOVE that failed, ...
LEMMA LookNewOldKeeps == ASSUME DavInv, LookNew \/ LookOld PROVE DavInv'
<1>1. dav.op = "rename" /\ dav.answer = "none"
  BY StageTells DEF LookNew, LookOld
<1>2. DavAnswered("failed") \/ \E stage \in {"lookOld", "setAside"} : Goes(stage)
  BY DEF LookNew, LookOld
<1>3. TreeKept
  BY <1>2, AnswerIsSame, GoesIsSame, StillKeeps DEF LookNew, LookOld, Still
<1>4. CASE DavAnswered("failed")
  BY <1>3, <1>4, AnswerKeeps DEF DavWords
<1>5. CASE \E stage \in {"lookOld", "setAside"} : Goes(stage)
  BY <1>1, <1>3, <1>5, GoesKeeps DEF StagesOf
<1> QED BY <1>2, <1>4, <1>5

\* ... and the rename by setting aside.
LEMMA SetsAsideKeeps == ASSUME DavInv, SetsAside PROVE DavInv'
<1>1. /\ dav.op = "rename" /\ dav.new \in DavPaths /\ dav.old \in DavPaths
      /\ dav.old # dav.new /\ IsTree(davTree)
  BY StageTells DEF SetsAside, DavInv, DavStageInv, RenamesAFile, Renaming, DavTreeTypes
<1> DEFINE u == [davTree EXCEPT ![dav.new] = "mine"]
           t == [davTree EXCEPT ![dav.new] = "mine", ![dav.old] = "none"]
<1>2. CASE /\ davTree[dav.old] = "mine" /\ HasParent(davTree, dav.new)
           /\ davTree[dav.new] # "dir" /\ Acted(t) /\ DavAnswered("ok")
  <2>1. /\ IsTree(u) /\ u[dav.old] # "dir" /\ u[dav.new] = "mine"
        /\ t = [u EXCEPT ![dav.old] = "none"]
    BY <1>1, <1>2, TreeGrows DEF DavPlaces, DavFiles, IsTree
  <2>2. Acted(t)
    BY <1>2
  <2> HIDE DEF u, t
  <2>3. IsTree(t) /\ t[dav.new] = "mine" /\ t[dav.old] = "none"
    BY <1>1, <2>1, FileLeaves DEF IsTree
  <2>4. Effect(dav, t) /\ RenamesAFile(dav, t)
    BY <1>1, <2>3 DEF Effect, RenamesAFile
  <2>5. TreeKept /\ davHeld'
    BY <1>1, <1>2, <2>2, <2>3, <2>4, AnswerIsSame, ActedKeeps
  <2> QED BY <1>2, <2>5, AnswerKeeps DEF DavWords
<1>3. CASE Acted(davTree) /\ DavAnswered("failed")
  <2>1. TreeKept
    BY <1>1, <1>3, AnswerIsSame, ActedKeeps DEF DavInv
  <2> QED BY <1>3, <2>1, AnswerKeeps DEF DavWords
<1> QED BY <1>2, <1>3 DEF SetsAside

\* upload and upload_from_reader
LEMMA UploadKeeps == ASSUME DavInv, SendUpload PROVE DavInv'
<1>1. /\ dav.at = "put" /\ dav.op \in {"upload", "stream"} /\ dav.answer = "none"
      /\ dav.new \in DavPaths
  BY StageTells DEF SendUpload, DavInv, DavStageInv
<1>2. PICK o \in Sent(Put(dav.new, "mine", FALSE)), changed \in BOOLEAN :
          /\ Acted(o.tree)
          /\ IF o.reply # "done" \/ (changed /\ dav.op = "upload") THEN DavAnswered("failed")
             ELSE IF dav.op = "upload" THEN Goes("size")
             ELSE DavAnswered("ok")
  BY DEF SendUpload
<1>3. IsTree(o.tree) /\ (o.reply = "done" => o.tree[dav.new] = "mine")
  <2>1. IsTree(davTree) /\ "mine" \in {"mine", "empty"} /\ FALSE \in BOOLEAN
    BY DEF DavInv, DavTreeTypes
  <2> QED BY <1>1, <1>2, <2>1, PutServes
<1>4. SameOperation
  BY <1>2, AnswerIsSame, GoesIsSame
<1>5. TreeKept /\ (Effect(dav, o.tree) => davHeld')
  BY <1>1, <1>2, <1>3, <1>4, ActedKeeps DEF RenamesAFile, Renaming
<1>6. o.reply = "done" => davHeld'
  BY <1>1, <1>3, <1>5 DEF Effect
<1>7. CASE DavAnswered("failed")
  BY <1>5, <1>7, AnswerKeeps DEF DavWords
<1>8. CASE o.reply = "done" /\ dav.op = "upload" /\ Goes("size")
  BY <1>1, <1>5, <1>6, <1>8, GoesKeeps DEF StagesOf
<1>9. CASE o.reply = "done" /\ DavAnswered("ok")
  BY <1>5, <1>6, <1>9, AnswerKeeps DEF DavWords
<1> QED BY <1>2, <1>7, <1>8, <1>9

\* The size of what was sent.
LEMMA CheckSizeKeeps == ASSUME DavInv, CheckSize PROVE DavInv'
<1>1. dav.at = "size" /\ davHeld'
  BY DEF CheckSize, Still, DavInv, DavSaid
<1>2. \E a \in {"ok", "failed"} : DavAnswered(a)
  BY DEF CheckSize
<1>3. TreeKept
  BY <1>2, AnswerIsSame, StillKeeps DEF CheckSize, Still
<1> QED BY <1>1, <1>2, <1>3, AnswerKeeps DEF DavWords

\* list(): what it shows are the members there are.
LEMMA ListingIsTrue ==
  ASSUME NEW p \in DavPaths, NEW deep \in BOOLEAN
  PROVE  Listing(p, deep) = {q \in Members(p) : davTree[q] # "none"}
<1>1. \A q : Response(q, FALSE).at = q
  BY DEF Response
<1>2. ASSUME NEW q \in Listing(p, deep) PROVE q \in Members(p) /\ davTree[q] # "none"
  <2>1. PICK e \in ParsedPropfind(Described(p, 1, deep, FALSE)) : e.at = q
    BY DEF Listing
  <2>2. PICK d \in Described(p, 1, deep, FALSE) : e = DavEntry(d)
    BY <2>1 DEF ParsedPropfind
  <2>3. PICK s \in Under(p) : davTree[s] # "none" /\ d = Response(s, FALSE)
    BY <2>2 DEF Described
  <2>4. s = q
    BY <1>1, <2>1, <2>2, <2>3 DEF DavEntry
  <2> QED BY <2>3, <2>4 DEF Listing
<1>3. ASSUME NEW q \in Members(p), davTree[q] # "none" PROVE q \in Listing(p, deep)
  <2>1. q \in Under(p) /\ Len(q) - Len(p) <= 1
    <3>1. q \in Under(p) /\ q \in DavPaths /\ Len(q) = Len(p) + 1
      BY DEF Members, Under
    <3>2. Len(p) \in Nat
      BY UnderIsBelow
    <3> QED BY <3>1, <3>2
  <2>2. Response(q, FALSE) \in Described(p, 1, deep, FALSE)
    BY <1>3, <2>1 DEF Described
  <2>3. DavEntry(Response(q, FALSE)) \in ParsedPropfind(Described(p, 1, deep, FALSE))
    BY <2>2 DEF ParsedPropfind
  <2>4. DavEntry(Response(q, FALSE)).at = q
    BY <1>1 DEF DavEntry
  <2> QED BY <2>3, <2>4 DEF Listing
<1> QED BY <1>2, <1>3

\* So a listing holds.
LEMMA ListKeeps == ASSUME DavInv, List PROVE DavInv'
<1>1. dav.op = "list" /\ dav.new \in DavPaths /\ UNCHANGED <<davTree, stood, trampled>>
  BY StageTells DEF List, DavInv, DavStageInv
<1>2. CASE DavAnswered("failed") /\ UNCHANGED davHeld
  <2>1. TreeKept
    BY <1>1, <1>2, AnswerIsSame, StillKeeps
  <2> QED BY <1>2, <2>1, AnswerKeeps DEF DavWords
<1>3. CASE DavAnswered("ok") /\ davHeld' = TRUE
  <2>1. SameOperation
    BY <1>3, AnswerIsSame
  <2>2. DavTreeTypes' /\ RenamesAFile(dav, davTree)'
    BY <1>1, <1>3, <2>1 DEF DavInv, DavTreeTypes, RenamesAFile, SameOperation
  <2>3. DavSeen'
    BY <1>1, <1>3, <2>1 DEF DavInv, DavSeen, SameOperation
  <2> QED BY <1>3, <2>2, <2>3, AnswerKeeps DEF DavWords, TreeKept
<1>4. (\E deep \in BOOLEAN : davHeld' = (Listing(dav.new, deep)
                            = {q \in Members(dav.new) : davTree[q] # "none"})) => davHeld' = TRUE
  BY <1>1, ListingIsTrue
<1> QED BY <1>2, <1>3, <1>4 DEF List

\* Another client writes, makes or removes something.
LEMMA OtherKeeps == ASSUME DavInv, OtherClient PROVE DavInv'
<1>1. /\ dav.op # "none" /\ UNCHANGED <<dav, trampled>> /\ dav.new \in DavPaths
      /\ dav.old \in DavPaths
  BY StageTells DEF OtherClient, DavInv, DavStageInv
<1>2. PICK p \in DavPaths :
          \/ /\ davTree[p] # "dir" /\ HasParent(davTree, p)
             /\ p = dav.old => p = dav.new
             /\ Became([davTree EXCEPT ![p] = "theirs"])
          \/ /\ davTree[p] = "none" /\ HasParent(davTree, p)
             /\ p = dav.old => p = dav.new
             /\ Became([davTree EXCEPT ![p] = "dir"])
          \/ davTree[p] # "none" /\ Became(Cleared(davTree, Under(p)))
  BY DEF OtherClient
<1>3. IsTree(davTree) /\ RenamesAFile(dav, davTree)
  BY DEF DavInv, DavTreeTypes
<1>4. \E t : Became(t) /\ IsTree(t) /\ RenamesAFile(dav, t)
  <2>1. CASE /\ davTree[p] # "dir" /\ HasParent(davTree, p) /\ (p = dav.old => p = dav.new)
             /\ Became([davTree EXCEPT ![p] = "theirs"])
    <3>1. IsTree([davTree EXCEPT ![p] = "theirs"])
      BY <1>3, <2>1, TreeGrows DEF DavPlaces, DavFiles
    <3>2. RenamesAFile(dav, [davTree EXCEPT ![p] = "theirs"])
      BY <1>1, <1>3, <2>1 DEF RenamesAFile, IsTree
    <3> QED BY <2>1, <3>1, <3>2
  <2>2. CASE /\ davTree[p] = "none" /\ HasParent(davTree, p) /\ (p = dav.old => p = dav.new)
             /\ Became([davTree EXCEPT ![p] = "dir"])
    <3>1. IsTree([davTree EXCEPT ![p] = "dir"])
      BY <1>3, <2>2, TreeGrows DEF DavPlaces
    <3>2. RenamesAFile(dav, [davTree EXCEPT ![p] = "dir"])
      BY <1>1, <1>3, <2>2 DEF RenamesAFile, IsTree
    <3> QED BY <2>2, <3>1, <3>2
  <2>3. CASE Became(Cleared(davTree, Under(p)))
    <3>1. IsTree(Cleared(davTree, Under(p)))
      BY <1>3, TreeShrinks
    <3>2. RenamesAFile(dav, Cleared(davTree, Under(p)))
      BY <1>1, <1>3 DEF RenamesAFile, Cleared
    <3> QED BY <2>3, <3>1, <3>2
  <2> QED BY <1>2, <2>1, <2>2, <2>3
<1>5. PICK t : Became(t) /\ IsTree(t) /\ RenamesAFile(dav, t)
  BY <1>4
<1>6. Effect(dav, t) \in BOOLEAN /\ Effect(dav', t) = Effect(dav, t)
  BY <1>1, EffectIsOfTheOperation DEF Effect, SameOperation
<1>7. TreeKept /\ (davHeld => davHeld') /\ (stood => stood')
  BY <1>1, <1>5, <1>6 DEF TreeKept, DavTreeTypes, RenamesAFile, DavSeen, DavInv, Became
<1>8. DavStageInv' /\ DavSaid'
  BY <1>1, <1>7 DEF DavInv, DavStageInv, DavSaid
<1> QED BY <1>7, <1>8 DEF DavInv, TreeKept

(* Every request, answer and other client keeps it. *)
LEMMA DavInvStep == DavInv /\ [DavNext]_davVars => DavInv'
<1> SUFFICES ASSUME DavInv, [DavNext]_davVars PROVE DavInv'
  OBVIOUS
<1>1. CASE UNCHANGED <<davTree, dav, davHeld, stood, trampled>>
  BY <1>1 DEF DavInv, DavStageInv, DavTreeTypes, RenamesAFile, DavSeen, DavSaid
<1>2. CASE Redirected
  BY <1>1, <1>2 DEF Redirected
<1>3. CASE Probe \/ Begins
  BY <1>3, ProbeKeeps, BeginsKeep
<1>4. CASE MakeCollection \/ LookMade \/ LookBeforeCreate \/ CreateFile \/ SendDelete
  BY <1>4, MakeKeeps, LookMadeKeeps, LookBeforeCreateKeeps, CreateFileKeeps, DeleteKeeps
<1>5. CASE SendMove \/ LookNew \/ LookOld \/ SetsAside
  BY <1>5, MoveKeeps, LookNewOldKeeps, SetsAsideKeeps
<1>6. CASE SendUpload \/ CheckSize \/ List \/ OtherClient
  BY <1>6, UploadKeeps, CheckSizeKeeps, ListKeeps, OtherKeeps
<1> QED BY <1>1, <1>2, <1>3, <1>4, <1>5, <1>6 DEF DavNext, davVars

(* An answer "ok" means that the operation had its effect at some moment after *)
(* it was asked, "exists" that something stood there, and an operation that is *)
(* not to replace anything replaces nothing: for any tree and paths, any       *)
(* replies, lost replies and other clients (webdav.rs).                        *)
THEOREM DavAnswersAreKept == DavSpec => []DavAnswersAreTrue
<1>1. DavInv => DavAnswersAreTrue
  BY DEF DavInv, DavSaid, DavSeen, DavAnswersAreTrue
<1> QED BY <1>1, DavInvInit, DavInvStep, PTL DEF DavSpec
-----------------------------------------------------------------------------
(* SftpPipeline: blocks that are in flight together *)
\* The types of an upload.
UploadTypes ==
    /\ version \in Nat /\ pinned \in Nat /\ pinned <= version
    /\ source \in [Block -> Nat] /\ staging \in [Block -> Nat]
    /\ staged \in 0 .. Blocks /\ readTo \in 0 .. Blocks
    /\ wire \in Seq(Block) /\ unsent \subseteq Block
    /\ uploadPc \in {"none", "writing", "paused", "published", "failed"}

\* The record pins what is read, and a pause may outlive an edit.
ReadsWhatItPins == uploadPc = "writing" => pinned = version

\* As long as the server takes writes, the tasks go on where the file ends,
\* one after the other.
TasksInOrder ==
    uploadPc = "writing" /\ ~refusing =>
        /\ staged + Len(wire) <= readTo
        /\ \A i \in 1 .. Len(wire) : wire[i] = staged + i - 1
        /\ unsent = staged + Len(wire) .. readTo - 1

\* The staging file is a beginning of the source it is pinned to.
PrefixIsSent ==
    /\ uploadPc \in {"writing", "published"} \/ (uploadPc = "paused" /\ pinned = version) =>
          \A b \in Block : b < staged => staging[b] = source[b]
    /\ uploadPc = "published" => staged = Blocks

UploadInv == UploadTypes /\ ReadsWhatItPins /\ TasksInOrder /\ PrefixIsSent

\* A window's answers, and the beginning of the file that is written.
AnswerTypes ==
    /\ total \in 0 .. Blocks
    /\ answers = <<>> \/ answers \in [1 .. Window -> {"asked", "full", "short", "error"}]
LocalIsPrefix == local \in Seq(Nat) /\ \A i \in 1 .. Len(local) : local[i] = i - 1
DoneIsWhole == downPc = "done" => answers = <<>> /\ Len(local) = total

DownloadSideInv == AnswerTypes /\ LocalIsPrefix /\ DoneIsWhole

(* The inductive invariant of the two. *)
PipelineInv == UploadInv /\ DownloadSideInv

\* Nothing is read or sent.
LEMMA PipelineInvInit == PipelineInit => PipelineInv
<1> SUFFICES ASSUME PipelineInit PROVE PipelineInv
  OBVIOUS
<1> USE PipelineAssumption
<1>1. UploadTypes /\ ReadsWhatItPins /\ TasksInOrder
  <2>1. 0 \in Nat /\ Hole \in Nat
    BY DEF Hole
  <2>2. source \in [Block -> Nat] /\ staging \in [Block -> Nat]
    BY <2>1 DEF PipelineInit, NoBlocks
  <2> QED BY <2>1, <2>2 DEF PipelineInit, UploadTypes, ReadsWhatItPins, TasksInOrder
<1>2. PrefixIsSent
  BY DEF PipelineInit, PrefixIsSent
<1>3. DownloadSideInv
  BY DEF PipelineInit, DownloadSideInv, AnswerTypes, LocalIsPrefix, DoneIsWhole
<1> QED BY <1>1, <1>2, <1>3 DEF PipelineInv, UploadInv

\* What arrives of the wire makes the beginning longer, by what arrived.
LEMMA BeginningArrives ==
  ASSUME UploadTypes, NEW n \in 0 .. Len(wire), Lands(n),
         \A i \in 1 .. Len(wire) : wire[i] = staged + i - 1,
         staged + Len(wire) <= Blocks,
         \A b \in Block : b < staged => staging[b] = source[b]
  PROVE  /\ staged' = staged + n /\ staged' \in 0 .. Blocks
         /\ staging' \in [Block -> Nat]
         /\ \A b \in Block : b < staged' => staging'[b] = source[b]
<1> DEFINE S == {staged} \cup {b + 1 : b \in Landed(n)}
<1>0. Blocks \in Nat /\ Len(wire) \in Nat /\ staged \in Nat /\ n \in Nat /\ staged + n <= Blocks
  BY PipelineAssumption DEF UploadTypes
<1>1. Landed(n) = {staged + i - 1 : i \in 1 .. n}
  <2>1. \A i \in 1 .. n : i \in 1 .. Len(wire) /\ wire[i] = staged + i - 1
    BY <1>0
  <2> QED BY <2>1 DEF Landed
<1>2. S = staged .. staged + n
  <2>1. \A x : x \in {b + 1 : b \in Landed(n)} <=> x \in staged + 1 .. staged + n
    <3>1. ASSUME NEW x, x \in {b + 1 : b \in Landed(n)} PROVE x \in staged + 1 .. staged + n
      BY <1>0, <1>1, <3>1
    <3>2. ASSUME NEW x \in staged + 1 .. staged + n PROVE x \in {b + 1 : b \in Landed(n)}
      <4>1. x - staged \in 1 .. n /\ staged + (x - staged) - 1 = x - 1 /\ (x - 1) + 1 = x
        BY <1>0
      <4>2. x - 1 \in Landed(n)
        BY <1>1, <4>1
      <4> QED BY <4>1, <4>2
    <3> QED BY <3>1, <3>2
  <2>2. {b + 1 : b \in Landed(n)} = staged + 1 .. staged + n
    BY <2>1
  <2>3. S = {staged} \cup (staged + 1 .. staged + n)
    BY <2>2
  <2>4. \A x : x \in {staged} \cup (staged + 1 .. staged + n) <=> x \in staged .. staged + n
    BY <1>0
  <2> QED BY <2>3, <2>4
<1>3. staged + n \in S /\ (\A m \in S : m \in Int /\ m <= staged + n)
  <2> HIDE DEF S
  <2> QED BY <1>0, <1>2
<1>4. staged' = staged + n
  <2>1. staged' = CHOOSE l \in S : \A m \in S : m <= l
    BY DEF Lands
  <2>2. staged' \in S /\ \A m \in S : m <= staged'
    <3> HIDE DEF S
    <3> QED BY <1>3, <2>1
  <2> HIDE DEF S
  <2> QED BY <1>0, <1>3, <2>2
<1>5. staging' = [b \in Block |-> IF b \in Landed(n) THEN source[b] ELSE staging[b]]
  BY DEF Lands
<1>6. staging' \in [Block -> Nat]
  BY <1>5 DEF UploadTypes
<1>7. ASSUME NEW b \in Block, b < staged' PROVE staging'[b] = source[b]
  <2>1. CASE b < staged
    BY <1>5, <2>1
  <2>2. CASE ~(b < staged)
    <3>1. b \in Int /\ b - staged + 1 \in 1 .. n /\ staged + (b - staged + 1) - 1 = b
      BY <1>0, <1>4, <1>7, <2>2 DEF Block
    <3>2. b \in Landed(n)
      BY <1>1, <3>1
    <3> QED BY <1>5, <3>2
  <2> QED BY <2>1, <2>2
<1> QED BY <1>0, <1>4, <1>6, <1>7

\* An upload begins, again or where its file ends.
LEMMA UploadBegins ==
  ASSUME PipelineInv, StartUpload \/ ResumeUpload
  PROVE  UploadInv'
<1> USE PipelineAssumption
<1>0. UploadTypes /\ PrefixIsSent
  BY DEF PipelineInv, UploadInv
<1>1. UNCHANGED <<version, source>>
  BY DEF StartUpload, ResumeUpload
<1>2. CASE StartFresh
  <2>1. /\ uploadPc' = "writing" /\ readTo' = 0 /\ unsent' = {} /\ wire' = <<>>
        /\ staging' = NoBlocks /\ staged' = 0 /\ pinned' = version
    BY <1>2 DEF StartFresh, StartAt
  <2>2. staging' \in [Block -> Nat]
    BY <1>0, <2>1 DEF NoBlocks, Hole
  <2>3. UploadTypes'
    BY <1>0, <1>1, <2>1, <2>2 DEF UploadTypes
  <2>4. ReadsWhatItPins' /\ TasksInOrder' /\ PrefixIsSent'
    BY <1>0, <1>1, <2>1 DEF UploadTypes, ReadsWhatItPins, TasksInOrder, PrefixIsSent, Block
  <2> QED BY <2>3, <2>4 DEF UploadInv
<1>3. CASE ~StartFresh
  <2>1. /\ uploadPc = "paused" /\ pinned = version
        /\ StartAt(staged) /\ UNCHANGED <<staging, staged, pinned>>
    BY <1>3 DEF StartUpload, ResumeUpload, PinMatches
  <2>2. uploadPc' = "writing" /\ readTo' = staged /\ unsent' = {} /\ wire' = <<>>
    BY <2>1 DEF StartAt
  <2>3. UploadTypes'
    BY <1>0, <1>1, <2>1, <2>2 DEF UploadTypes
  <2>4. ReadsWhatItPins' /\ TasksInOrder' /\ PrefixIsSent'
    BY <1>0, <1>1, <2>1, <2>2 DEF UploadTypes, ReadsWhatItPins, TasksInOrder, PrefixIsSent
  <2> QED BY <2>3, <2>4 DEF UploadInv
<1> QED BY <1>2, <1>3

\* A task is spawned at the next block, and the first of them is sent.
LEMMA TasksMove ==
  ASSUME PipelineInv, SendsInOrder, SpawnWrite \/ SendWrite
  PROVE  UploadInv'
<1> USE PipelineAssumption
<1>0. UploadTypes /\ ReadsWhatItPins /\ TasksInOrder /\ PrefixIsSent
  BY DEF PipelineInv, UploadInv
<1>1. /\ UNCHANGED <<version, source, staging, staged, uploadPc, pinned, refusing>>
      /\ uploadPc = "writing"
  BY DEF SpawnWrite, SendWrite, fileVars
<1>2. CASE SpawnWrite
  <2>1. readTo < Blocks /\ unsent' = unsent \cup {readTo} /\ readTo' = readTo + 1 /\ wire' = wire
    BY <1>2 DEF SpawnWrite
  <2>2. /\ readTo \in Block /\ readTo \in Nat /\ readTo' \in 0 .. Blocks /\ readTo' - 1 = readTo
        /\ Len(wire) \in Nat /\ staged \in Nat
    BY <1>0, <2>1 DEF UploadTypes, Block
  <2>3. UploadTypes' /\ ReadsWhatItPins' /\ PrefixIsSent'
    BY <1>0, <1>1, <2>1, <2>2 DEF UploadTypes, ReadsWhatItPins, PrefixIsSent
  <2>4. TasksInOrder'
    <3> SUFFICES ASSUME ~refusing
                 PROVE  /\ staged + Len(wire) <= readTo + 1
                        /\ \A i \in 1 .. Len(wire) : wire[i] = staged + i - 1
                        /\ unsent' = staged + Len(wire) .. readTo
      BY <1>1, <2>1, <2>2 DEF TasksInOrder
    <3>1. /\ staged + Len(wire) <= readTo
          /\ \A i \in 1 .. Len(wire) : wire[i] = staged + i - 1
          /\ unsent = staged + Len(wire) .. readTo - 1
      BY <1>0, <1>1 DEF TasksInOrder
    <3>2. (staged + Len(wire) .. readTo - 1) \cup {readTo} = staged + Len(wire) .. readTo
      BY <2>2, <3>1
    <3>3. staged + Len(wire) <= readTo + 1
      BY <2>2, <3>1
    <3> QED BY <2>1, <3>1, <3>2, <3>3
  <2> QED BY <2>3, <2>4 DEF UploadInv
<1>3. CASE SendWrite
  <2>1. PICK b \in unsent : /\ \A c \in unsent : b <= c
                            /\ unsent' = unsent \ {b} /\ wire' = Append(wire, b)
    BY <1>3 DEF SendWrite
  <2>2. readTo' = readTo
    BY <1>3 DEF SendWrite
  <2>3. b \in Block /\ Len(wire) \in Nat /\ staged \in Nat /\ readTo \in Nat /\ wire \in Seq(Block)
    BY <1>0 DEF UploadTypes
  <2>4. wire' \in Seq(Block) /\ Len(wire') = Len(wire) + 1
        /\ \A i \in 1 .. Len(wire') : wire'[i] = IF i = Len(wire) + 1 THEN b ELSE wire[i]
    BY <2>1, <2>3
  <2>5. UploadTypes' /\ ReadsWhatItPins' /\ PrefixIsSent'
    BY <1>0, <1>1, <2>1, <2>2, <2>3, <2>4 DEF UploadTypes, ReadsWhatItPins, PrefixIsSent
  <2>6. TasksInOrder'
    <3> SUFFICES ASSUME ~refusing
                 PROVE  /\ staged + Len(wire) + 1 <= readTo
                        /\ \A i \in 1 .. Len(wire) + 1 : wire'[i] = staged + i - 1
                        /\ unsent' = staged + Len(wire) + 1 .. readTo - 1
      BY <1>1, <2>2, <2>3, <2>4 DEF TasksInOrder
    <3>1. /\ staged + Len(wire) <= readTo
          /\ \A i \in 1 .. Len(wire) : wire[i] = staged + i - 1
          /\ unsent = staged + Len(wire) .. readTo - 1
      BY <1>0, <1>1 DEF TasksInOrder
    <3>2. b = staged + Len(wire) /\ b <= readTo - 1
      <4>1. b \in staged + Len(wire) .. readTo - 1
        BY <3>1
      <4>2. staged + Len(wire) \in unsent
        BY <2>3, <3>1, <4>1
      <4>3. b <= staged + Len(wire)
        BY <2>1, <4>2
      <4> QED BY <2>3, <4>1, <4>3
    <3>3. (staged + Len(wire) .. readTo - 1) \ {b} = staged + Len(wire) + 1 .. readTo - 1
      BY <2>3, <3>2
    <3>4. ASSUME NEW i \in 1 .. Len(wire) + 1 PROVE wire'[i] = staged + i - 1
      <4>1. CASE i = Len(wire) + 1
        <5>1. wire'[i] = b
          BY <2>4, <4>1
        <5> QED BY <2>3, <3>2, <4>1, <5>1
      <4>2. CASE i # Len(wire) + 1
        <5>1. i \in 1 .. Len(wire) /\ wire'[i] = wire[i]
          BY <2>3, <2>4, <4>2
        <5> QED BY <3>1, <5>1
      <4> QED BY <4>1, <4>2
    <3> QED BY <2>1, <2>3, <3>1, <3>2, <3>3, <3>4
  <2> QED BY <2>5, <2>6 DEF UploadInv
<1> QED BY <1>2, <1>3

\* The server writes the next block.
LEMMA BlockIsWritten ==
  ASSUME PipelineInv, ServerWrites
  PROVE  UploadInv'
<1> USE PipelineAssumption
<1>0. UploadTypes /\ ReadsWhatItPins /\ TasksInOrder /\ PrefixIsSent
  BY DEF PipelineInv, UploadInv
<1>1. /\ UNCHANGED <<version, source, uploadPc, pinned, readTo, unsent, refusing>>
      /\ uploadPc = "writing" /\ ~refusing /\ wire # <<>> /\ Lands(1) /\ wire' = Tail(wire)
  BY DEF ServerWrites
<1>2. /\ staged + Len(wire) <= readTo
      /\ \A i \in 1 .. Len(wire) : wire[i] = staged + i - 1
      /\ unsent = staged + Len(wire) .. readTo - 1
  BY <1>0, <1>1 DEF TasksInOrder
<1>3. wire \in Seq(Block) /\ Len(wire) \in Nat \ {0} /\ staged \in Nat /\ readTo \in 0 .. Blocks
  BY <1>0, <1>1 DEF UploadTypes
<1>4. /\ Tail(wire) \in Seq(Block) /\ Len(Tail(wire)) = Len(wire) - 1
      /\ \A i \in 1 .. Len(Tail(wire)) : Tail(wire)[i] = wire[i + 1]
  BY <1>1, <1>3
<1>5. \A b \in Block : b < staged => staging[b] = source[b]
  <2>1. uploadPc = "writing"
    BY <1>1
  <2> QED BY <1>0, <2>1 DEF PrefixIsSent
<1>6. /\ staged' = staged + 1 /\ staged' \in 0 .. Blocks
      /\ staging' \in [Block -> Nat]
      /\ \A b \in Block : b < staged' => staging'[b] = source[b]
  BY <1>0, <1>1, <1>2, <1>3, <1>5, BeginningArrives
<1>7. UploadTypes' /\ ReadsWhatItPins' /\ PrefixIsSent'
  BY <1>0, <1>1, <1>4, <1>6 DEF UploadTypes, ReadsWhatItPins, PrefixIsSent
<1>8. TasksInOrder'
  <2>1. staged' + Len(wire') <= readTo /\ staged' + Len(wire') = staged + Len(wire)
    BY <1>1, <1>2, <1>3, <1>4, <1>6
  <2>2. \A i \in 1 .. Len(wire') : wire'[i] = staged' + i - 1
    BY <1>1, <1>2, <1>3, <1>4, <1>6
  <2> QED BY <1>1, <1>2, <2>1, <2>2 DEF TasksInOrder
<1> QED BY <1>7, <1>8 DEF UploadInv

\* The server refuses, the connection goes, or the upload is paused: what is
\* on the wire arrives from its beginning or not at all.
LEMMA UploadStops ==
  ASSUME PipelineInv, ServerRefuses \/ ConnectionCut \/ PauseUpload
  PROVE  UploadInv'
<1> USE PipelineAssumption
<1>0. UploadTypes /\ ReadsWhatItPins /\ TasksInOrder /\ PrefixIsSent
  BY DEF PipelineInv, UploadInv
<1>1. UNCHANGED <<version, source, pinned, readTo>> /\ uploadPc = "writing"
      /\ uploadPc' \in {"writing", "paused"} /\ (uploadPc' = "writing" => refusing' = TRUE)
  BY DEF ServerRefuses, ConnectionCut, PauseUpload, fileVars
<1>2. wire' \in Seq(Block) /\ unsent' \subseteq Block
  <2>1. CASE ServerRefuses
    <3>1. wire # <<>> /\ wire' = Tail(wire) /\ unsent' = unsent /\ wire \in Seq(Block)
      BY <1>0, <2>1 DEF ServerRefuses, UploadTypes
    <3> QED BY <1>0, <3>1 DEF UploadTypes
  <2>2. CASE ConnectionCut \/ PauseUpload
    <3>1. wire' = <<>> /\ unsent' = {}
      BY <2>2 DEF ConnectionCut, PauseUpload
    <3> QED BY <3>1
  <2> QED BY <2>1, <2>2
<1>3. staged' \in 0 .. Blocks /\ staging' \in [Block -> Nat]
      /\ \A b \in Block : b < staged' => staging'[b] = source[b]
  <2>1. \A b \in Block : b < staged => staging[b] = source[b]
    <3>1. uploadPc = "writing"
      BY <1>1
    <3> QED BY <1>0, <3>1 DEF PrefixIsSent
  <2>2. CASE UNCHANGED <<staging, staged>>
    BY <1>0, <2>1, <2>2 DEF UploadTypes
  <2>3. CASE ~UNCHANGED <<staging, staged>>
    <3>1. ~refusing /\ \E n \in 0 .. Len(wire) : Lands(n)
      BY <2>3 DEF ServerRefuses, ConnectionCut, PauseUpload, fileVars
    <3>2. /\ \A i \in 1 .. Len(wire) : wire[i] = staged + i - 1
          /\ staged + Len(wire) <= readTo /\ readTo \in 0 .. Blocks
          /\ Len(wire) \in Nat /\ staged \in Nat
      BY <1>0, <1>1, <3>1 DEF TasksInOrder, UploadTypes
    <3>3. staged + Len(wire) <= Blocks
      BY <3>2
    <3> QED BY <1>0, <2>1, <3>1, <3>2, <3>3, BeginningArrives
  <2> QED BY <2>2, <2>3
<1>4. UploadTypes'
  BY <1>0, <1>1, <1>2, <1>3 DEF UploadTypes
<1>5. ReadsWhatItPins' /\ TasksInOrder' /\ PrefixIsSent'
  BY <1>0, <1>1, <1>3 DEF ReadsWhatItPins, TasksInOrder, PrefixIsSent
<1> QED BY <1>4, <1>5 DEF UploadInv

\* The other steps of an upload, and those of a download.
LEMMA UploadGoesOn ==
  ASSUME PipelineInv,
         \/ SourceEnds \/ WriteReply \/ UploadEnds \/ EditLocal
         \/ AskWindow \/ ReadReply \/ RemoteChanges \/ WriteWindow \/ UNCHANGED pipelineVars
  PROVE  UploadInv'
<1> USE PipelineAssumption
<1>0. UploadTypes /\ ReadsWhatItPins /\ TasksInOrder /\ PrefixIsSent
  BY DEF PipelineInv, UploadInv
<1>1. CASE \/ SourceEnds \/ WriteReply
           \/ AskWindow \/ ReadReply \/ RemoteChanges \/ WriteWindow \/ UNCHANGED pipelineVars
  <2>1. UNCHANGED <<version, source, staging, staged, uploadPc, pinned, readTo, unsent, wire,
                    refusing>>
    BY <1>1 DEF SourceEnds, WriteReply, AskWindow, ReadReply, RemoteChanges, WriteWindow,
       pipelineVars, fileVars, writeVars
  <2> QED BY <1>0, <2>1 DEF UploadInv, UploadTypes, ReadsWhatItPins, TasksInOrder, PrefixIsSent
<1>2. CASE UploadEnds
  <2>1. /\ UNCHANGED <<version, source, staging, staged, pinned, readTo, unsent, wire, refusing>>
        /\ uploadPc = "writing" /\ uploadPc' \in {"published", "failed", "paused"}
        /\ uploadPc' = "published" => staged = Blocks
    BY <1>2 DEF UploadEnds, writeVars, Whole
  <2> QED BY <1>0, <2>1 DEF UploadInv, UploadTypes, ReadsWhatItPins, TasksInOrder, PrefixIsSent
<1>3. CASE EditLocal
  <2>1. /\ UNCHANGED <<staging, staged, uploadPc, pinned, readTo, unsent, wire, refusing>>
        /\ uploadPc = "paused" /\ version' = version + 1
        /\ \E changed \in SUBSET Block :
              source' = [b \in Block |-> IF b \in changed THEN version + 1 ELSE source[b]]
    BY <1>3 DEF EditLocal, writeVars
  <2>2. source' \in [Block -> Nat] /\ version' \in Nat /\ pinned < version'
    BY <1>0, <2>1 DEF UploadTypes
  <2> QED BY <1>0, <2>1, <2>2 DEF UploadInv, UploadTypes, ReadsWhatItPins, TasksInOrder,
      PrefixIsSent
<1> QED BY <1>1, <1>2, <1>3

\* As many numbers as there are places, in order: each in its place.
LEMMA InOrderInPlace ==
  ASSUME NEW low \in Nat, NEW k \in Nat, NEW f \in [1 .. k -> low .. low + k - 1],
         \A i, j \in 1 .. k : i < j => f[i] < f[j]
  PROVE  \A i \in 1 .. k : f[i] = low + i - 1
<1> SUFFICES ASSUME NEW i \in 1 .. k PROVE f[i] = low + i - 1
  OBVIOUS
<1>0. f[i] \in low .. low + k - 1 /\ f[i] \in Int /\ i \in Int
  OBVIOUS
<1>1. i - 1 <= f[i] - low
  <2> DEFINE before == [j \in 1 .. i - 1 |-> f[j]]
  <2>1. before \in Injection(1 .. i - 1, low .. f[i] - 1)
    <3>1. before \in [1 .. i - 1 -> low .. f[i] - 1]
      <4> SUFFICES ASSUME NEW j \in 1 .. i - 1 PROVE f[j] \in low .. f[i] - 1
        OBVIOUS
      <4>1. j \in 1 .. k /\ j < i
        BY <1>0
      <4>2. f[j] < f[i] /\ f[j] \in low .. low + k - 1
        BY <4>1
      <4> QED BY <1>0, <4>2
    <3>2. \A a, b \in 1 .. i - 1 : before[a] = before[b] => a = b
      <4> SUFFICES ASSUME NEW a \in 1 .. i - 1, NEW b \in 1 .. i - 1, f[a] = f[b] PROVE a = b
        OBVIOUS
      <4>1. a \in 1 .. k /\ b \in 1 .. k /\ f[a] \in Int /\ f[b] \in Int
        BY <1>0
      <4> QED BY <4>1
    <3> QED BY <3>1, <3>2 DEF Injection, IsInjective
  <2> HIDE DEF before
  <2>2. /\ IsFiniteSet(low .. f[i] - 1)
        /\ Cardinality(low .. f[i] - 1) = IF low > f[i] - 1 THEN 0 ELSE f[i] - 1 - low + 1
        /\ Cardinality(1 .. i - 1) = IF 1 > i - 1 THEN 0 ELSE i - 1 - 1 + 1
    <3>1. low \in Int /\ f[i] - 1 \in Int /\ 1 \in Int /\ i - 1 \in Int
      BY <1>0
    <3>2. /\ IsFiniteSet(low .. f[i] - 1)
          /\ Cardinality(low .. f[i] - 1) = IF low > f[i] - 1 THEN 0 ELSE f[i] - 1 - low + 1
      BY ONLY <3>1, FS_Interval
    <3>3. Cardinality(1 .. i - 1) = IF 1 > i - 1 THEN 0 ELSE i - 1 - 1 + 1
      BY ONLY <3>1, FS_Interval
    <3> QED BY <3>2, <3>3
  <2>3. Cardinality(1 .. i - 1) <= Cardinality(low .. f[i] - 1)
    BY <2>1, <2>2, FS_Injection
  <2> QED BY <1>0, <2>2, <2>3
<1>2. k - i <= low + k - 1 - f[i]
  <2> DEFINE behind == [j \in i + 1 .. k |-> f[j]]
  <2>1. behind \in Injection(i + 1 .. k, f[i] + 1 .. low + k - 1)
    <3>1. behind \in [i + 1 .. k -> f[i] + 1 .. low + k - 1]
      <4> SUFFICES ASSUME NEW j \in i + 1 .. k PROVE f[j] \in f[i] + 1 .. low + k - 1
        OBVIOUS
      <4>1. j \in 1 .. k /\ i < j
        BY <1>0
      <4>2. f[i] < f[j] /\ f[j] \in low .. low + k - 1
        BY <4>1
      <4> QED BY <1>0, <4>2
    <3>2. \A a, b \in i + 1 .. k : behind[a] = behind[b] => a = b
      <4> SUFFICES ASSUME NEW a \in i + 1 .. k, NEW b \in i + 1 .. k, f[a] = f[b] PROVE a = b
        OBVIOUS
      <4>1. a \in 1 .. k /\ b \in 1 .. k /\ f[a] \in Int /\ f[b] \in Int
        BY <1>0
      <4> QED BY <4>1
    <3> QED BY <3>1, <3>2 DEF Injection, IsInjective
  <2> HIDE DEF behind
  <2>2. /\ IsFiniteSet(f[i] + 1 .. low + k - 1)
        /\ Cardinality(f[i] + 1 .. low + k - 1)
              = IF f[i] + 1 > low + k - 1 THEN 0 ELSE low + k - 1 - (f[i] + 1) + 1
        /\ Cardinality(i + 1 .. k) = IF i + 1 > k THEN 0 ELSE k - (i + 1) + 1
    <3>1. f[i] + 1 \in Int /\ low + k - 1 \in Int /\ i + 1 \in Int /\ k \in Int
      BY <1>0
    <3>2. /\ IsFiniteSet(f[i] + 1 .. low + k - 1)
          /\ Cardinality(f[i] + 1 .. low + k - 1)
              = IF f[i] + 1 > low + k - 1 THEN 0 ELSE low + k - 1 - (f[i] + 1) + 1
      <4> DEFINE a == f[i] + 1
      <4> DEFINE b == low + k - 1
      <4>1. a \in Int /\ b \in Int
        BY <3>1
      <4> HIDE DEF a, b
      <4>2. IsFiniteSet(a .. b) /\ Cardinality(a .. b) = IF a > b THEN 0 ELSE b - a + 1
        BY ONLY <4>1, FS_Interval
      <4> QED BY <4>2 DEF a, b
    <3>3. Cardinality(i + 1 .. k) = IF i + 1 > k THEN 0 ELSE k - (i + 1) + 1
      BY ONLY <3>1, FS_Interval
    <3> QED BY <3>2, <3>3
  <2>3. Cardinality(i + 1 .. k) <= Cardinality(f[i] + 1 .. low + k - 1)
    BY <2>1, <2>2, FS_Injection
  <2> QED BY <1>0, <2>2, <2>3
<1> QED BY <1>0, <1>1, <1>2

\* An interval of a number of places.
LEMMA IntervalSize ==
  ASSUME NEW low \in Nat, NEW k \in Nat
  PROVE  Cardinality(low .. low + k - 1) = k
<1> DEFINE high == low + k - 1
<1>1. low \in Int /\ high \in Int
  OBVIOUS
<1>2. Cardinality(low .. high) = IF low > high THEN 0 ELSE high - low + 1
  <2> HIDE DEF high
  <2> QED BY <1>1, FS_Interval
<1> QED BY <1>2

\* A set that holds what is below what it holds is an interval.
LEMMA DownwardIsInterval ==
  ASSUME NEW n \in Nat, NEW S \in SUBSET (1 .. n), \A j \in S : \A i \in 1 .. j : i \in S
  PROVE  Cardinality(S) \in Nat /\ S = 1 .. Cardinality(S)
<1>1. IsFiniteSet(S) /\ Cardinality(S) \in Nat
  <2>1. IsFiniteSet(1 .. n)
    <3>1. 1 \in Int /\ n \in Int
      OBVIOUS
    <3> QED BY ONLY <3>1, FS_Interval
  <2>2. IsFiniteSet(S)
    BY <2>1, FS_Subset
  <2> QED BY <2>2, FS_CardinalityType
<1>2. ASSUME NEW j \in S PROVE j \in 1 .. Cardinality(S)
  <2>1. 1 .. j \in SUBSET S /\ j \in Nat
    OBVIOUS
  <2>2. Cardinality(1 .. j) <= Cardinality(S)
    BY <1>1, <2>1, FS_Subset
  <2>3. Cardinality(1 .. j) = IF 1 > j THEN 0 ELSE j - 1 + 1
    BY <2>1, FS_Interval
  <2> QED BY <1>1, <2>1, <2>2, <2>3
<1>3. S \in SUBSET (1 .. Cardinality(S))
  BY <1>2
<1>4. /\ IsFiniteSet(1 .. Cardinality(S))
      /\ Cardinality(1 .. Cardinality(S)) = Cardinality(S)
  <2>1. 1 \in Int /\ Cardinality(S) \in Int
    BY <1>1
  <2>2. /\ IsFiniteSet(1 .. Cardinality(S))
        /\ Cardinality(1 .. Cardinality(S))
              = IF 1 > Cardinality(S) THEN 0 ELSE Cardinality(S) - 1 + 1
    BY <2>1, FS_Interval
  <2> QED BY <1>1, <2>2
<1> QED BY <1>1, <1>3, <1>4, FS_Subset

\* All of a window have answered: what is written goes on where the file ends.
LEMMA WindowGoesOn ==
  ASSUME PipelineInv, WriteWindow
  PROVE  DownloadSideInv'
<1> USE PipelineAssumption
<1>0. AnswerTypes /\ LocalIsPrefix /\ Len(local) \in Nat
  BY DEF PipelineInv, DownloadSideInv, LocalIsPrefix
<1> DEFINE full == Replied("full")
<1> DEFINE got == {Len(local) + i - 1 : i \in full}
<1> DEFINE reached == Len(local) + Cardinality(got)
<1> DEFINE Sorted(s) == \A i, j \in DOMAIN s : i < j => s[i] < s[j]
<1> DEFINE written == CHOOSE s \in [1 .. Cardinality(got) -> got] : Sorted(s)
<1> DEFINE broken == Replied("error") # {} \/ BeyondEof \/ reached > total
<1>1. /\ answers # <<>> /\ Replied("asked") = {} /\ answers' = <<>> /\ total' = total
      /\ local' = IF broken \/ reached > Blocks THEN local ELSE local \o written
      /\ downPc' = IF broken \/ (Replied("short") # {} /\ reached # total) THEN "failed"
                   ELSE IF Replied("short") # {} THEN "done" ELSE "reading"
  BY DEF WriteWindow
<1>2. answers \in [1 .. Window -> {"asked", "full", "short", "error"}] /\ Window \in Nat
  BY <1>0, <1>1 DEF AnswerTypes
<1>3. ASSUME ~broken
      PROVE  /\ reached \in Nat /\ reached <= total
             /\ local \o written \in Seq(Nat) /\ Len(local \o written) = reached
             /\ \A i \in 1 .. reached : (local \o written)[i] = i - 1
  <2> DEFINE k == Cardinality(full)
  <2>1. full \in SUBSET (1 .. Window) /\ \A j \in full : \A i \in 1 .. j : i \in full
    <3>1. full \in SUBSET (1 .. Window)
      BY <1>2 DEF Replied
    <3>2. ASSUME NEW j \in full, NEW i \in 1 .. j PROVE i \in full
      <4>1. i \in 1 .. Window /\ j \in 1 .. Window /\ i \in Int /\ j \in Int
        BY <3>1, <1>2
      <4>2. answers[i] # "asked" /\ answers[i] # "error"
        BY <1>1, <1>2, <1>3, <4>1 DEF Replied
      <4>3. answers[i] # "short"
        <5>1. CASE i = j
          BY <5>1 DEF Replied
        <5>2. CASE i # j
          <6>1. i < j
            BY <4>1, <5>2
          <6>2. ~BeyondEof
            BY <1>3
          <6> QED BY <1>2, <4>1, <6>1, <6>2 DEF BeyondEof, Replied
        <5> QED BY <5>1, <5>2
      <4>4. answers[i] = "full"
        BY <1>2, <4>1, <4>2, <4>3
      <4> QED BY <1>2, <4>1, <4>4 DEF Replied
    <3> QED BY <3>1, <3>2
  <2>2. k \in Nat /\ full = 1 .. k
    <3> HIDE DEF full
    <3> QED BY <1>2, <2>1, DownwardIsInterval
  <2> HIDE DEF full, k
  <2>3. got = Len(local) .. Len(local) + k - 1
    <3>1. ASSUME NEW x, x \in got PROVE x \in Len(local) .. Len(local) + k - 1
      BY <1>0, <2>2, <3>1
    <3>2. ASSUME NEW x \in Len(local) .. Len(local) + k - 1 PROVE x \in got
      <4>1. x - Len(local) + 1 \in 1 .. k /\ Len(local) + (x - Len(local) + 1) - 1 = x
        BY <1>0, <2>2
      <4> QED BY <2>2, <4>1
    <3> QED BY <3>1, <3>2
  <2> HIDE DEF got
  <2>4. Cardinality(got) = k
    <3>1. Cardinality(Len(local) .. Len(local) + k - 1) = k
      BY <1>0, <2>2, IntervalSize
    <3> QED BY <2>3, <3>1
  <2>5. written \in [1 .. k -> Len(local) .. Len(local) + k - 1]
        /\ \A i, j \in 1 .. k : i < j => written[i] < written[j]
    <3> DEFINE one == [i \in 1 .. k |-> Len(local) + i - 1]
    <3>1. one \in [1 .. k -> Len(local) .. Len(local) + k - 1]
      BY <1>0, <2>2
    <3>2. Sorted(one)
      BY <1>0, <2>2
    <3>3. written \in [1 .. Cardinality(got) -> got] /\ Sorted(written)
      <4> HIDE DEF one, Sorted
      <4> QED BY <2>3, <2>4, <3>1, <3>2
    <3> HIDE DEF written
    <3> QED BY <2>3, <2>4, <3>3
  <2> HIDE DEF written
  <2>6. \A i \in 1 .. k : written[i] = Len(local) + i - 1
    BY <1>0, <2>2, <2>5, InOrderInPlace
  <2>7. written \in Seq(Nat) /\ Len(written) = k
    <3>1. written \in [1 .. k -> Nat]
      BY <1>0, <2>2, <2>5
    <3> QED BY <2>2, <3>1
  <2>8. local \in Seq(Nat) /\ \A i \in 1 .. Len(local) : local[i] = i - 1
    BY <1>0 DEF LocalIsPrefix
  <2>9. local \o written \in Seq(Nat) /\ Len(local \o written) = Len(local) + k
    <3>1. local \in Seq(Nat) /\ written \in Seq(Nat) /\ Len(local) \in Nat /\ Len(written) = k
      BY <1>0, <2>7, <2>8
    <3>2. local \o written \in Seq(Nat)
      BY ONLY <3>1
    <3>3. Len(local \o written) = Len(local) + Len(written)
      BY ONLY <3>1
    <3> QED BY <3>1, <3>2, <3>3
  <2>10. \A i \in 1 .. Len(local) + k :
            (local \o written)[i] = IF i <= Len(local) THEN local[i] ELSE written[i - Len(local)]
    BY <2>7, <2>8
  <2>11. ASSUME NEW i \in 1 .. Len(local) + k PROVE (local \o written)[i] = i - 1
    <3>1. CASE i <= Len(local)
      BY <1>0, <2>2, <2>8, <2>10, <3>1
    <3>2. CASE ~(i <= Len(local))
      <4>1. i - Len(local) \in 1 .. k /\ Len(local) + (i - Len(local)) - 1 = i - 1
        BY <1>0, <2>2, <3>2
      <4> QED BY <2>6, <2>10, <3>2, <4>1
    <3> QED BY <3>1, <3>2
  <2>12. reached = Len(local) + k
    BY <2>4
  <2>13. ~(reached > total)
    BY <1>3
  <2>14. total \in Nat
    BY <1>0 DEF AnswerTypes
  <2> HIDE DEF reached
  <2> QED BY <1>0, <2>2, <2>9, <2>11, <2>12, <2>13, <2>14
<1> HIDE DEF broken, reached, written
<1>4. total \in 0 .. Blocks
  BY <1>0 DEF AnswerTypes
<1>5. LocalIsPrefix'
  <2>1. CASE local' = local
    BY <1>0, <2>1 DEF LocalIsPrefix
  <2>2. CASE local' # local
    <3>1. ~broken /\ local' = local \o written
      BY <1>1, <2>2
    <3> QED BY <1>3, <3>1 DEF LocalIsPrefix
  <2> QED BY <2>1, <2>2
<1>6. DoneIsWhole'
  <2> SUFFICES ASSUME downPc' = "done" PROVE Len(local') = total'
    BY <1>1 DEF DoneIsWhole
  <2>1. ~broken /\ reached = total
    BY <1>1
  <2>2. ~(reached > Blocks)
    BY <1>4, <2>1
  <2>3. local' = local \o written
    BY <1>1, <2>1, <2>2
  <2> QED BY <1>1, <1>3, <2>1, <2>3
<1> QED BY <1>1, <1>4, <1>5, <1>6 DEF DownloadSideInv, AnswerTypes

\* The other steps of a download, and those of an upload.
LEMMA DownloadGoesOn ==
  ASSUME PipelineInv, PipelineNext \/ UNCHANGED pipelineVars, ~WriteWindow
  PROVE  DownloadSideInv'
<1> USE PipelineAssumption
<1>0. AnswerTypes /\ LocalIsPrefix /\ DoneIsWhole
  BY DEF PipelineInv, DownloadSideInv
<1>1. CASE UNCHANGED <<total, downPc, answers, local>>
  BY <1>0, <1>1 DEF DownloadSideInv, AnswerTypes, LocalIsPrefix, DoneIsWhole
<1>2. CASE AskWindow
  <2>1. /\ UNCHANGED <<total, local>> /\ downPc' = "reading"
        /\ answers' = [i \in 1 .. Window |-> "asked"]
    BY <1>2 DEF AskWindow
  <2> QED BY <1>0, <2>1 DEF DownloadSideInv, AnswerTypes, LocalIsPrefix, DoneIsWhole
<1>3. CASE ReadReply
  <2>1. /\ UNCHANGED <<total, local, downPc>> /\ answers # <<>>
        /\ \E i \in DOMAIN answers, answer \in {"full", "short", "error"} :
              answers' = [answers EXCEPT ![i] = answer]
    <3>1. PICK i \in DOMAIN answers :
            \E answer \in {IF Len(local) + i <= remoteLen THEN "full" ELSE "short", "error"} :
               answers' = [answers EXCEPT ![i] = answer]
      BY <1>3 DEF ReadReply
    <3>2. answers # <<>>
      BY <3>1
    <3>3. \E answer \in {"full", "short", "error"} : answers' = [answers EXCEPT ![i] = answer]
      BY <3>1
    <3> QED BY <1>3, <3>2, <3>3 DEF ReadReply
  <2>2. answers' \in [1 .. Window -> {"asked", "full", "short", "error"}]
    BY <1>0, <2>1 DEF AnswerTypes
  <2> QED BY <1>0, <2>1, <2>2 DEF DownloadSideInv, AnswerTypes, LocalIsPrefix, DoneIsWhole
<1>4. AskWindow \/ ReadReply \/ UNCHANGED <<total, downPc, answers, local>>
  BY DEF PipelineNext, StartUpload, SpawnWrite, SourceEnds, SendWrite, ServerWrites, ServerRefuses,
     ConnectionCut, WriteReply, UploadEnds, PauseUpload, EditLocal, ResumeUpload, RemoteChanges,
     readVars, pipelineVars
<1> QED BY <1>1, <1>2, <1>3, <1>4

(* Every block, reply, pause, edit and lost connection keeps it. *)
LEMMA PipelineInvStep ==
  ASSUME SendsInOrder, PipelineInv, [PipelineNext]_pipelineVars
  PROVE  PipelineInv'
<1>1. UploadInv'
  BY UploadBegins, TasksMove, BlockIsWritten, UploadStops, UploadGoesOn DEF PipelineNext
<1>2. DownloadSideInv'
  BY WindowGoesOn, DownloadGoesOn
<1> QED BY <1>1, <1>2 DEF PipelineInv

\* What it says about files that were put in place.
LEMMA PipelineInvHolds == PipelineInv => EveryBlockInItsPlace
<1> SUFFICES ASSUME PipelineInv PROVE EveryBlockInItsPlace
  OBVIOUS
<1> USE PipelineAssumption
<1>1. ASSUME uploadPc = "published" PROVE staging = source
  <2>1. staged = Blocks /\ \A b \in Block : b < staged => staging[b] = source[b]
    BY <1>1 DEF PipelineInv, UploadInv, PrefixIsSent
  <2>2. \A b \in Block : b < Blocks
    BY DEF Block
  <2>3. source \in [Block -> Nat] /\ staging \in [Block -> Nat]
    BY DEF PipelineInv, UploadInv, UploadTypes
  <2>4. \A b \in Block : staging[b] = source[b]
    BY <2>1, <2>2
  <2> QED BY <2>3, <2>4
<1>2. ASSUME downPc = "done" PROVE local = [i \in 1 .. total |-> i - 1]
  <2>1. local \in Seq(Nat) /\ Len(local) = total /\ \A i \in 1 .. total : local[i] = i - 1
    BY <1>2 DEF PipelineInv, DownloadSideInv, LocalIsPrefix, DoneIsWhole
  <2>2. local = [i \in 1 .. Len(local) |-> local[i]]
    BY <2>1
  <2> QED BY <2>1, <2>2
<1> QED BY <1>1, <1>2 DEF EveryBlockInItsPlace

(* A published upload is its source and a finished download its file, block by *)
(* block: for a file of any length, any window, any number of pauses, edits,   *)
(* refusals and cuts, as long as the tasks leave in the order they are spawned *)
(* (pipeline.rs: write_pipelined, read_pipelined).                             *)
THEOREM BlocksStayInPlace == SendsInOrder => (PipelineSpec => []EveryBlockInItsPlace)
<1> SUFFICES ASSUME SendsInOrder PROVE PipelineSpec => []EveryBlockInItsPlace
  OBVIOUS
<1>1. PipelineInv /\ [PipelineNext]_pipelineVars => PipelineInv'
  BY PipelineInvStep
<1> QED BY <1>1, PipelineInvInit, PipelineInvHolds, PTL DEF PipelineSpec
=============================================================================
