--------------------------- MODULE SensitiveGrants ---------------------------
(***************************************************************************)
(* One-use grants for sensitive commands: what the backend asks the user   *)
(* before it issues one, and what takes an unused one away                 *)
(* (src-tauri/src/security/sensitive.rs, security/vault_guard.rs,          *)
(* runtime/vault_auto_lock.rs, commands/settings.rs, commands/vault.rs).   *)
(* A request is the renderer's authorize_sensitive and the command it      *)
(* authorizes.  Of the sixteen operations four stand for their kinds:      *)
(* "reveal" asks for the password while there is a vault, "reset" always   *)
(* asks, "protect" writes the protected settings and asks when it weakens  *)
(* them, "delete" never asks.                                              *)
(***************************************************************************)
EXTENDS Naturals, FiniteSets

CONSTANTS
    Requests,
    MaxGrants, MaxPendingConfirmations,   \* MAX_GRANTS, MAX_PENDING_CONFIRMATIONS
    MaxAttempts,                          \* VaultGuard.max_attempts
    MaxLocks, MaxSetups                   \* bounds on what the user does

NoRequest == "nobody"

ASSUME GrantsAssumption ==
    /\ IsFiniteSet(Requests) /\ NoRequest \notin Requests
    /\ {MaxGrants, MaxPendingConfirmations, MaxAttempts, MaxLocks, MaxSetups} \subseteq Nat

VARIABLES
    vault,         \* "none", "locked" or "open"
    lockEpoch,     \* Vault.lock_epoch
    guarded,       \* showSecurityConfirmations and the idle lock are on
    wants,         \* request -> [op, weakens, asks, proof]: what it resolved to
    stage,         \* request -> where it is
    pending,       \* AuthorizationState.pending
    grants,        \* AuthorizationState.grants: request -> epoch, NoEpoch if none
    expired,       \* grants whose time is up
    kdfSlot,       \* VaultGuard.kdf_slot
    refusals,      \* VaultGuard.attempts: failures in the window
    locking,       \* lock_now: "no", "bumped", "taken"
    proved,        \* history: requests whose window had the password
    outlived,      \* history: grants the vault was locked after
    setups

grantVars == <<vault, lockEpoch, guarded, wants, stage, pending, grants, expired,
               kdfSlot, refusals, locking, proved, outlived, setups>>
world == <<lockEpoch, locking, outlived, setups>>
guardVars == <<kdfSlot, refusals>>

GrantOps == {"reveal", "reset", "protect", "delete"}
NoEpoch == MaxLocks + 1
Live == {r \in Requests : grants[r] # NoEpoch}

GrantsTypeOK ==
    /\ vault \in {"none", "locked", "open"} /\ lockEpoch \in 0..MaxLocks
    /\ guarded \in BOOLEAN
    /\ wants \in [Requests -> [op : GrantOps, weakens : BOOLEAN, asks : BOOLEAN,
                               proof : BOOLEAN]]
    /\ stage \in [Requests -> {"new", "planned", "asked", "checking", "answered", "confirmed", "issued",
                               "reveal", "delete", "protect", "withdraw", "reset", "remove",
                               "over"}]
    /\ pending \subseteq Requests /\ Cardinality(pending) <= MaxPendingConfirmations
    /\ grants \in [Requests -> 0..NoEpoch] /\ expired \subseteq Requests
    /\ Cardinality(Live) <= MaxGrants
    /\ kdfSlot \in Requests \cup {NoRequest} /\ refusals \in 0..MaxAttempts
    /\ locking \in {"no", "bumped", "taken"}
    /\ proved \subseteq Requests /\ outlived \subseteq Requests /\ setups \in 0..MaxSetups

GrantsInit ==
    /\ vault = "none" /\ lockEpoch = 0 /\ guarded = TRUE
    /\ wants = [r \in Requests |->
                  [op |-> "delete", weakens |-> FALSE, asks |-> FALSE, proof |-> FALSE]]
    /\ stage = [r \in Requests |-> "new"]
    /\ pending = {} /\ grants = [r \in Requests |-> NoEpoch] /\ expired = {}
    /\ kdfSlot = NoRequest /\ refusals = 0 /\ locking = "no"
    /\ proved = {} /\ outlived = {} /\ setups = 0

Enter(r, s) == stage' = [stage EXCEPT ![r] = s]

\* authorize_sensitive: the settings and the vault's state are read, and decide
\* whether a window asks and whether it asks for the password.
PlanRequest(r, op, weaken) ==
    LET weakens  == op = "protect" /\ weaken /\ guarded
        proof    == vault # "none" /\ (op = "reveal" \/ weakens)
        required == op \in {"reveal", "reset"} \/ weakens
    IN  /\ stage[r] = "new" /\ (weaken => op = "protect")
        /\ wants' = [wants EXCEPT ![r] =
             [op |-> op, weakens |-> weaken, proof |-> proof,
              asks |-> proof \/ (required /\ (guarded \/ op # "reveal"))]]
        /\ Enter(r, "planned")
        /\ UNCHANGED <<vault, guarded, pending, grants, expired, guardVars, proved, world>>

\* add_pending and the window, or the refusal of one window too many.
Ask(r) ==
    /\ stage[r] = "planned" /\ wants[r].asks
    /\ IF Cardinality(pending) < MaxPendingConfirmations
         THEN pending' = pending \cup {r} /\ Enter(r, "asked")
         ELSE Enter(r, "over") /\ UNCHANGED pending
    /\ UNCHANGED <<vault, guarded, wants, grants, expired, guardVars, proved, world>>

\* respond_sensitive_confirmation of a window that asks for the password: the
\* guard's slot, unless too many passwords were wrong.
StartCheck(r) ==
    /\ stage[r] = "asked" /\ wants[r].proof /\ kdfSlot = NoRequest
    /\ refusals < MaxAttempts
    /\ kdfSlot' = r /\ Enter(r, "checking")
    /\ UNCHANGED <<vault, guarded, wants, pending, grants, expired, refusals, proved, world>>

\* reauthenticate: the password opens a locked vault, and the slot is given up
\* once the outcome is recorded.  A vault that is gone cannot be read.
CheckPassword(r) ==
    /\ stage[r] = "checking" /\ kdfSlot' = NoRequest
    /\ \/ /\ vault # "none" /\ vault' = "open" /\ refusals' = 0
          /\ proved' = proved \cup {r} /\ Enter(r, "answered")
       \/ /\ vault # "none" /\ refusals' = refusals + 1
          /\ Enter(r, "asked") /\ UNCHANGED <<vault, proved>>
       \/ /\ vault = "none" /\ Enter(r, "asked") /\ UNCHANGED <<vault, refusals, proved>>
    /\ UNCHANGED <<guarded, wants, pending, grants, expired, world>>

\* The answer takes the request out of the map, and only the one that did goes on.
Approve(r) ==
    /\ r \in pending /\ (stage[r] = "answered" \/ (stage[r] = "asked" /\ ~wants[r].proof))
    /\ pending' = pending \ {r} /\ Enter(r, "confirmed")
    /\ UNCHANGED <<vault, guarded, wants, grants, expired, guardVars, proved, world>>

\* The window is closed, answered with no, or unanswered for 300 s: also while
\* the password it was given is still being checked, which then opens the vault
\* and finds nothing to answer.
RejectPending(r) ==
    /\ r \in pending /\ pending' = pending \ {r}
    /\ UNCHANGED <<vault, guarded, wants, stage, grants, expired, guardVars, proved, world>>
Cancelled(r) ==
    /\ stage[r] \in {"asked", "answered"} /\ r \notin pending
    /\ Enter(r, "over")
    /\ UNCHANGED <<vault, guarded, wants, pending, grants, expired, guardVars, proved, world>>

\* Mutant: the size is compared after the new grant was counted in.
RoomAfterInsert(kept) == Cardinality(kept) <= MaxGrants
RoomForGrant(kept) == Cardinality(kept) < MaxGrants

\* issue_token_for_label: expired grants make room, the epoch is read under the
\* lock of the map, and a full map refuses.
Issue(r) ==
    LET kept == Live \ expired
    IN  /\ stage[r] = "confirmed" \/ (stage[r] = "planned" /\ ~wants[r].asks)
        /\ expired' = {}
        /\ IF RoomForGrant(kept)
             THEN /\ grants' = [q \in Requests |-> IF q = r THEN lockEpoch
                                                   ELSE IF q \in kept THEN grants[q] ELSE NoEpoch]
                  /\ Enter(r, "issued")
             ELSE /\ grants' = [q \in Requests |-> IF q \in kept THEN grants[q] ELSE NoEpoch]
                  /\ Enter(r, "over")
        /\ UNCHANGED <<vault, guarded, wants, pending, guardVars, proved, world>>

Expire(r) ==
    /\ r \in Live \ expired /\ expired' = expired \cup {r}
    /\ UNCHANGED <<vault, guarded, wants, stage, pending, grants, guardVars, proved, world>>

\* Mutant: only the map of grants is asked, not the vault's epoch.
AcceptsAnyEpoch(r) == r \in Live \ expired
\* consume_for_label: what it finds it takes, whether or not it accepts it.
Accepts(r) == r \in Live \ expired /\ grants[r] = lockEpoch

Spend(r) ==
    /\ stage[r] = "issued"
    /\ Enter(r, IF Accepts(r) THEN wants[r].op ELSE "over")
    /\ grants' = [grants EXCEPT ![r] = NoEpoch] /\ expired' = expired \ {r}
    /\ UNCHANGED <<vault, guarded, wants, pending, guardVars, proved, world>>

\* The command runs after the grant is spent; a locked vault reveals nothing.
RunCommand(r) ==
    /\ stage[r] \in {"reveal", "delete"} /\ Enter(r, "over")
    /\ UNCHANGED <<vault, guarded, wants, pending, grants, expired, guardVars, proved, world>>

\* settings_set_security: the settings are saved, or the save fails; then every
\* grant is withdrawn if something changed.
WriteProtection(r) ==
    /\ stage[r] = "protect"
    /\ \/ /\ guarded' = ~wants[r].weakens
          /\ Enter(r, IF guarded' # guarded THEN "withdraw" ELSE "over")
       \/ Enter(r, "over") /\ UNCHANGED guarded
    /\ UNCHANGED <<vault, wants, pending, grants, expired, guardVars, proved, world>>

RevokeAll == grants' = [r \in Requests |-> NoEpoch] /\ expired' = {}
Withdraw(r) ==
    /\ stage[r] = "withdraw" /\ RevokeAll /\ Enter(r, "over")
    /\ UNCHANGED <<vault, guarded, wants, pending, guardVars, proved, world>>

BumpEpoch == lockEpoch < MaxLocks /\ lockEpoch' = lockEpoch + 1 /\ outlived' = outlived \cup Live

\* authorized_reset: Vault::reset locks (withdrawing nothing) and then removes
\* the files, holding the guard's slot.
ResetLocks(r) ==
    /\ stage[r] = "reset" /\ kdfSlot = NoRequest
    /\ \/ /\ refusals < MaxAttempts /\ BumpEpoch
          /\ vault' = (IF vault = "open" THEN "locked" ELSE vault)
          /\ kdfSlot' = r /\ Enter(r, "remove")
       \/ /\ refusals = MaxAttempts /\ Enter(r, "over")
          /\ UNCHANGED <<vault, kdfSlot, lockEpoch, outlived>>
    /\ UNCHANGED <<guarded, wants, pending, grants, expired, refusals, proved, locking,
                   setups>>
ResetRemoves(r) ==
    /\ stage[r] = "remove" /\ Enter(r, "over") /\ kdfSlot' = NoRequest
    /\ \/ vault' = "none" /\ refusals' = 0
       \/ UNCHANGED <<vault, refusals>>
    /\ UNCHANGED <<guarded, wants, pending, grants, expired, proved, world>>

\* lock_now, for the user who asks or, from the timer, for one who has left or
\* (while the idle lock is on) is idle: the epoch, the secrets, the grants.
StartLock ==
    /\ locking = "no" /\ vault # "none" /\ locking' = "bumped" /\ BumpEpoch
    /\ UNCHANGED <<vault, guarded, wants, stage, pending, grants, expired, guardVars,
                   proved, setups>>
TakeSecrets ==
    /\ locking = "bumped" /\ locking' = "taken"
    /\ vault' = (IF vault = "open" THEN "locked" ELSE vault)
    /\ UNCHANGED <<guarded, wants, stage, pending, grants, expired, guardVars, proved,
                   lockEpoch, outlived, setups>>
LockWithdraws ==
    /\ locking = "taken" /\ locking' = "no" /\ RevokeAll
    /\ UNCHANGED <<vault, guarded, wants, stage, pending, guardVars, proved, lockEpoch,
                   outlived, setups>>

\* vault_setup, and vault_unlock with the right password.
VaultOpens ==
    /\ kdfSlot = NoRequest /\ refusals < MaxAttempts /\ setups < MaxSetups
    /\ vault # "open" /\ vault' = "open" /\ refusals' = 0 /\ setups' = setups + 1
    /\ UNCHANGED <<guarded, wants, stage, pending, grants, expired, kdfSlot, proved,
                   lockEpoch, locking, outlived>>

\* The failures leave the window of five minutes.
ForgetRefusals ==
    /\ refusals > 0 /\ refusals' = 0
    /\ UNCHANGED <<vault, guarded, wants, stage, pending, grants, expired, kdfSlot, proved, world>>

GrantsNext ==
    \/ \E r \in Requests, op \in GrantOps, weaken \in BOOLEAN : PlanRequest(r, op, weaken)
    \/ \E r \in Requests :
          \/ Ask(r) \/ StartCheck(r) \/ CheckPassword(r) \/ Approve(r) \/ RejectPending(r)
          \/ Cancelled(r) \/ Issue(r) \/ Expire(r) \/ Spend(r) \/ RunCommand(r)
          \/ WriteProtection(r) \/ Withdraw(r) \/ ResetLocks(r) \/ ResetRemoves(r)
    \/ StartLock \/ TakeSecrets \/ LockWithdraws \/ VaultOpens \/ ForgetRefusals

GrantsSpec == GrantsInit /\ [][GrantsNext]_grantVars

\* A command is let through only by a grant the vault was not locked after,
\* by lock_now, by a reset or under a window that was still open, and, where it
\* asked for the password, by one whose own window had it: whatever locked, set
\* up, withdrew or ran out of time meanwhile (sensitive.rs:678-704).
GrantDiesWithItsSession ==
    [][\A r \in Requests :
          (stage[r] = "issued" /\ stage'[r] \in GrantOps)
             => /\ r \notin outlived
                /\ wants[r].proof => r \in proved]_grantVars
=============================================================================
