---------------------------- MODULE VaultSecrets ----------------------------
(***************************************************************************)
(* Where a bookmark's saved password is: protected by the system in        *)
(* sites.json, or in the vault (vault.dat, opened with vault.json), and    *)
(* the operations that move it (src-tauri/src/security/vault.rs,           *)
(* store/sites/queries.rs, commands/vault.rs).  Every file is replaced by  *)
(* a rename, so a write happens or does not; the application may end       *)
(* between any two of them.  A password is the number of the save that     *)
(* made it, 0 for none.                                                    *)
(***************************************************************************)
EXTENDS Naturals

CONSTANTS
    Sites, MaxPasswords, MaxVaultOps, MaxVaultCrashes,
    MigrationAlone   \* no save or switch starts while passwords move in

ASSUME VaultAssumption == /\ Sites # {} /\ MaxPasswords \in Nat /\ MaxVaultOps \in Nat
                          /\ MaxVaultCrashes \in Nat /\ MigrationAlone \in BOOLEAN

VARIABLES
    enc,        \* sites.json: the password under system protection
    held,       \* vault.dat: the password in the vault, NoFile if there is none
    metadata,   \* whether vault.json is there
    opened,     \* Vault.state: what it holds in memory, NoVault if locked
    marker,     \* vault-migration.json
    permitOf,   \* VaultGuard's slot
    updating,   \* Store.vault_updates
    sitesLock,  \* the write lock of sites.json
    opPc, opSites, opSaved,  \* each operation: where, its sites, its snapshot
    acked,      \* history: the password the user was last told is saved
    forfeit,    \* history: a reset has deleted what the save under way put in
    passwords, vaultOps, vaultCrashes

owed == <<acked, forfeit>>
vaultVars == <<enc, held, metadata, opened, marker, permitOf, updating,
               sitesLock, opPc, opSites, opSaved, owed, passwords, vaultOps,
               vaultCrashes>>
vaultFiles == <<enc, held, metadata, marker>>
vaultLocks == <<permitOf, updating, sitesLock>>
locals == <<opSites, opSaved>>
budget == <<passwords, vaultOps, vaultCrashes>>

Passwords == 0..MaxPasswords
Kept == [Sites -> Passwords]
NoVault == [s \in Sites |-> MaxPasswords + 1]
NoPasswords == [s \in Sites |-> 0]
\* Setting up or unlocking and the migration after it, a save, a downgrade
\* and a reset.
VaultTasks == {"open", "save", "downgrade", "reset"}
Free == "free"

HasSecrets == held # NoVault
Configured == HasSecrets /\ metadata
Unlocked == opened # NoVault

VaultTypeOK ==
    /\ enc \in Kept /\ held \in Kept \cup {NoVault} /\ opened \in Kept \cup {NoVault}
    /\ metadata \in BOOLEAN /\ marker \in {"none", "inProgress", "complete"}
    /\ permitOf \in {Free, "open", "reset"} /\ updating \in {Free, "save", "downgrade"}
    /\ sitesLock \in VaultTasks \cup {Free}
    /\ opPc \in [VaultTasks -> {"idle", "start", "load", "publish", "migrate", "move",
                                "plain", "write", "undo", "data", "metadata", "clear"}]
    /\ opSites \in [VaultTasks -> Kept] /\ opSaved \in [VaultTasks -> Kept]
    /\ acked \in Kept /\ forfeit \in BOOLEAN
    /\ passwords \in Passwords /\ vaultOps \in 0..MaxVaultOps
    /\ vaultCrashes \in 0..MaxVaultCrashes

VaultInit ==
    /\ enc = NoPasswords /\ held = NoVault /\ metadata = FALSE /\ opened = NoVault
    /\ marker = "none" /\ permitOf = Free /\ updating = Free /\ sitesLock = Free
    /\ opPc = [t \in VaultTasks |-> "idle"]
    /\ opSites = [t \in VaultTasks |-> NoPasswords]
    /\ opSaved = [t \in VaultTasks |-> NoPasswords]
    /\ acked = NoPasswords /\ forfeit = FALSE
    /\ passwords = 0 /\ vaultOps = 0 /\ vaultCrashes = 0

At(t, pc) == opPc[t] = pc
To(t, pc) == opPc' = [opPc EXCEPT ![t] = pc]
Keep(t, sites) == opSites' = [opSites EXCEPT ![t] = sites]
Save(t, sites) == opSaved' = [opSaved EXCEPT ![t] = sites]
Ends(t) == /\ opPc' = [opPc EXCEPT ![t] = "idle"]
           /\ opSites' = [opSites EXCEPT ![t] = NoPasswords]
           /\ opSaved' = [opSaved EXCEPT ![t] = NoPasswords]
           /\ permitOf' = IF permitOf = t THEN Free ELSE permitOf
           /\ updating' = IF updating = t THEN Free ELSE updating
           /\ sitesLock' = IF sitesLock = t THEN Free ELSE sitesLock

Begin(t, pc) == /\ At(t, "idle") /\ vaultOps < MaxVaultOps
                /\ vaultOps' = vaultOps + 1
                /\ To(t, pc)
                /\ UNCHANGED <<passwords, vaultCrashes>>

\* apply_secret_updates: the file is committed from the copy in memory, and
\* memory follows; a commit that fails changes neither.
Apply(secrets) == /\ held' = secrets /\ opened' = secrets
                  /\ UNCHANGED <<metadata, marker>>

-----------------------------------------------------------------------------
(* Opening: vault_setup or vault_unlock, then migrate_secrets_to_vault.     *)

BeginOpen ==
    /\ permitOf = Free /\ permitOf' = "open"
    /\ \/ Begin("open", "start") /\ ~HasSecrets /\ ~metadata
       \/ Begin("open", "load") /\ Configured /\ ~Unlocked
    /\ UNCHANGED <<vaultFiles, opened, updating, sitesLock, locals, owed>>

\* setup: the empty vault.dat, then vault.json; without the second the first
\* is removed again.
CreateVault ==
    /\ \/ /\ At("open", "start") /\ held' = NoPasswords
          /\ To("open", "publish")
          /\ UNCHANGED <<metadata, opened, vaultLocks, locals>>
       \/ /\ At("open", "publish") /\ metadata' = TRUE /\ opened' = held
          /\ To("open", "migrate") /\ permitOf' = Free
          /\ UNCHANGED <<held, updating, sitesLock, locals>>
       \/ /\ At("open", "publish") /\ held' = NoVault
          /\ Ends("open")
          /\ UNCHANGED <<metadata, opened>>
    /\ UNCHANGED <<enc, marker, owed, budget>>

\* unlock: the password was right, or there is nothing to open.
OpenVault ==
    /\ At("open", "load")
    /\ \/ /\ Configured /\ opened' = held
          /\ To("open", "migrate") /\ permitOf' = Free
          /\ UNCHANGED <<updating, sitesLock, locals>>
       \/ Ends("open") /\ UNCHANGED opened
    /\ UNCHANGED <<vaultFiles, owed, budget>>

\* migrate_secrets_to_vault up to the marker.
StartMigration ==
    /\ At("open", "migrate")
    /\ \/ /\ Configured /\ Unlocked /\ marker # "complete" /\ sitesLock = Free
          /\ MigrationAlone => updating = Free /\ permitOf # "reset"
          /\ sitesLock' = "open"
          /\ Keep("open", enc)
          /\ marker' = IF enc = NoPasswords THEN marker ELSE "inProgress"
          /\ To("open", "move")
          /\ UNCHANGED <<permitOf, updating, opSaved>>
       \/ Ends("open") /\ UNCHANGED marker
    /\ UNCHANGED <<enc, held, metadata, opened, owed, budget>>

\* One site's password goes into the vault; the site loses its own copy in
\* memory only.
MoveIntoVault(s) ==
    /\ At("open", "move") /\ opSites["open"][s] # 0
    /\ \/ /\ Unlocked /\ Apply([opened EXCEPT ![s] = opSites["open"][s]])
          /\ Keep("open", [opSites["open"] EXCEPT ![s] = 0])
          /\ UNCHANGED <<opPc, vaultLocks, opSaved>>
       \/ Ends("open") /\ UNCHANGED <<held, metadata, marker, opened>>
    /\ UNCHANGED <<enc, owed, budget>>

\* Mutant: sites.json is written although a password did not go in.
WriteMigratedAnyway ==
    /\ At("open", "move")
    /\ enc' = NoPasswords
    /\ marker' = "complete"
    /\ Ends("open")
    /\ UNCHANGED <<held, metadata, opened, owed, budget>>

WriteMigratedSites ==
    /\ At("open", "move") /\ opSites["open"] = NoPasswords
    /\ \/ /\ enc' = opSites["open"]
          /\ marker' \in {marker, IF marker = "inProgress" THEN "complete" ELSE marker}
       \/ UNCHANGED <<enc, marker>>
    /\ Ends("open")
    /\ UNCHANGED <<held, metadata, opened, owed, budget>>

-----------------------------------------------------------------------------
(* Saving a bookmark's password: save_site_with_vault.                     *)

BeginSave(s) ==
    /\ updating = Free /\ updating' = "save"
    /\ MigrationAlone => ~At("open", "move")
    /\ At("save", "idle") /\ passwords < MaxPasswords
    /\ passwords' = passwords + 1
    /\ Keep("save", [NoPasswords EXCEPT ![s] = passwords'])
    /\ To("save", IF Configured THEN "move" ELSE "plain")
    /\ forfeit' = FALSE
    /\ UNCHANGED <<vaultFiles, opened, permitOf, sitesLock, opSaved, acked, vaultOps,
                   vaultCrashes>>

\* Without a vault: protected by the system, in sites.json alone.
SavePlain(s) ==
    /\ At("save", "plain") /\ opSites["save"][s] # 0 /\ sitesLock = Free
    /\ \/ /\ enc' = [enc EXCEPT ![s] = opSites["save"][s]]
          /\ acked' = [acked EXCEPT ![s] = opSites["save"][s]] /\ UNCHANGED forfeit
       \/ UNCHANGED <<enc, owed>>
    /\ Ends("save")
    /\ UNCHANGED <<held, metadata, marker, opened, budget>>

\* With one: the vault first; what it held is remembered for a rollback.
SaveToVault(s) ==
    /\ At("save", "move") /\ opSites["save"][s] # 0
    /\ \/ /\ Unlocked /\ Apply([opened EXCEPT ![s] = opSites["save"][s]])
          /\ Save("save", opened)
          /\ To("save", "write")
          /\ UNCHANGED <<vaultLocks, opSites>>
       \/ Ends("save") /\ UNCHANGED <<held, metadata, marker, opened>>
    /\ UNCHANGED <<enc, owed, budget>>

\* Then sites.json, without the password.  A reset that came between took the
\* vault's passwords with it, as it was asked.
SaveToSites(s) ==
    /\ At("save", "write") /\ opSites["save"][s] # 0 /\ sitesLock = Free
    /\ \/ /\ enc' = [enc EXCEPT ![s] = 0]
          /\ acked' = [acked EXCEPT ![s] = IF forfeit THEN 0 ELSE opSites["save"][s]]
          /\ UNCHANGED forfeit
          /\ Ends("save")
       \/ To("save", "undo") /\ UNCHANGED <<enc, owed, vaultLocks, locals>>
    /\ UNCHANGED <<held, metadata, marker, opened, budget>>

\* restore_secrets, when sites.json could not be written.
UndoSave(s) ==
    /\ At("save", "undo") /\ opSites["save"][s] # 0
    /\ \/ Unlocked /\ Apply([opened EXCEPT ![s] = opSaved["save"][s]])
       \/ UNCHANGED <<held, metadata, marker, opened>>
    /\ Ends("save")
    /\ UNCHANGED <<enc, owed, budget>>

-----------------------------------------------------------------------------
(* Back to system protection: downgrade_to_system_protection, and a reset. *)

BeginDowngrade ==
    /\ updating = Free /\ updating' = "downgrade"
    /\ MigrationAlone => ~At("open", "move")
    /\ Configured /\ Unlocked
    /\ Begin("downgrade", "move")
    /\ Save("downgrade", enc)
    /\ UNCHANGED <<vaultFiles, opened, permitOf, sitesLock, opSites, owed>>

\* Mutant: the vault is removed whether or not the copies were written.
CopyOutAnyway ==
    /\ At("downgrade", "move") /\ sitesLock = Free
    /\ enc' \in {enc, [s \in Sites |-> IF Unlocked /\ opened[s] # 0 THEN opened[s] ELSE enc[s]]}
    /\ To("downgrade", "data")
    /\ UNCHANGED <<held, metadata, marker, opened, vaultLocks, locals, owed, budget>>

\* migrate_secrets_from_vault: every password copied, sites.json written once.
CopyOut ==
    /\ At("downgrade", "move") /\ sitesLock = Free
    /\ \/ /\ Unlocked
          /\ enc' = [s \in Sites |-> IF opened[s] # 0 THEN opened[s] ELSE enc[s]]
          /\ To("downgrade", "data")
       \/ To("downgrade", "undo") /\ UNCHANGED enc
    /\ UNCHANGED <<held, metadata, marker, opened, vaultLocks, locals, owed, budget>>

BeginReset ==
    /\ permitOf = Free /\ permitOf' = "reset"
    /\ MigrationAlone => ~At("open", "move")
    /\ Begin("reset", "data")
    /\ opened' = NoVault
    /\ UNCHANGED <<vaultFiles, updating, sitesLock, locals, owed>>

\* remove_files: vault.dat, then vault.json.  A downgrade locks first and asks
\* that the vault be open; a reset has locked already, and what it deletes the
\* user has given up.
RemoveData(t) ==
    /\ At(t, "data")
    /\ t = "downgrade" => Unlocked
    /\ opened' = NoVault
    /\ \/ /\ held' = NoVault /\ To(t, "metadata")
          /\ IF t = "downgrade" THEN UNCHANGED owed
             ELSE /\ acked' = [s \in Sites |-> IF held[s] >= acked[s] THEN 0 ELSE acked[s]]
                  /\ forfeit' = TRUE
          /\ UNCHANGED <<vaultLocks, locals>>
       \/ /\ t = "downgrade" /\ To(t, "undo")
          /\ UNCHANGED <<held, owed, vaultLocks, locals>>
       \/ t = "reset" /\ Ends(t) /\ UNCHANGED <<held, owed>>
    /\ UNCHANGED <<enc, metadata, marker, budget>>

\* Locked by then: nothing is removed and the sites are put back.
RefuseRemoval ==
    /\ At("downgrade", "data") /\ ~Unlocked
    /\ To("downgrade", "undo")
    /\ UNCHANGED <<vaultFiles, opened, vaultLocks, locals, owed, budget>>

\* vault.dat is gone, so the switch is finished even if vault.json resists at
\* first: the reset sets it aside.
RemoveMetadata(t) ==
    /\ At(t, "metadata")
    /\ \/ metadata' = FALSE /\ To(t, "clear") /\ UNCHANGED <<vaultLocks, locals>>
       \/ Ends(t) /\ UNCHANGED metadata
    /\ opened' = NoVault
    /\ UNCHANGED <<enc, held, marker, owed, budget>>

\* clear_vault_secret_flags, the marker of a finished migration with them.
ClearFlags(t) ==
    /\ At(t, "clear") /\ sitesLock = Free
    /\ marker' \in {marker, "none"}
    /\ Ends(t)
    /\ UNCHANGED <<enc, held, metadata, opened, owed, budget>>

\* The copying or the removal failed: the sites go back to what they were,
\* unless vault.dat is gone by now and the copies are the only ones left.
UndoDowngrade ==
    /\ At("downgrade", "undo")
    /\ \/ /\ Configured /\ sitesLock = Free
          /\ enc' \in {enc, opSaved["downgrade"]}
          /\ Ends("downgrade")
       \/ /\ ~Configured /\ To("downgrade", "metadata")
          /\ UNCHANGED <<enc, vaultLocks, locals>>
    /\ UNCHANGED <<held, metadata, marker, opened, owed, budget>>

-----------------------------------------------------------------------------

\* The lock command, the idle lock and the session lock.
LockVault ==
    /\ Unlocked /\ opened' = NoVault
    /\ UNCHANGED <<vaultFiles, vaultLocks, opPc, locals, owed, budget>>

VaultCrash ==
    /\ vaultCrashes < MaxVaultCrashes /\ vaultCrashes' = vaultCrashes + 1
    /\ opened' = NoVault
    /\ permitOf' = Free /\ updating' = Free /\ sitesLock' = Free
    /\ opPc' = [t \in VaultTasks |-> "idle"]
    /\ opSites' = [t \in VaultTasks |-> NoPasswords]
    /\ opSaved' = [t \in VaultTasks |-> NoPasswords]
    /\ UNCHANGED <<vaultFiles, owed, passwords, vaultOps>>

VaultNext ==
    \/ BeginOpen \/ CreateVault \/ OpenVault \/ StartMigration \/ WriteMigratedSites
    \/ \E s \in Sites : \/ MoveIntoVault(s)
                        \/ BeginSave(s) \/ SavePlain(s) \/ SaveToVault(s)
                        \/ SaveToSites(s) \/ UndoSave(s)
    \/ BeginDowngrade \/ CopyOut \/ RefuseRemoval \/ UndoDowngrade
    \/ BeginReset
    \/ \E t \in {"downgrade", "reset"} : RemoveData(t) \/ RemoveMetadata(t) \/ ClearFlags(t)
    \/ LockVault \/ VaultCrash

VaultSpec == VaultInit /\ [][VaultNext]_vaultVars

-----------------------------------------------------------------------------
(* Properties. *)

\* A password the user was told is saved is somewhere it can be got from: in
\* sites.json, or in a vault that still has both its files.  Not a failed
\* write, a crash between two writes, an automatic lock in the middle of a
\* switch, nor another operation at the same time loses it.
PasswordIsHeld ==
    \A s \in Sites : acked[s] # 0 =>
        \/ enc[s] >= acked[s]
        \/ Configured /\ held[s] >= acked[s]
=============================================================================
