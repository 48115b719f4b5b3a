--------------------------- MODULE SitesTransfer ---------------------------
(***************************************************************************)
(* Bookmarks and their passwords leaving for a file and coming back        *)
(* (commands/app_settings_transfer.rs, store/sites/transfer.rs).  Bookmarks *)
(* and local folders are two documents, the passwords a third when the     *)
(* vault is set up: an import writes them one after the other and puts     *)
(* back what it wrote when a later one fails.  A password is a number, 0   *)
(* none; an address stands for the whole recipient of a password.          *)
(***************************************************************************)
EXTENDS Naturals, FiniteSets, SequencesExt

CONSTANTS
    Addresses,      \* recipients; two may count as the same bookmark
    Folder,         \* the address that is a local folder
    Identity,       \* what site_identity_key makes of an address
    MaxSites, MaxSaved, MaxImports, MaxWriteFaults   \* bounds

ASSUME TransferAssumption ==
    /\ Identity \in [Addresses -> Addresses] /\ Folder \in Addresses
    /\ {MaxSites, MaxSaved, MaxImports, MaxWriteFaults} \subseteq Nat

VARIABLES
    book,        \* id -> bookmark: both documents
    safe,        \* id -> the password the vault holds for it
    prefs,       \* whose settings are saved: "own" or "file"
    vaultSet, vaultOpen,   \* is_configured, is_unlocked
    usedIds,     \* ids are never used twice
    parcel,      \* the exported file, as its user may have edited it
    waiting,     \* StagedImport: a parcel waits for the user's answer
    iPc,         \* where the apply is
    importPlan, before,   \* its plan, and the documents as it read them
    wrote,       \* what it has written
    leftover,    \* not_restored: a step of the undo failed
    ended,       \* how the last apply ended
    edited, imports, wFaults   \* counts of the user's edits, applies, failed writes

importVars == <<iPc, importPlan, before, wrote, leftover, ended, imports>>
docVars == <<book, safe, prefs>>
transferVars == <<docVars, vaultSet, vaultOpen, usedIds, parcel, waiting, importVars, edited,
                  wFaults>>

SiteIds == 1 .. MaxSites
NoSite == [address |-> "none", flag |-> FALSE, enc |-> 0]
Entry == [address : Addresses, scope : Addresses, secret : 0 .. MaxSaved]
EmptyBook == [i \in SiteIds |-> NoSite]
EmptySafe == [i \in SiteIds |-> 0]
Documents == [book |-> book, safe |-> safe, prefs |-> prefs]
NoPlan == [book |-> EmptyBook, keys |-> EmptySafe]

TransferTypeOK ==
    /\ book \in [SiteIds -> [address : Addresses \cup {"none"}, flag : BOOLEAN, enc : 0 .. MaxSaved]]
    /\ safe \in [SiteIds -> 0 .. MaxSaved] /\ prefs \in {"own", "file"}
    /\ {vaultSet, vaultOpen, waiting, leftover} \subseteq BOOLEAN
    /\ usedIds \subseteq SiteIds /\ parcel \in Seq(Entry)
    /\ iPc \in {"idle", "vault", "sites", "local", "settings", "undo"}
    /\ wrote \subseteq {"vault", "sites", "local"}
    /\ ended \in {"none", "kept", "undone", "partly"}
    /\ edited \in 0 .. MaxSaved /\ imports \in 0 .. MaxImports /\ wFaults \in 0 .. MaxWriteFaults

TransferInit ==
    /\ book = EmptyBook /\ safe = EmptySafe /\ prefs = "own"
    /\ vaultSet \in BOOLEAN /\ vaultOpen = vaultSet
    /\ usedIds = {} /\ parcel = <<>> /\ waiting = FALSE
    /\ iPc = "idle" /\ importPlan = NoPlan /\ before = Documents /\ wrote = {} /\ leftover = FALSE
    /\ ended = "none" /\ edited = 0 /\ imports = 0 /\ wFaults = 0
-----------------------------------------------------------------------------
There(b, i) == b[i].address # "none"
ServerSites(b) == {i \in SiteIds : There(b, i) /\ b[i].address # Folder}
Locals(b) == {i \in SiteIds : b[i].address = Folder}
Fresh(used) == CHOOSE i \in SiteIds \ used : \A j \in SiteIds \ used : i <= j
SavedOf(i) == IF vaultSet THEN safe[i] ELSE book[i].enc

\* An edit of the user, under the locks an import holds to its end.  The
\* first saves a bookmark with a password, the others without.
SaveBookmark ==
    /\ iPc = "idle" /\ edited < MaxSaved /\ edited' = edited + 1
    /\ \E a \in Addresses, i \in usedIds \cup ({Fresh(usedIds) : x \in SiteIds \ usedIds}) :
        /\ There(book, i) \/ i \notin usedIds
        /\ There(book, i) => (book[i].address = Folder <=> a = Folder)
        /\ usedIds' = usedIds \cup {i}
        /\ \/ /\ a # Folder /\ (vaultSet => vaultOpen)
              /\ book' = [book EXCEPT ![i] = [address |-> a, flag |-> TRUE,
                                              enc |-> IF vaultSet THEN 0 ELSE edited + 1]]
              /\ safe' = IF vaultSet THEN [safe EXCEPT ![i] = edited + 1] ELSE safe
           \/ ~There(book, i) /\ UNCHANGED safe
              /\ book' = [book EXCEPT ![i] = [NoSite EXCEPT !.address = a]]
    /\ UNCHANGED <<prefs, vaultSet, vaultOpen, parcel, waiting, importVars, wFaults>>

RemoveBookmark(i) ==
    /\ iPc = "idle" /\ There(book, i) /\ (vaultSet => vaultOpen)
    /\ book' = [book EXCEPT ![i] = NoSite] /\ safe' = [safe EXCEPT ![i] = 0]
    /\ UNCHANGED <<prefs, vaultSet, vaultOpen, usedIds, parcel, waiting, importVars, edited,
                   wFaults>>

LockOrUnlock ==
    /\ vaultSet /\ vaultOpen' = ~vaultOpen
    /\ UNCHANGED <<docVars, vaultSet, usedIds, parcel, waiting, importVars, edited, wFaults>>

\* app_export_settings: each password travels with the recipient it is for.
Export ==
    /\ iPc = "idle" /\ parcel = <<>> /\ imports = 0 /\ (vaultSet => vaultOpen)
    /\ LET all == SetToSeq(ServerSites(book) \cup Locals(book))
       IN  parcel' = [n \in DOMAIN all |->
               [address |-> book[all[n]].address, scope |-> book[all[n]].address,
                secret |-> SavedOf(all[n])]]
    /\ UNCHANGED <<docVars, vaultSet, vaultOpen, usedIds, waiting, importVars, edited, wFaults>>

\* The readable part of the file is its user's to change.
EditParcel ==
    /\ parcel # <<>> /\ ~waiting /\ imports = 0
    /\ \E n \in DOMAIN parcel, a \in Addresses \ {Folder} :
        /\ parcel[n].address \notin {Folder, a}
        /\ parcel' = [parcel EXCEPT ![n].address = a]
    /\ UNCHANGED <<docVars, vaultSet, vaultOpen, usedIds, waiting, importVars, edited, wFaults>>

Preview ==
    /\ parcel # <<>> /\ ~waiting /\ iPc = "idle" /\ waiting' = TRUE
    /\ UNCHANGED <<docVars, vaultSet, vaultOpen, usedIds, parcel, importVars, edited, wFaults>>
DiscardPreview ==
    /\ waiting /\ iPc = "idle" /\ waiting' = FALSE
    /\ UNCHANGED <<docVars, vaultSet, vaultOpen, usedIds, parcel, importVars, edited, wFaults>>
-----------------------------------------------------------------------------
\* Mutant: the newer password wins.
PlaceOver(acc, i, secret) ==
    IF vaultSet
      THEN [acc EXCEPT !.keys[i] = secret, !.book[i].flag = TRUE]
      ELSE [acc EXCEPT !.book[i].enc = secret, !.book[i].flag = TRUE]
\* place_secret: only where none is saved.
PlaceSecret(acc, i, secret) ==
    IF vaultSet
      THEN [acc EXCEPT !.keys[i] = IF acc.keys[i] = 0 /\ safe[i] = 0 THEN secret ELSE @,
                       !.book[i].flag = TRUE]
      ELSE IF acc.book[i].enc # 0 THEN acc
           ELSE [acc EXCEPT !.book[i].enc = secret, !.book[i].flag = TRUE]

\* One entry of the file: a duplicate is skipped and only its password looks
\* for the one bookmark of exactly its recipient; anything else is added.
PlanEntry(acc, e) ==
    LET secret == IF e.scope = e.address /\ e.address # Folder THEN e.secret ELSE 0
        known  == \E i \in SiteIds : There(acc.book, i)
                                   /\ Identity[acc.book[i].address] = Identity[e.address]
        same   == {i \in ServerSites(acc.book) : acc.book[i].address = e.scope}
    IN  IF known
          THEN IF secret # 0 /\ Cardinality(same) = 1
                 THEN PlaceSecret(acc, CHOOSE i \in same : TRUE, secret) ELSE acc
          ELSE LET i     == Fresh(acc.used)
                   added == [acc EXCEPT !.book[i].address = e.address, !.used = @ \cup {i}]
               IN  IF secret # 0 THEN PlaceSecret(added, i, secret) ELSE added

\* The plan after the first entries of the file.
PlanAfter[n \in 0 .. Len(parcel)] ==
    IF n = 0 THEN [book |-> book, keys |-> EmptySafe, used |-> usedIds]
             ELSE PlanEntry(PlanAfter[n - 1], parcel[n])
Planned == PlanAfter[Len(parcel)]
Adds(e) == \A i \in SiteIds : There(book, i) => Identity[book[i].address] # Identity[e.address]

\* import_sites up to the plan: every lock taken, every document read.
StartApply ==
    /\ waiting /\ iPc = "idle" /\ imports < MaxImports /\ imports' = imports + 1
    /\ Cardinality({n \in DOMAIN parcel : Adds(parcel[n])}) <= MaxSites - Cardinality(usedIds)
    /\ (vaultSet /\ \E n \in DOMAIN parcel : parcel[n].secret # 0) => vaultOpen
    /\ importPlan' = [book |-> Planned.book, keys |-> Planned.keys] /\ usedIds' = Planned.used
    /\ before' = Documents /\ wrote' = {} /\ leftover' = FALSE /\ ended' = "none"
    /\ iPc' = "vault"
    /\ UNCHANGED <<docVars, vaultSet, vaultOpen, parcel, waiting, edited, wFaults>>

WriteFails == wFaults < MaxWriteFaults /\ wFaults' = wFaults + 1

\* The vault first: all or nothing, and a refusal leaves nothing to undo.
FillVault ==
    /\ iPc = "vault"
    /\ \/ /\ importPlan.keys = EmptySafe /\ iPc' = "sites" /\ UNCHANGED <<safe, wrote, ended, wFaults>>
       \/ /\ importPlan.keys # EmptySafe /\ vaultOpen
          /\ safe' = [i \in SiteIds |-> IF importPlan.keys[i] # 0 THEN importPlan.keys[i] ELSE safe[i]]
          /\ wrote' = {"vault"} /\ iPc' = "sites" /\ UNCHANGED <<ended, wFaults>>
       \/ /\ importPlan.keys # EmptySafe
          /\ (~vaultOpen /\ UNCHANGED wFaults) \/ WriteFails
          /\ ended' = "undone" /\ iPc' = "idle" /\ UNCHANGED <<safe, wrote>>
    /\ UNCHANGED <<book, prefs, vaultSet, vaultOpen, usedIds, parcel, waiting, importPlan, before,
                   leftover, imports, edited>>

\* Then each document the plan changes; one that fails is as it was.
WriteDocument(pc, name, kinds, to) ==
    /\ iPc = pc
    /\ \/ /\ book' = [i \in SiteIds |-> IF i \in kinds THEN importPlan.book[i] ELSE book[i]] /\ iPc' = to /\ UNCHANGED wFaults
          /\ wrote' = IF book' = book THEN wrote ELSE wrote \cup {name}
       \/ WriteFails /\ iPc' = "undo" /\ UNCHANGED <<book, wrote>>
    /\ UNCHANGED <<safe, prefs, vaultSet, vaultOpen, usedIds, parcel, waiting, importPlan, before,
                   leftover, ended, imports, edited>>
WriteSites == WriteDocument("sites", "sites", ServerSites(importPlan.book), "local")
WriteLocal == WriteDocument("local", "local", Locals(importPlan.book), "settings")

\* The settings last, so they never need undoing.
WriteSettings ==
    /\ iPc = "settings"
    /\ \/ /\ prefs' = "file" /\ iPc' = "idle" /\ ended' = "kept" /\ waiting' = FALSE
          /\ UNCHANGED wFaults
       \/ WriteFails /\ iPc' = "undo" /\ UNCHANGED <<prefs, ended, waiting>>
    /\ UNCHANGED <<book, safe, vaultSet, vaultOpen, usedIds, parcel, importPlan, before, wrote, leftover,
                   imports, edited>>

\* rollback: every step is tried whatever the one before did.
UndoVault ==
    /\ iPc = "undo" /\ "vault" \in wrote /\ wrote' = wrote \ {"vault"}
    /\ \/ /\ vaultOpen /\ safe' = [i \in SiteIds |-> IF importPlan.keys[i] # 0 THEN 0 ELSE safe[i]]
          /\ UNCHANGED <<leftover, wFaults>>
       \/ /\ (~vaultOpen /\ UNCHANGED wFaults) \/ WriteFails
          /\ leftover' = TRUE /\ UNCHANGED safe
    /\ UNCHANGED <<book, prefs, vaultSet, vaultOpen, usedIds, parcel, waiting, iPc, importPlan, before,
                   ended, imports, edited>>
UndoDocument ==
    /\ iPc = "undo" /\ "vault" \notin wrote
    /\ \E name \in wrote :
        /\ name = "local" => "sites" \notin wrote
        /\ wrote' = wrote \ {name}
        /\ \/ /\ book' = [i \in SiteIds |->
                    IF i \in (IF name = "sites" THEN ServerSites(importPlan.book) ELSE Locals(importPlan.book))
                      THEN before.book[i] ELSE book[i]]
              /\ UNCHANGED <<leftover, wFaults>>
           \/ WriteFails /\ leftover' = TRUE /\ UNCHANGED book
    /\ UNCHANGED <<safe, prefs, vaultSet, vaultOpen, usedIds, parcel, waiting, iPc, importPlan, before,
                   ended, imports, edited>>
EndUndo ==
    /\ iPc = "undo" /\ wrote = {} /\ iPc' = "idle"
    /\ ended' = IF leftover THEN "partly" ELSE "undone"
    /\ UNCHANGED <<docVars, vaultSet, vaultOpen, usedIds, parcel, waiting, importPlan, before, wrote,
                   leftover, imports, edited, wFaults>>

\* The application ends: an apply cut off is not undone.
ImportCut ==
    /\ iPc # "idle" /\ iPc' = "idle" /\ wrote' = {} /\ waiting' = FALSE /\ vaultOpen' = FALSE
    /\ UNCHANGED <<docVars, vaultSet, usedIds, parcel, importPlan, before, leftover, ended, imports,
                   edited, wFaults>>

TransferNext ==
    \/ SaveBookmark \/ (\E i \in SiteIds : RemoveBookmark(i)) \/ LockOrUnlock \/ Export \/ EditParcel
    \/ Preview \/ DiscardPreview \/ StartApply \/ FillVault \/ WriteSites \/ WriteLocal
    \/ WriteSettings \/ UndoVault \/ UndoDocument \/ EndUndo \/ ImportCut

TransferSpec == TransferInit /\ [][TransferNext]_transferVars
-----------------------------------------------------------------------------
(* An apply that says nothing was imported left everything as it was, and  *)
(* one that is kept changed no address and no password that was there      *)
(* (app_import_apply, "A secret never replaces one that is saved already"). *)
ImportAddsOrUndoes ==
    [][/\ ended' = "undone" /\ ended # "undone"
            => [book |-> book', safe |-> safe', prefs |-> prefs'] = before
       /\ ended' = "kept" /\ ended # "kept"
            => \A i \in SiteIds : There(before.book, i)
                 => /\ book'[i].address = before.book[i].address
                    /\ before.book[i].enc # 0 => book'[i].enc = before.book[i].enc
                    /\ before.safe[i] # 0 => safe'[i] = before.safe[i]]_transferVars
=============================================================================
