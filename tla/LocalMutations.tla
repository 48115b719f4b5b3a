--------------------------- MODULE LocalMutations ---------------------------
(***************************************************************************)
(* Files of this computer made, copied, renamed, moved and deleted         *)
(* (commands/fs.rs, local_fs/).  A command reserves its paths, waits for   *)
(* the mutation guard, checks the paths, and checks them again right       *)
(* before it acts; other programs edit and create files at any moment.     *)
(* The check and the operation next to it are one step: the window left    *)
(* between them is one the code accepts (unix_file.rs, docs/security.md).  *)
(* A file is the number of its version, which no other file ever has.      *)
(***************************************************************************)
EXTENDS Integers, FiniteSets, Sequences

CONSTANTS
    Places,          \* paths, as sequences of names
    Far,             \* those on another volume
    NoBin,           \* those on a volume without a Recycle Bin or Trash
    Own, Protected,  \* app_owned_paths, protected_paths
    Commands,        \* fs_* commands, each called once
    MaxMade          \* bound: file versions that come to be

EmptyPlace == 0
FolderThere == -1
LinkThere == -2    \* a link, a junction or another reparse point
Torn == -3         \* what a copy reads of a file that changes meanwhile

ASSUME LocalAssumption ==
    /\ Places \subseteq Seq(STRING)
    /\ \A p \in Places : p # <<>> /\ \A n \in 1 .. Len(p) : SubSeq(p, 1, n) \in Places
    /\ Own \subseteq Protected /\ Protected \subseteq Places
    /\ Far \subseteq Places /\ NoBin \subseteq Places /\ MaxMade \in Nat

VARIABLES
    tree,       \* Places -> what is there
    bin,        \* versions in the bin
    given,      \* history: versions the user, or another program, gave up
    made,       \* versions so far
    cmd         \* Commands -> the command and its step

localVars == <<tree, bin, given, made, cmd>>

CommandKinds == {"mkdir", "mkfile", "rename", "copy", "delete", "trash"}
NoCommand == [step |-> "none", kind |-> "mkdir", from |-> <<>>, to |-> <<>>, over |-> FALSE,
              seen |-> 0, read |-> 0, tries |-> 0]
CommandSteps == {"none", "waiting", "checked", "opened", "copied", "verified", "published",
                 "deleting", "busy", "done"}

LocalTypeOK ==
    /\ tree \in [Places -> -2 .. MaxMade] /\ bin \subseteq 1 .. MaxMade /\ given \subseteq 1 .. MaxMade
    /\ made \in 0 .. MaxMade
    /\ \A k \in Commands :
          /\ cmd[k].step \in CommandSteps /\ cmd[k].kind \in CommandKinds
          /\ cmd[k].seen \in 0 .. MaxMade /\ cmd[k].read \in {Torn} \cup (0 .. MaxMade)
          /\ cmd[k].tries \in 0 .. 1

Within(p, base) == Len(base) <= Len(p) /\ SubSeq(p, 1, Len(base)) = base
Parent(p) == SubSeq(p, 1, Len(p) - 1)
Inside(p) == {q \in Places : Within(q, p) /\ q # p}
ParentThere(p) == Parent(p) \in Places => tree[Parent(p)] = FolderThere
IsFile(p) == tree[p] > 0

\* Only a folder holds anything.
Nested(t) == \A p \in Places : \A q \in Inside(p) : t[q] # EmptyPlace => t[p] = FolderThere

\* Folders, links, a file of the user's, those of the program's own, and room
\* for others.
LocalInit ==
    /\ tree \in [Places -> {EmptyPlace, FolderThere, LinkThere, 1, 2}]
    /\ Nested(tree) /\ \A p \in Places : p \in Own <=> tree[p] = 2
    /\ given = {v \in 1 .. 2 : \A p \in Places : tree[p] # v}
    /\ bin = {} /\ made = 2 /\ cmd = [k \in Commands |-> NoCommand]

-----------------------------------------------------------------------------
\* Reservation and mutation_guard: creating holds the guard shared.
Leases(c) ==
    IF c.step \in {"none", "done"} THEN {}
    ELSE CASE c.kind = "rename" -> {c.from, c.to}
           [] c.kind \in {"delete", "trash"} -> {c.from}
           [] OTHER -> {c.to}
Guarded == {n \in Commands : cmd[n].step \notin {"none", "waiting", "done"}}
SharesGuard(c) == c.kind \in {"mkdir", "mkfile"}
GuardFree(c) == \A n \in Guarded : SharesGuard(c) /\ SharesGuard(cmd[n])

\* ensure_path_no_reparse_points_now: no link on the way, nor at the end.
NoLinkOn(p) == \A q \in Places : Within(p, q) => tree[q] # LinkThere
\* validated_target, validate_read_source, validate_write_destination,
\* validate_copy_relationship.
MayRemove(p) ==
    /\ tree[p] # EmptyPlace /\ \A q \in Protected : ~Within(q, p)
    /\ \A own \in Own : ~Within(p, own)
Readable(p) == NoLinkOn(p) /\ \A own \in Own : ~Within(p, own)
Writable(p) == NoLinkOn(p) /\ \A own \in Own : ~Within(p, own)
WholeTree(p) == \A q \in Inside(p) : tree[q] # LinkThere
ValidFor(c) ==
    /\ c.kind \in {"rename", "delete", "trash"} => NoLinkOn(c.from) /\ MayRemove(c.from)
    /\ c.kind \in {"delete", "trash"} => WholeTree(c.from)
    /\ c.kind = "copy" => Readable(c.from)
    /\ c.kind \notin {"delete", "trash"} => Writable(c.to)
    /\ c.kind \in {"rename", "copy"} => ~Within(c.to, c.from)

Step(k, step) == cmd' = [cmd EXCEPT ![k].step = step]
Done(k) == cmd' = [cmd EXCEPT ![k] = [NoCommand EXCEPT !.step = "done"]]

\* A command whose paths overlap with another's is refused and changes
\* nothing.  A guard that is free is taken at once, and the paths are checked.
NewCommand(kind, from, to, over, step) ==
    [step |-> step, kind |-> kind, from |-> from, to |-> to, over |-> over,
     seen |-> 0, read |-> 0, tries |-> 1]
Call(k) ==
    /\ cmd[k].step = "none"
    /\ \E kind \in CommandKinds, from, to \in Places, over \in BOOLEAN :
        LET c == NewCommand(kind, from, to, over, "waiting")
        IN  /\ kind \notin {"rename", "copy"} => from = to /\ ~over
            /\ \A p \in UNION {Leases(cmd[n]) : n \in Commands}, q \in Leases(c) :
                  ~Within(p, q) /\ ~Within(q, p)
            /\ IF GuardFree(c) /\ ~ValidFor(c) THEN Done(k)
               ELSE cmd' = [cmd EXCEPT ![k] = NewCommand(kind, from, to, over,
                                  IF GuardFree(c) THEN "checked" ELSE "waiting")]
    /\ UNCHANGED <<tree, bin, given, made>>
TakeGuard(k) ==
    /\ cmd[k].step = "waiting" /\ GuardFree(cmd[k])
    /\ IF ValidFor(cmd[k]) THEN Step(k, "checked") ELSE Done(k)
    /\ UNCHANGED <<tree, bin, given, made>>

\* What was there a moment ago may be gone.
Refused(k) ==
    /\ cmd[k].step = "checked" /\ ~ValidFor(cmd[k]) /\ Done(k)
    /\ UNCHANGED <<tree, bin, given, made>>
Proceeds(k, kinds) == cmd[k].step = "checked" /\ cmd[k].kind \in kinds /\ ValidFor(cmd[k])

\* create_dir leaves a folder alone, create_file never replaces.
Create(k) ==
    /\ Proceeds(k, {"mkdir", "mkfile"}) /\ Done(k)
    /\ LET p == cmd[k].to
       IN  IF tree[p] = EmptyPlace /\ ParentThere(p) /\ (cmd[k].kind = "mkfile" => made < MaxMade)
             THEN IF cmd[k].kind = "mkdir"
                    THEN tree' = [tree EXCEPT ![p] = FolderThere] /\ UNCHANGED made
                    ELSE tree' = [tree EXCEPT ![p] = made + 1] /\ made' = made + 1
             ELSE UNCHANGED <<tree, made>>
    /\ UNCHANGED <<bin, given>>

\* What the system's rename, of a file or a folder, does with a target that is
\* there.
MayTake(k, file) ==
    LET c == cmd[k]
    IN  /\ ParentThere(c.to)
        /\ tree[c.to] # EmptyPlace => c.over
        /\ tree[c.to] = FolderThere => ~file /\ \A q \in Inside(c.to) : tree[q] = EmptyPlace
        /\ tree[c.to] > 0 => file
Replaces(k) == IF cmd[k].over /\ tree[cmd[k].to] > 0 THEN {tree[cmd[k].to]} ELSE {}

\* Where what stands at q, the source or below it, comes to stand.
Image(c, q) == c.to \o SubSeq(q, Len(c.from) + 1, Len(q))
Moved(c) == {q \in Places : Within(q, c.from) /\ tree[q] # EmptyPlace}

RenameLocal(k) ==
    /\ Proceeds(k, {"rename"}) /\ (cmd[k].from \in Far <=> cmd[k].to \in Far)
    /\ Done(k)
    /\ LET c == cmd[k]
       IN  IF MayTake(k, IsFile(c.from)) /\ \A q \in Moved(c) : Image(c, q) \in Places
             THEN /\ tree' = [p \in Places |->
                        IF \E q \in Moved(c) : Image(c, q) = p
                          THEN tree[CHOOSE q \in Moved(c) : Image(c, q) = p]
                          ELSE IF Within(p, c.from) THEN EmptyPlace ELSE tree[p]]
                  /\ given' = given \cup Replaces(k)
             ELSE UNCHANGED <<tree, given>>
    /\ UNCHANGED <<bin, made>>

\* copy_file, and copy_verify_delete where the rename crosses volumes: only
\* a regular file is copied.
CrossesVolumes(c) == c.kind = "rename" /\ (c.from \in Far) # (c.to \in Far)
OpenSource(k) ==
    /\ Proceeds(k, {"copy", "rename"}) /\ (cmd[k].kind = "rename" => CrossesVolumes(cmd[k]))
    /\ IF IsFile(cmd[k].from)
         THEN cmd' = [cmd EXCEPT ![k].step = "opened", ![k].seen = tree[cmd[k].from]]
         ELSE Done(k)
    /\ UNCHANGED <<tree, bin, given, made>>

ReadSource(k) ==
    /\ cmd[k].step = "opened"
    /\ cmd' = [cmd EXCEPT ![k].step = "copied",
                          ![k].read = IF tree[cmd[k].from] = cmd[k].seen THEN cmd[k].seen ELSE Torn]
    /\ UNCHANGED <<tree, bin, given, made>>

\* The length and the time of the source, for a move the digests of both.
SourceAsSeen(k) == tree[cmd[k].from] = cmd[k].seen /\ cmd[k].read = cmd[k].seen
VerifyCopy(k) ==
    /\ cmd[k].step = "copied" /\ (IF SourceAsSeen(k) THEN Step(k, "verified") ELSE Done(k))
    /\ UNCHANGED <<tree, bin, given, made>>

\* transfer_file::commit, publish: the staged copy takes the name.  A move
\* looks at the source once more before.
PublishCopy(k) ==
    /\ cmd[k].step = "verified"
    /\ IF MayTake(k, TRUE) /\ (CrossesVolumes(cmd[k]) => SourceAsSeen(k))
         THEN /\ tree' = [tree EXCEPT ![cmd[k].to] = cmd[k].read] /\ given' = given \cup Replaces(k)
              /\ IF cmd[k].kind = "rename" THEN Step(k, "published") ELSE Done(k)
         ELSE Done(k) /\ UNCHANGED <<tree, given>>
    /\ UNCHANGED <<bin, made>>

\* unix_file::remove, disposition: the source goes if it is still what was
\* read, and the destination still what was written.
\* Mutant: the source of a move goes as it is.
SourceMayGoUnchecked(k) == TRUE
SourceMayGo(k) == tree[cmd[k].from] = cmd[k].seen /\ tree[cmd[k].to] = cmd[k].read
RemoveMovedSource(k) ==
    /\ cmd[k].step = "published" /\ Done(k)
    /\ tree' = IF SourceMayGo(k) THEN [tree EXCEPT ![cmd[k].from] = EmptyPlace] ELSE tree
    /\ UNCHANGED <<bin, given, made>>

\* A read, a write, a sync or a rename fails, or the process ends: the staged
\* copy is dropped or left under a name of its own.
CommandFails(k) ==
    /\ cmd[k].step \in {"checked", "opened", "copied", "verified", "published", "deleting"}
    /\ Done(k) /\ UNCHANGED <<tree, bin, given, made>>

\* fs_delete_permanently: children first, a folder only when it is empty, a
\* link never; a file that is held has the whole walk start again, once.
StartDelete(k) ==
    /\ Proceeds(k, {"delete"}) /\ Step(k, "deleting")
    /\ UNCHANGED <<tree, bin, given, made>>
DeleteOne(k) ==
    /\ cmd[k].step = "deleting"
    /\ \E p \in Inside(cmd[k].from) \cup {cmd[k].from} :
        /\ tree[p] # EmptyPlace /\ \A q \in Inside(p) : tree[q] = EmptyPlace
        /\ IF tree[p] = LinkThere THEN Done(k) /\ UNCHANGED <<tree, given>>
           ELSE /\ tree' = [tree EXCEPT ![p] = EmptyPlace]
                /\ given' = IF tree[p] > 0 THEN given \cup {tree[p]} ELSE given
                /\ IF p = cmd[k].from THEN Done(k) ELSE UNCHANGED cmd
    /\ UNCHANGED <<bin, made>>
DeleteBusy(k) ==
    /\ cmd[k].step = "deleting" /\ cmd[k].tries > 0
    /\ cmd' = [cmd EXCEPT ![k].step = "checked", ![k].tries = 0]
    /\ UNCHANGED <<tree, bin, given, made>>

\* fs_move_to_recycle_bin: no bin, nothing deleted.
BinTakes(p) == p \notin NoBin
MoveToBin(k) ==
    /\ Proceeds(k, {"trash"}) /\ Done(k)
    /\ LET taken == {q \in Places : Within(q, cmd[k].from)}
       IN  IF BinTakes(cmd[k].from)
             THEN /\ tree' = [p \in Places |-> IF p \in taken THEN EmptyPlace ELSE tree[p]]
                  /\ bin' = IF cmd[k].from \in NoBin THEN bin
                            ELSE bin \cup {tree[q] : q \in {r \in taken : tree[r] > 0}}
             ELSE UNCHANGED <<tree, bin>>
    /\ UNCHANGED <<given, made>>
-----------------------------------------------------------------------------
\* Another program saves a file, in place, makes one, or removes one, which
\* counts as a version that is gone.  Windows denies it the files a move has
\* open; here, as on Unix, it is never denied.
OthersWrite(p) ==
    /\ made < MaxMade /\ made' = made + 1 /\ p \notin Own /\ ParentThere(p)
    /\ tree[p] >= 0
    /\ \/ tree' = [tree EXCEPT ![p] = made'] /\ given' = (given \cup {tree[p]}) \ {EmptyPlace}
       \/ /\ IsFile(p) /\ tree' = [tree EXCEPT ![p] = EmptyPlace]
          /\ given' = given \cup {tree[p], made'}
    /\ UNCHANGED <<bin, cmd>>

CommandNext(k) ==
    \/ Call(k) \/ TakeGuard(k) \/ Refused(k) \/ Create(k) \/ RenameLocal(k) \/ OpenSource(k)
    \/ ReadSource(k) \/ VerifyCopy(k) \/ PublishCopy(k) \/ RemoveMovedSource(k)
    \/ CommandFails(k) \/ StartDelete(k) \/ DeleteOne(k) \/ DeleteBusy(k) \/ MoveToBin(k)
LocalNext ==
    \/ \E k \in Commands : CommandNext(k)
    \/ \E p \in Places : OthersWrite(p)

LocalSpec == LocalInit /\ [][LocalNext]_localVars
-----------------------------------------------------------------------------
\* Whatever commands, failures and other programs' saves interleave, a file's
\* content is at some path or in the bin unless the user chose to delete or
\* replace it, or another program overwrote it; no torn copy takes a name,
\* and the program's own files neither leave nor are copied out.
FilesSurvive ==
    /\ \A v \in 1 .. made :
          v \in given \cup bin \/ \E p \in Places : tree[p] = v
    /\ \A p \in Places : tree[p] # Torn /\ (p \in Own <=> tree[p] = 2)
=============================================================================
