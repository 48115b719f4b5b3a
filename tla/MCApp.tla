------------------------------- MODULE MCApp -------------------------------
(***************************************************************************)
(* The parts of the application that share no state with one another, in   *)
(* one run.  The initial state picks a part; only that part moves, and the *)
(* reachable states are the sum of the parts'.  Nothing here says that the *)
(* parts are composed: each is explored for itself.                        *)
(***************************************************************************)
EXTENDS SetAside, Sessions, TargetReservation, FolderWalk, DownloadFile,
        StoredDocument, VaultSecrets, SensitiveGrants, EditedCopies, Updater,
        SitesTransfer, FtpChannel, SftpPipeline, LocalMutations, WebDavClient,
        ProtocolLog, Quit, TransferRows, RelayCopy, SleepGuard, TLC

CONSTANTS s1, s2, c1, c2, c3, o1, o2, srv, localDisk, q1, q2, k1, k2

VARIABLE part   \* the part this behaviour runs

TwoStagings == {s1, s2}
Replacements == (s1 :> 1) @@ (s2 :> 1)
SomePaths == {<<"A">>, <<"a", "b">>, <<"..", "x", ".", "..", "a">>}
ShortPaths == UNION {[1..n -> {"A", "a", "x", ".", ".."}] : n \in 0..4}
Lowered == "A" :> "a" @@ "a" :> "a" @@ "b" :> "b" @@ "x" :> "x"
\* The key of a path is its place: Files_proofs proves it, short paths show it.
ASSUME KeysArePlaces(ShortPaths)
\* Two addresses that are one bookmark to site_identity_key, and a folder.
SameSite == "h" :> "h" @@ "H" :> "h" @@ "dir" :> "dir"
LocalPlaces == {<<"d">>, <<"d", "x">>, <<"e">>, <<"e", "x">>, <<"g">>, <<"own">>}
OtherVolume == {<<"g">>}
\* A folder with a file or a link in it.
LocalStarts ==
    {[p \in Places |-> IF p \in Own THEN 2 ELSE IF p = <<"d">> THEN FolderThere
                      ELSE IF Parent(p) = <<"d">> THEN first ELSE EmptyPlace] :
        first \in {1, LinkThere}}
OwnFiles == {<<"own">>}
ServerPaths == {<<"a">>, <<"a", "b">>, <<"o">>}

Parts == {"setAside", "sessions", "reservation", "walk", "download", "document",
         "vault", "grants", "copies", "updater", "transfer", "ftp", "sftp", "local",
         "dav", "log", "quit", "rows", "relay", "sleep"}

\* The server without files, reached over HTTPS without a password.
DavEmpty ==
    /\ davTree = [p \in DavPaths |-> "none"]
    /\ address.secure /\ ~probing.has /\ ~probing.allowed

\* An empty source on servers that tell sizes, to a name that is free.
RelayPlain ==
    /\ server.length = 0 /\ ~server.overwrite /\ server.dest.is = "none"
    /\ server.sizes.source /\ server.sizes.target

\* A part that does not run stands in one initial state of its own.
AppInit ==
    /\ part \in Parts
    /\ SetAsideInit
    /\ SessionsInit
    /\ ReservationInit /\ (part # "reservation" => sharing = [o \in Ops |-> FALSE])
    /\ WalkInit /\ (part # "walk" => wMoving /\ wPolicy = "refuse" /\ wStood = {})
    /\ wStood \subseteq {1}
    /\ DownloadInit /\ (part # "download" => dest = NoContent)
    /\ StoreInit /\ (part # "document" => strict)
    /\ VaultInit
    /\ GrantsInit
    /\ CopiesInit /\ (part # "copies" => denies)
    /\ UpdaterInit /\ (part # "updater" => uKind = "installer")
    /\ TransferInit /\ (part # "transfer" => vaultSet)
    /\ FtpInit
    /\ PipelineInit /\ (part # "sftp" => remoteLen = 0)
    /\ tree \in LocalStarts /\ LocalInit /\ (part # "local" => given = {})
    /\ DavInit /\ (part # "dav" => DavEmpty)
    /\ LogInit
    /\ QuitInit
    /\ RowsInit
    /\ RelayInit /\ (part # "relay" => RelayPlain)
    /\ SleepInit

\* Part p takes a step, and no other does.
Alone(p) ==
    /\ part = p /\ UNCHANGED part
    /\ IF p = "setAside" THEN TRUE ELSE UNCHANGED setAsideVars
    /\ IF p = "sessions" THEN TRUE ELSE UNCHANGED sessionsVars
    /\ IF p = "reservation" THEN TRUE ELSE UNCHANGED reservationVars
    /\ IF p = "walk" THEN TRUE ELSE UNCHANGED walkVars
    /\ IF p = "download" THEN TRUE ELSE UNCHANGED downloadVars
    /\ IF p = "document" THEN TRUE ELSE UNCHANGED storeVars
    /\ IF p = "vault" THEN TRUE ELSE UNCHANGED vaultVars
    /\ IF p = "grants" THEN TRUE ELSE UNCHANGED grantVars
    /\ IF p = "copies" THEN TRUE ELSE UNCHANGED copyVars
    /\ IF p = "updater" THEN TRUE ELSE UNCHANGED updaterVars
    /\ IF p = "transfer" THEN TRUE ELSE UNCHANGED transferVars
    /\ IF p = "ftp" THEN TRUE ELSE UNCHANGED ftpVars
    /\ IF p = "sftp" THEN TRUE ELSE UNCHANGED pipelineVars
    /\ IF p = "local" THEN TRUE ELSE UNCHANGED localVars
    /\ IF p = "dav" THEN TRUE ELSE UNCHANGED davVars
    /\ IF p = "log" THEN TRUE ELSE UNCHANGED logVars
    /\ IF p = "quit" THEN TRUE ELSE UNCHANGED quitVars
    /\ IF p = "rows" THEN TRUE ELSE UNCHANGED rowVars
    /\ IF p = "relay" THEN TRUE ELSE UNCHANGED relayVars
    /\ IF p = "sleep" THEN TRUE ELSE UNCHANGED sleepVars

RunSetAside == Alone("setAside") /\ SetAsideNext
RunSessions == Alone("sessions") /\ SessionsNext
RunReservation == Alone("reservation") /\ ReservationNext
RunWalk == Alone("walk") /\ WalkNext
RunDownload == Alone("download") /\ DownloadNext
RunStore == Alone("document") /\ StoreNext
RunVault == Alone("vault") /\ VaultNext
RunGrants == Alone("grants") /\ GrantsNext
RunCopies == Alone("copies") /\ CopiesNext
RunUpdater == Alone("updater") /\ UpdaterNext
RunTransfer == Alone("transfer") /\ TransferNext
RunFtp == Alone("ftp") /\ FtpNext
RunPipeline == Alone("sftp") /\ PipelineNext
RunLocal == Alone("local") /\ LocalNext
RunDav == Alone("dav") /\ DavNext
RunLog == Alone("log") /\ LogNext
RunQuit == Alone("quit") /\ QuitNext
RunRows == Alone("rows") /\ RowsNext
RunRelay == Alone("relay") /\ RelayNext
RunSleep == Alone("sleep") /\ SleepNext

AppNext ==
    \/ RunSetAside \/ RunSessions \/ RunReservation \/ RunWalk \/ RunDownload
    \/ RunStore \/ RunVault \/ RunGrants \/ RunCopies \/ RunUpdater \/ RunTransfer
    \/ RunFtp \/ RunPipeline \/ RunLocal \/ RunDav \/ RunLog \/ RunQuit \/ RunRows
    \/ RunRelay \/ RunSleep

appVars == <<part, setAsideVars, sessionsVars, reservationVars, walkVars,
             downloadVars, storeVars, vaultVars, grantVars, copyVars, updaterVars,
             transferVars, ftpVars, pipelineVars, localVars, davVars, logVars,
             quitVars, rowVars, relayVars, sleepVars>>
AppSpec == AppInit /\ [][AppNext]_appVars

\* The part that runs keeps its variables in their types.
AppTypeOK ==
    /\ part = "setAside" => SetAsideTypeOK
    /\ part = "sessions" => SessionsTypeOK
    /\ part = "reservation" => ReservationTypeOK
    /\ part = "walk" => WalkTypeOK
    /\ part = "download" => DownloadTypeOK
    /\ part = "document" => StoreTypeOK
    /\ part = "vault" => VaultTypeOK
    /\ part = "grants" => GrantsTypeOK
    /\ part = "copies" => CopiesTypeOK
    /\ part = "updater" => UpdaterTypeOK
    /\ part = "transfer" => TransferTypeOK
    /\ part = "ftp" => FtpTypeOK
    /\ part = "sftp" => PipelineTypeOK
    /\ part = "local" => LocalTypeOK
    /\ part = "dav" => DavTypeOK
    /\ part = "log" => LogTypeOK
    /\ part = "quit" => QuitTypeOK
    /\ part = "rows" => RowsTypeOK
    /\ part = "relay" => RelayTypeOK
    /\ part = "sleep" => SleepTypeOK
=============================================================================
