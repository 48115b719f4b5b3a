------------------------------ MODULE Updater ------------------------------
(***************************************************************************)
(* An update on its way: offered, downloaded, staged beside a manifest,      *)
(* and installed by the next launch or when the user asks                  *)
(* (runtime/updater.rs, update_staging.rs, updater_unix.rs).  A copy of    *)
(* the program is installed, portable or a Unix package.  Versions are     *)
(* numbers, 0 stands for none; a file is the version it carries.           *)
(***************************************************************************)
EXTENDS Naturals

CONSTANTS MaxVersion, MaxOffers, MaxFaults   \* bounds: versions, changes of the feed, failures

ASSUME UpdaterAssumption == {MaxVersion, MaxOffers, MaxFaults} \subseteq Nat /\ MaxVersion >= 1

VARIABLES
    uKind,        \* "installer", "portable" or "unix"
    program,      \* the program on disk
    replaced,     \* what a portable update renamed away
    running,      \* the version of the process, 0 when there is none
    uPc,          \* where its updater is
    byUser,       \* the installation under way was asked for
    artifact, upManifest,   \* the staging directory
    failedRec,    \* update-failed, beside that directory
    available, downloaded,   \* UpdaterState
    feed, offers,   \* what the server offers, and how often it changed
    installing,   \* the installer that runs by itself
    faults,       \* failures so far
    lastFailed    \* history: the last version tried, if it started and did not install

diskVars == <<program, replaced, artifact, upManifest, failedRec>>
memVars == <<running, available, downloaded>>
envVars == <<feed, offers, faults>>
updaterVars == <<diskVars, memVars, envVars, uKind, uPc, byUser, installing, lastFailed>>

UVersions == 1 .. MaxVersion
NoOffer == [version |-> 0, carries |-> 0]
NoManifest == [version |-> 0, attempted |-> FALSE]

UpdaterTypeOK ==
    /\ uKind \in {"installer", "portable", "unix"}
    /\ {program, replaced, running, artifact, failedRec, downloaded, installing, lastFailed}
         \subseteq 0 .. MaxVersion
    /\ uPc \in {"off", "startup", "idle", "found", "written", "leaving", "marked", "swapping"}
    /\ byUser \in BOOLEAN
    /\ upManifest \in [version : 0 .. MaxVersion, attempted : BOOLEAN]
    /\ {available, feed} \subseteq [version : 0 .. MaxVersion, carries : 0 .. MaxVersion]
    /\ offers \in 0 .. MaxOffers /\ faults \in 0 .. MaxFaults

UpdaterInit ==
    /\ uKind \in {"installer", "portable", "unix"}
    /\ program = 1 /\ replaced = 0 /\ running = 0 /\ uPc = "off" /\ byUser = FALSE
    /\ artifact = 0 /\ upManifest = NoManifest /\ failedRec = 0
    /\ available = NoOffer /\ downloaded = 0 /\ feed = NoOffer /\ offers = 0
    /\ installing = 0 /\ faults = 0 /\ lastFailed = 0
-----------------------------------------------------------------------------
Fault == faults < MaxFaults /\ faults' = faults + 1

\* remove_dir_all, best effort: the installer may still be running.
Emptied == artifact' \in {0, artifact} /\ upManifest' \in {NoManifest, upManifest}

\* failed_version: a record this build has passed counts for nothing.
FailedVersion == IF failedRec > running THEN failedRec ELSE 0

\* release_checks: the file is what its manifest says it is.
PassesChecks == artifact = upManifest.version
Newer == upManifest.version > running
Ready == Newer /\ ~upManifest.attempted /\ PassesChecks

\* Mutant: the staging directory goes without a word about the attempt.
ClearUnread == Emptied /\ UNCHANGED failedRec
\* ready_to_install when there is nothing to install: remembered, then cleared.
Clear == Emptied /\ failedRec' = IF Newer /\ upManifest.attempted THEN upManifest.version ELSE failedRec

Leave == uPc' = "off" /\ running' = 0 /\ available' = NoOffer /\ downloaded' = 0

\* install_with, install_bytes_with: marked before anything is started.  One
\* version is remembered as failed, so a try of another takes its place.
MarkAttempted(asked) ==
    /\ upManifest' = [upManifest EXCEPT !.attempted = TRUE]
    /\ lastFailed' = IF upManifest.version = lastFailed THEN lastFailed ELSE 0
    /\ uPc' = "marked" /\ byUser' = asked /\ UNCHANGED <<artifact, failedRec>>
-----------------------------------------------------------------------------
LaunchProgram ==
    /\ uPc = "off" /\ installing = 0 /\ program # 0
    /\ uPc' = "startup" /\ running' = program
    /\ replaced' \in {0, replaced}
    /\ UNCHANGED <<program, artifact, upManifest, failedRec, available, downloaded, envVars, uKind,
                   byUser, installing, lastFailed>>

\* install_staged_at_startup, before a window shows.
InstallAtStartup ==
    /\ uPc = "startup" /\ uKind # "unix"
    /\ \/ ~Ready /\ Clear /\ uPc' = "idle" /\ UNCHANGED <<byUser, lastFailed>>
       \/ Ready /\ FailedVersion = upManifest.version
            /\ uPc' = "idle" /\ UNCHANGED <<artifact, upManifest, failedRec, byUser, lastFailed>>
       \/ Ready /\ FailedVersion # upManifest.version /\ MarkAttempted(FALSE)
    /\ UNCHANGED <<program, replaced, memVars, envVars, uKind, installing>>

\* fresh_offer: the saved package counts only while the server offers it.
Withdrawn ==
    /\ Emptied /\ downloaded' = 0
    /\ available' = IF feed.version > running THEN feed ELSE NoOffer
    /\ uPc' = "idle" /\ UNCHANGED <<byUser, failedRec>>

ResumeAtStartup ==
    /\ uPc = "startup" /\ uKind = "unix"
    /\ \/ ~Ready /\ Clear /\ uPc' = "idle" /\ UNCHANGED <<byUser, available, downloaded>>
       \/ /\ Ready /\ downloaded' = upManifest.version
          /\ uPc' = "idle" /\ UNCHANGED <<artifact, upManifest, failedRec, byUser, available>>
       \/ /\ Ready /\ FailedVersion # upManifest.version /\ feed.version = upManifest.version
          /\ downloaded' = upManifest.version /\ uPc' = "leaving" /\ byUser' = FALSE
          /\ UNCHANGED <<artifact, upManifest, failedRec, available>>
       \/ /\ Ready /\ FailedVersion # upManifest.version /\ feed.version # upManifest.version
          /\ Withdrawn
    /\ UNCHANGED <<program, replaced, running, envVars, uKind, installing, lastFailed>>

\* check, at startup, once a day or when asked; the setting decides whether
\* what it finds is downloaded.
Check ==
    LET found == IF available # NoOffer THEN available
                 ELSE IF feed.version > running THEN feed ELSE NoOffer
        failed == FailedVersion = found.version
    IN  /\ uPc = "idle" /\ downloaded = 0
        /\ available' = found /\ failedRec' = IF found = NoOffer THEN failedRec ELSE FailedVersion
        /\ uPc' \in IF found # NoOffer /\ ~failed THEN {"idle", "found"} ELSE {"idle"}
        /\ UNCHANGED <<program, replaced, artifact, upManifest, running, downloaded, envVars, uKind,
                       byUser, installing, lastFailed>>

Download ==
    /\ uPc = "idle" /\ available # NoOffer /\ uPc' = "found"
    /\ UNCHANGED <<diskVars, memVars, envVars, uKind, byUser, installing, lastFailed>>

\* stage: what an earlier download left goes first, the manifest comes last.
WriteArtifact ==
    /\ uPc = "found"
    /\ \/ uPc' = "idle" /\ UNCHANGED <<artifact, upManifest>>
       \/ uPc' = "written" /\ artifact' = available.carries /\ upManifest' \in {NoManifest, upManifest}
    /\ UNCHANGED <<program, replaced, failedRec, memVars, envVars, uKind, byUser, installing,
                   lastFailed>>
WriteManifest ==
    /\ uPc = "written" /\ uPc' = "idle"
    /\ upManifest' = [version |-> available.version, attempted |-> FALSE]
    /\ downloaded' = available.version /\ available' = NoOffer
    /\ UNCHANGED <<program, replaced, artifact, failedRec, running, envVars, uKind, byUser,
                   installing, lastFailed>>

\* install_now: looked at before the wind-down, and again after it.
InstallNow ==
    /\ uPc = "idle" /\ downloaded # 0
    /\ \/ ~Ready /\ Clear /\ downloaded' = 0 /\ UNCHANGED <<uPc, byUser, available>>
       \/ /\ Ready /\ uKind = "unix" => feed.version = upManifest.version
          /\ uPc' = "leaving" /\ byUser' = TRUE
          /\ UNCHANGED <<artifact, upManifest, failedRec, available, downloaded>>
       \/ Ready /\ uKind = "unix" /\ feed.version # upManifest.version /\ Withdrawn
    /\ UNCHANGED <<program, replaced, running, envVars, uKind, installing, lastFailed>>
MarkNow ==
    /\ uPc = "leaving" /\ Ready /\ MarkAttempted(byUser)
    /\ UNCHANGED <<program, replaced, memVars, envVars, uKind, installing>>

\* A start that fails: at startup the session goes on, after a wind-down it ends.
NotStarted ==
    /\ IF byUser THEN Leave ELSE uPc' = "idle" /\ UNCHANGED memVars
    /\ UNCHANGED <<artifact, upManifest, failedRec, feed, offers, uKind, byUser, installing,
                   lastFailed>>
StartInstaller ==
    /\ uPc = "marked" /\ uKind = "installer"
    /\ \/ /\ installing' = artifact /\ Leave
          /\ UNCHANGED <<artifact, upManifest, failedRec, envVars, uKind, byUser, lastFailed>>
       \/ Fault /\ NotStarted
    /\ UNCHANGED <<program, replaced>>
InstallerEnds ==
    /\ installing # 0 /\ installing' = 0
    /\ \/ program' = installing /\ UNCHANGED <<faults, lastFailed>>
       \/ Fault /\ lastFailed' = installing /\ UNCHANGED program
    /\ UNCHANGED <<replaced, artifact, upManifest, failedRec, memVars, feed, offers, uKind, uPc,
                   byUser>>

\* replace_program: the old one steps aside and comes back when the new one
\* cannot be put in place or started.
SwapOut ==
    /\ uPc = "marked" /\ uKind = "portable"
    /\ \/ /\ uPc' = "swapping" /\ program' = 0 /\ replaced' = program
          /\ UNCHANGED <<artifact, upManifest, failedRec, memVars, envVars, uKind, byUser,
                         installing, lastFailed>>
       \/ Fault /\ NotStarted /\ UNCHANGED <<program, replaced>>
SwapIn ==
    /\ uPc = "swapping"
    /\ \/ /\ program' = artifact /\ Leave
          /\ UNCHANGED <<replaced, artifact, upManifest, failedRec, envVars, uKind, byUser,
                         installing, lastFailed>>
       \/ Fault /\ program' = replaced /\ replaced' = 0 /\ NotStarted

\* apply: a failed installation is remembered and the old program restarts.
InstallUnix ==
    /\ uPc = "marked" /\ uKind = "unix" /\ Leave
    /\ \/ program' = artifact /\ UNCHANGED <<failedRec, faults, lastFailed>>
       \/ Fault /\ lastFailed' = artifact /\ UNCHANGED program
          /\ failedRec' \in {upManifest.version, failedRec}
    /\ UNCHANGED <<replaced, artifact, upManifest, feed, offers, uKind, byUser, installing>>

Exit ==
    /\ uPc # "off" /\ Leave
    /\ UNCHANGED <<diskVars, envVars, uKind, byUser, installing, lastFailed>>

\* The feed is not signed: it may announce a version its file does not carry.
FeedChanges ==
    /\ offers < MaxOffers /\ offers' = offers + 1
    /\ \E v, c \in UVersions : feed' = [version |-> v, carries |-> c]
    /\ UNCHANGED <<diskVars, memVars, faults, uKind, uPc, byUser, installing, lastFailed>>

UpdaterNext ==
    \/ LaunchProgram \/ InstallAtStartup \/ ResumeAtStartup \/ Check \/ Download \/ WriteArtifact
    \/ WriteManifest \/ InstallNow \/ MarkNow \/ StartInstaller \/ InstallerEnds \/ SwapOut
    \/ SwapIn \/ InstallUnix \/ Exit \/ FeedChanges

UpdaterSpec == UpdaterInit /\ [][UpdaterNext]_updaterVars
-----------------------------------------------------------------------------
(* "The version whose installer was started and did not install it ...      *)
(* FTPeach installs that version only when asked to" (update_staging.rs).   *)
FailedVersionWaitsForTheUser ==
    [][uPc' = "marked" /\ uPc # "marked" /\ ~byUser'
         => upManifest'.version # lastFailed]_updaterVars
=============================================================================
