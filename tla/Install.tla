------------------------------- MODULE Install -----------------------------
(***************************************************************************)
(* `devm install`, `devm upgrade` and `devm uninstall`: the host's state   *)
(* that devm owns (two launchd services and their plists, the helper's     *)
(* binary and its socket, a group, lo0 aliases, a resolver file, a trusted *)
(* certificate, the menu-bar app), the base image, and the commands that   *)
(* change it line by line of a script run by root, any of which may be the *)
(* last one it gets to.  The commands are run by hand, one at a time;      *)
(* launchd restarts a service that dies, and a host may reboot, at any     *)
(* time.                                                                   *)
(*                                                                         *)
(* A build is a `devm` binary and the helper embedded in it, later builds  *)
(* being larger; its fingerprint tells it from every other.                *)
(***************************************************************************)
EXTENDS Naturals

CONSTANTS
    Last,        \* bound on the builds there are releases of
    Definition,  \* the hash of a build's base image definition
    DeletesImage,\* cfg.DeleteBaseImageOnUninstall
    CAs,         \* the root certificates there can be
    Faults       \* what happens of "fail", "early", "lenient"

Builds == 1 .. Last
NoBuild == 0
NoCA == 0

ASSUME InstallAssumption ==
    /\ Last \in Nat \ {0}
    /\ Definition \in [Builds -> Nat \ {0}]
    /\ DeletesImage \in BOOLEAN
    /\ CAs \subseteq Nat \ {0} /\ 1 .. 3 \subseteq CAs

VARIABLES
    cli,         \* the build at the path `devm` is run from
    daemonPlist, \* is the daemon's plist there?
    daemon,      \* the build of the daemon that runs
    signs,       \* the root certificate it signs with
    helperBin,   \* the build of the helper's binary
    helperPlist, \* is the helper's plist there?
    helper,      \* the build of the helper that runs
    socket,      \* who may use its socket: "nobody", "root", "group"
    group,       \* the group: "none", "empty" or with the user as "member"
    aliases,     \* is every lo0 alias of the pool there?
    resolver,    \* is the resolver file as it should be?
    trusted,     \* the root certificate in the System Keychain
    ca,          \* the one in the runtime directory
    include,     \* is ssh_config included from ~/.ssh/config?
    app, agent,  \* the build of the menu-bar app; is its LaunchAgent there?
    image,       \* the base image: "none", "partial" or "whole" ...
    built,       \* ... and the definition it was built from
    hash,        \* base-image.hash
    at, todo,    \* where the command is, and the lines its script has left to run
    me, fetched, \* its own build, and was it given a devm.app?
    said         \* what the last command ended with

services == <<daemonPlist, daemon, signs, helperBin, helperPlist, helper, socket>>
system == <<group, aliases, resolver, trusted>>
user == <<ca, include, app, agent>>
base == <<image, built, hash>>
command == <<at, todo, me, fetched, said>>
vars == <<cli, services, system, user, base, command>>

\* Mutant: the daemon is reloaded before the helper.
InstallLines_DaemonFirst ==
    <<"resolver", "trust", "group", "member", "aliases", "unload", "plist", "load",
      "helperBin", "helperPlist", "unloadHelper", "loadHelper", "removeApp", "copyApp">>

\* The order of buildInstallScript.
InstallLines ==
    <<"resolver", "trust", "group", "member", "helperBin", "helperPlist",
      "unloadHelper", "loadHelper", "aliases", "unload", "plist", "load",
      "removeApp", "copyApp">>

\* The order of buildUninstallScript.
UninstallLines ==
    <<"unload", "unloadHelper", "plist", "resolver", "trust", "aliases",
      "helperPlist", "helperBin", "group">>

\* l is the first of the lines left, in the order of its script.
Comes(l, script) ==
    /\ l \in todo
    /\ \A i, j \in DOMAIN script : i < j /\ script[j] = l => script[i] \notin todo

Lines(script) == {script[i] : i \in DOMAIN script}

Stages == {"idle", "fetch", "exec", "script", "image", "clone", "build", "record",
           "include", "agent", "undo", "exclude", "unregister", "wipe"}

MaybeBuild == Builds \cup {NoBuild}
MaybeCA == CAs \cup {NoCA}

TypeOK ==
    /\ cli \in Builds /\ daemon \in MaybeBuild /\ helperBin \in MaybeBuild
    /\ helper \in MaybeBuild /\ app \in MaybeBuild /\ me \in MaybeBuild
    /\ signs \in MaybeCA /\ trusted \in MaybeCA /\ ca \in MaybeCA
    /\ daemonPlist \in BOOLEAN /\ helperPlist \in BOOLEAN /\ aliases \in BOOLEAN
    /\ resolver \in BOOLEAN /\ include \in BOOLEAN /\ agent \in BOOLEAN
    /\ fetched \in BOOLEAN
    /\ socket \in {"nobody", "root", "group"} /\ group \in {"none", "empty", "member"}
    /\ image \in {"none", "partial", "whole"} /\ built \in Nat /\ hash \in Nat
    /\ at \in Stages /\ todo \subseteq Lines(InstallLines)
    /\ todo # {} => at \in {"script", "undo"}
    /\ said \in {"nothing", "ready", "current", "upgraded", "failed", "uninstalled"}

\* A host that has a devm binary, and nothing else.
Init ==
    /\ cli = 1
    /\ daemonPlist = FALSE /\ daemon = NoBuild /\ signs = NoCA
    /\ helperBin = NoBuild /\ helperPlist = FALSE /\ helper = NoBuild
    /\ socket = "nobody" /\ group = "none" /\ aliases = FALSE
    /\ resolver = FALSE /\ trusted = NoCA /\ ca = NoCA
    /\ include = FALSE /\ app = NoBuild /\ agent = FALSE
    /\ image = "none" /\ built = 0 /\ hash = 0
    /\ at = "idle" /\ todo = {} /\ me = NoBuild /\ fetched = FALSE
    /\ said = "nothing"

-----------------------------------------------------------------------------
(* What a service does when launchd starts it.                             *)

\* The root certificate in the runtime directory, or a new one.
LoadOrGenerate ==
    IF ca # NoCA THEN ca
    ELSE CHOOSE c \in CAs : c \notin {trusted, signs}

\* It listens, with the binary that is at its path now.
DaemonStarts ==
    /\ daemon' = cli
    /\ ca' = LoadOrGenerate
    /\ signs' = ca'

\* It adds the aliases, and hands its socket to the group, if there is one.
HelperStarts ==
    /\ helper' = helperBin
    /\ aliases' = TRUE
    /\ socket' = IF group = "none" THEN "root" ELSE "group"

\* What launchd would start is what the installer has seen to: the daemon does not
\* come onto a new binary before the script that installs its helper reloads it.
InStep ==
    \/ daemon = cli
    \/ daemon = NoBuild /\ helper = cli
    \/ "early" \in Faults

\* launchd restarts a daemon that died; `devm service restart`; and `start`.
DaemonRestarts ==
    /\ daemonPlist
    /\ daemon # NoBuild \/ at = "idle"
    /\ InStep
    /\ DaemonStarts
    /\ UNCHANGED <<cli, daemonPlist, helperBin, helperPlist, helper, socket,
                   system, include, app, agent, base, command>>

\* `devm service stop`.
ServiceStop ==
    /\ at = "idle" /\ daemon # NoBuild
    /\ daemon' = NoBuild /\ signs' = NoCA
    /\ said' = "nothing"
    /\ UNCHANGED <<cli, daemonPlist, helperBin, helperPlist, helper, socket,
                   system, user, base, at, todo, me, fetched>>

\* Aliases do not survive a reboot; launchd loads the plists there are.
Reboots ==
    /\ daemonPlist => InStep
    /\ IF daemonPlist THEN DaemonStarts
       ELSE daemon' = NoBuild /\ signs' = NoCA /\ UNCHANGED ca
    /\ IF helperPlist THEN HelperStarts
       ELSE helper' = NoBuild /\ aliases' = FALSE /\ socket' = "nobody"
    /\ at' = "idle" /\ todo' = {}
    /\ said' = IF at = "idle" /\ daemonPlist THEN said ELSE "nothing"
    /\ UNCHANGED <<cli, daemonPlist, helperBin, helperPlist, group, resolver,
                   trusted, include, app, agent, base, me, fetched>>

-----------------------------------------------------------------------------
(* What there is to do: runPrivilegedInstall of a build b.                 *)

NeedsDaemon(b) == daemon # b

\* The plist names the path, which does not change, and no build.
NeedsHelper(b) == NeedsDaemon(b) \/ ~helperPlist

\* The group and the user's membership, which only the lines of the script check.
NeedsGroup(b) == group = "none" \/ NeedsHelper(b)

NeedsDNS == ~resolver

\* A certificate of that name is in the keychain, whichever it is.
NeedsCA == trusted = NoCA

NeedsAliases == ~aliases

Needed(b, withApp) ==
    {l \in {"resolver"} : NeedsDNS}
    \cup {l \in {"trust"} : NeedsCA}
    \cup {l \in {"group", "member"} : NeedsGroup(b)}
    \cup {l \in {"helperBin", "helperPlist", "unloadHelper", "loadHelper"} : NeedsHelper(b)}
    \cup {l \in {"aliases"} : NeedsAliases}
    \cup {l \in {"unload", "plist", "load"} : NeedsDaemon(b)}
    \cup {l \in {"removeApp", "copyApp"} : withApp}

\* The process of build b begins to install; a certificate that is to be trusted
\* is there before root is asked for.
Begins(b, withApp) ==
    LET lines == Needed(b, withApp) IN
    /\ me' = b /\ fetched' = withApp
    /\ \/ /\ lines = {}
          /\ at' = "idle" /\ said' = "current"
          /\ UNCHANGED <<todo, ca>>
       \/ /\ lines # {}
          /\ at' = "script" /\ todo' = lines /\ said' = "nothing"
          /\ ca' = IF "trust" \in lines THEN LoadOrGenerate ELSE ca
    /\ UNCHANGED <<cli, services, system, include, app, agent, base>>

DevmInstall == at = "idle" /\ Begins(cli, FALSE)

\* updater.UpdateTo puts a later release at the path of the binary that runs.
UpgradeSwaps ==
    /\ at = "idle" /\ at' = "fetch"
    /\ \E b \in Builds : b > cli /\ cli' = b
    /\ me' = cli
    /\ said' = "nothing"
    /\ UNCHANGED <<services, system, user, base, todo, fetched>>

\* devm.app is downloaded and extracted.
UpgradeFetches ==
    /\ at = "fetch" /\ at' = "exec"
    /\ UNCHANGED <<cli, services, system, user, base, todo, me, fetched, said>>

\* The binary at the path, and not the process that runs, installs.
UpgradeInstalls == at = "exec" /\ Begins(cli, TRUE)

-----------------------------------------------------------------------------
(* The script of install: its first line left is run; set -e.              *)

Line(l) ==
    /\ at = "script" /\ Comes(l, InstallLines)
    /\ todo' = todo \ {l}
    /\ UNCHANGED <<cli, base, include, agent, at, me, fetched, said>>

WritesResolver ==
    /\ Line("resolver")
    /\ resolver' = TRUE
    /\ UNCHANGED <<services, group, aliases, trusted, ca, app>>

AddsTrustedCert ==
    /\ Line("trust")
    /\ trusted' = ca
    /\ UNCHANGED <<services, group, aliases, resolver, ca, app>>

CreatesGroup ==
    /\ Line("group")
    /\ group' = IF group = "none" THEN "empty" ELSE group
    /\ UNCHANGED <<services, aliases, resolver, trusted, ca, app>>

AppendsUser ==
    /\ Line("member")
    /\ group' = "member"
    /\ UNCHANGED <<services, aliases, resolver, trusted, ca, app>>

\* The helper that is embedded in the running binary.
InstallsHelper ==
    /\ Line("helperBin")
    /\ helperBin' = me
    /\ UNCHANGED <<daemonPlist, daemon, signs, helperPlist, helper, socket, system, ca, app>>

WritesHelperPlist ==
    /\ Line("helperPlist")
    /\ helperPlist' = TRUE
    /\ UNCHANGED <<daemonPlist, daemon, signs, helperBin, helper, socket, system, ca, app>>

UnloadsHelper ==
    /\ Line("unloadHelper")
    /\ helper' = NoBuild /\ socket' = "nobody"
    /\ UNCHANGED <<daemonPlist, daemon, signs, helperBin, helperPlist, system, ca, app>>

LoadsHelper ==
    /\ Line("loadHelper")
    /\ HelperStarts
    /\ UNCHANGED <<daemonPlist, daemon, signs, helperBin, helperPlist,
                   group, resolver, trusted, ca, app>>

\* The one line whose failure is passed over (|| true).
AddsAliases ==
    /\ Line("aliases")
    /\ aliases' \in {aliases, TRUE}
    /\ UNCHANGED <<services, group, resolver, trusted, ca, app>>

UnloadsDaemon ==
    /\ Line("unload")
    /\ daemon' = NoBuild /\ signs' = NoCA /\ daemonPlist' = FALSE
    /\ UNCHANGED <<helperBin, helperPlist, helper, socket, system, ca, app>>

WritesDaemonPlist ==
    /\ Line("plist")
    /\ daemonPlist' = TRUE
    /\ UNCHANGED <<daemon, signs, helperBin, helperPlist, helper, socket, system, ca, app>>

\* launchctl bootstrap, tried again for some 15 seconds.
LoadsDaemon ==
    /\ Line("load")
    /\ DaemonStarts
    /\ UNCHANGED <<daemonPlist, helperBin, helperPlist, helper, socket, system, app>>

RemovesApp ==
    /\ Line("removeApp")
    /\ app' = NoBuild
    /\ UNCHANGED <<services, system, ca>>

CopiesApp ==
    /\ Line("copyApp")
    /\ app' = cli
    /\ UNCHANGED <<services, system, ca>>

ScriptEnds ==
    /\ at = "script" /\ todo = {}
    /\ at' = "image"
    /\ UNCHANGED <<cli, services, system, user, base, todo, me, fetched, said>>

RunsLine ==
    \/ WritesResolver \/ AddsTrustedCert \/ CreatesGroup \/ AppendsUser
    \/ InstallsHelper \/ WritesHelperPlist \/ UnloadsHelper \/ LoadsHelper
    \/ AddsAliases \/ UnloadsDaemon \/ WritesDaemonPlist \/ LoadsDaemon
    \/ RemovesApp \/ CopiesApp

-----------------------------------------------------------------------------
(* The base image, and what the user's own files get.                      *)

NeedsBuild(b) == hash # Definition[b] \/ image = "none"

\* An install goes on from one stage to the next.
Advances(from, to) ==
    /\ at = from /\ at' = to
    /\ UNCHANGED <<cli, services, system, ca, todo, me, fetched>>

SkipsBuild ==
    /\ Advances("image", "include")
    /\ ~NeedsBuild(me)
    /\ UNCHANGED <<base, include, app, agent, said>>

DeletesStale ==
    /\ Advances("image", "clone")
    /\ NeedsBuild(me)
    /\ image' = "none" /\ built' = 0
    /\ UNCHANGED <<hash, include, app, agent, said>>

\* Mutant: the hash is written before the clone is provisioned.
ClonesTemplate_Recorded ==
    /\ Advances("clone", "build")
    /\ image' = "partial" /\ hash' = Definition[me]
    /\ UNCHANGED <<built, include, app, agent, said>>

ClonesTemplate ==
    /\ Advances("clone", "build")
    /\ image' = "partial"
    /\ UNCHANGED <<built, hash, include, app, agent, said>>

\* It is booted, provisioned, powered off, booted, cleaned up and powered off.
ProvisionsBase ==
    /\ Advances("build", "record")
    /\ image' = "whole" /\ built' = Definition[me]
    /\ UNCHANGED <<hash, include, app, agent, said>>

RecordsHash ==
    /\ Advances("record", "include")
    /\ hash' = Definition[me]
    /\ UNCHANGED <<image, built, include, app, agent, said>>

EnsuresInclude ==
    /\ Advances("include", "agent")
    /\ include' = TRUE
    /\ UNCHANGED <<base, app, agent, said>>

\* After an upgrade: root has copied the app.
RegistersAgent ==
    /\ Advances("agent", "idle")
    /\ fetched
    /\ agent' = TRUE
    /\ said' = "upgraded"
    /\ UNCHANGED <<base, include, app>>

\* Otherwise an app built in the working directory is copied, or the one that is
\* there registered, or neither; the install has succeeded anyhow.
InstallsApp ==
    /\ Advances("agent", "idle")
    /\ ~fetched
    /\ \/ app' = me /\ agent' = TRUE
       \/ app # NoBuild /\ agent' = TRUE /\ UNCHANGED app
       \/ app' \in {app, NoBuild} /\ UNCHANGED agent
    /\ said' = "ready"
    /\ UNCHANGED <<base, include>>

\* Mutant: the script goes on after a line that failed.
Fails_GoesOn ==
    /\ "fail" \in Faults
    /\ at # "idle"
    /\ at' = "idle" /\ said' = "failed"
    /\ UNCHANGED <<cli, services, system, user, base, todo, me, fetched>>

\* A line, a download or a step of the build fails, or the command is interrupted;
\* its script, and what it would do next, is dropped.
Fails ==
    /\ "fail" \in Faults
    /\ at # "idle"
    /\ at' = "idle" /\ todo' = {} /\ said' = "failed"
    /\ UNCHANGED <<cli, services, system, user, base, me, fetched>>

-----------------------------------------------------------------------------
(* `devm uninstall`.                                                       *)

DevmUninstall ==
    /\ at = "idle" /\ at' = "undo"
    /\ todo' = Lines(UninstallLines)
    /\ said' = "nothing"
    /\ UNCHANGED <<cli, services, system, user, base, me, fetched>>

\* One line of its script; set +e, so that one that fails does nothing.
Undoes(l) ==
    /\ daemonPlist' = (daemonPlist /\ l # "plist")
    /\ daemon' = IF l = "unload" THEN NoBuild ELSE daemon
    /\ signs' = IF l = "unload" THEN NoCA ELSE signs
    /\ helper' = IF l = "unloadHelper" THEN NoBuild ELSE helper
    /\ socket' = IF l = "unloadHelper" THEN "nobody" ELSE socket
    /\ resolver' = (resolver /\ l # "resolver")
    /\ trusted' = IF l = "trust" THEN NoCA ELSE trusted
    /\ aliases' = (aliases /\ l # "aliases")
    /\ helperPlist' = (helperPlist /\ l # "helperPlist")
    /\ helperBin' = IF l = "helperBin" THEN NoBuild ELSE helperBin
    /\ group' = IF l = "group" THEN "none" ELSE group

UninstallLine ==
    /\ at = "undo"
    /\ \E l \in todo :
          /\ Comes(l, UninstallLines)
          /\ \E m \in {l} \cup {n \in {"nothing"} : "lenient" \in Faults} : Undoes(m)
          /\ todo' = todo \ {l}
    /\ UNCHANGED <<cli, user, base, at, me, fetched, said>>

\* tart delete, as the user; the hash stays.
UninstallImage ==
    /\ at = "undo" /\ todo = {} /\ at' = "exclude"
    /\ IF DeletesImage THEN image' = "none" /\ built' = 0 ELSE UNCHANGED <<image, built>>
    /\ UNCHANGED <<cli, services, system, user, hash, todo, me, fetched, said>>

UninstallInclude ==
    /\ at = "exclude" /\ at' = "unregister"
    /\ include' = FALSE
    /\ UNCHANGED <<cli, services, system, ca, app, agent, base, todo, me, fetched, said>>

\* The user cannot remove an app that root put there; that is passed over.
UninstallApp ==
    /\ at = "unregister" /\ at' = "wipe"
    /\ agent' = FALSE
    /\ app' \in {app, NoBuild}
    /\ UNCHANGED <<cli, services, system, ca, include, base, todo, me, fetched, said>>

\* The runtime directory, and the root certificate in it.
UninstallWipes ==
    /\ at = "wipe" /\ at' = "idle"
    /\ ca' = NoCA
    /\ said' = "uninstalled"
    /\ UNCHANGED <<cli, services, system, include, app, agent, base, todo, me, fetched>>

-----------------------------------------------------------------------------

Next ==
    \/ DaemonRestarts \/ ServiceStop \/ Reboots
    \/ DevmInstall \/ UpgradeSwaps \/ UpgradeFetches \/ UpgradeInstalls
    \/ RunsLine \/ ScriptEnds
    \/ SkipsBuild \/ DeletesStale \/ ClonesTemplate \/ ProvisionsBase
    \/ RecordsHash \/ EnsuresInclude \/ RegistersAgent \/ InstallsApp
    \/ Fails
    \/ DevmUninstall \/ UninstallLine \/ UninstallImage
    \/ UninstallInclude \/ UninstallApp \/ UninstallWipes

Spec == Init /\ [][Next]_vars

-----------------------------------------------------------------------------
(* Properties.                                                             *)

Done == said \in {"ready", "current", "upgraded"}

\* Whichever of its lines an earlier install failed at, and however often, an
\* install that ends well leaves both services running from the binary on disk,
\* the helper's socket open to the user, the names, addresses and certificate in
\* place; it can tell from the daemon alone what went before it, because the
\* script reloads the daemon last.
DoneIsInForce ==
    Done => /\ daemon = cli /\ helper = cli
            /\ socket = "group" /\ group = "member"
            /\ aliases /\ resolver
            /\ trusted = signs /\ signs # NoCA

\* A base image that NeedsBuild takes for up to date has been provisioned to the
\* end, from the definition in the binary, whichever builds failed halfway.
ImageIsWhole == ~NeedsBuild(cli) => image = "whole" /\ built = Definition[cli]

-----------------------------------------------------------------------------
(* What comments in the code say, and its behaviour does not keep.         *)

\* "Idempotent on every step": an install that ends well has the base image and
\* the Include line, also if an earlier one failed at them.
DoneIsComplete == Done => ~NeedsBuild(cli) /\ include

\* "Re-run `devm upgrade` to retry": a host on the last release has its app, or
\* there is something left that fetches it.
AppFollows == cli = Last /\ at = "idle" /\ app # NoBuild => app = cli
=============================================================================
