---------------------------- MODULE InstallProofs --------------------------
(***************************************************************************)
(* Install for any number of releases, reboots and restarts: its types,    *)
(* that a base image taken for up to date is whole, and that an install    *)
(* that ends well is in force, wherever earlier commands were cut off.     *)
(***************************************************************************)
EXTENDS Install, TLAPS

\* No release goes back to a base image definition that another one has replaced,
\* and uninstall leaves the image; with one that does, or an uninstall that deletes
\* the image and not the hash, TLC refutes ImageIsWhole.
NeverReverts ==
    /\ ~DeletesImage
    /\ \A a, b, c \in Builds :
          a <= b /\ b <= c /\ Definition[a] = Definition[c] => Definition[b] = Definition[c]

\* The daemon does not come onto a swapped binary before the install does, and no
\* line of uninstall fails silently; with either TLC refutes DoneIsInForce.
Strict == Faults \cap {"early", "lenient"} = {}

-----------------------------------------------------------------------------
(* The invariants.                                                         *)

Installing == {"script", "image", "clone", "build", "record", "include", "agent"}
Installed == Installing \ {"script"}
Undone == {"exclude", "unregister", "wipe"}

\* The process that installs is of the binary at the path.
MeInv == at \in Installing => me = cli

\* The hash is of a definition there has been, and an image of that definition
\* or a later one is only taken for up to date when it was provisioned from it.
ImageInv ==
    /\ hash = 0 \/ \E b \in 1 .. cli : hash = Definition[b]
    /\ hash = Definition[cli] => image = "whole" /\ built = hash
    /\ at \in {"clone", "build", "record"} => hash # Definition[cli]
    /\ at = "record" => image = "whole" /\ built = Definition[cli]

\* What runs and what is there imply one another in the order of the lines: a
\* daemon of the present build has its helper, a helper its binary, plist, socket
\* and aliases, a binary the group.
ServicesInv ==
    /\ daemon \in 0 .. cli /\ helper \in 0 .. cli /\ helperBin \in 0 .. cli
    /\ daemon = cli => helper = cli
    /\ helper = cli => helperBin = cli
    /\ helper # NoBuild => helperPlist /\ socket = "group" /\ aliases
    /\ helperPlist => helperBin # NoBuild
    /\ helperBin # NoBuild => group = "member"

\* A daemon signs with the certificate on file, and that one is trusted if any is.
CertInv ==
    /\ signs = IF daemon = NoBuild THEN NoCA ELSE ca
    /\ daemon # NoBuild => ca # NoCA
    /\ trusted \in {NoCA, ca}

\* What the lines that are no longer left have seen to.
ScriptInv ==
    /\ at = "script" =>
         /\ "member" \notin todo => group = "member"
         /\ "helperBin" \notin todo => helperBin = cli
         /\ "helperPlist" \notin todo => helperPlist
         /\ "loadHelper" \notin todo => helper = cli
         /\ "load" \notin todo => daemon = cli
         /\ "resolver" \notin todo => resolver
         /\ IF "trust" \in todo THEN ca # NoCA ELSE trusted # NoCA
         /\ "unloadHelper" \in todo => "loadHelper" \in todo
         /\ "loadHelper" \in todo \/ "unload" \in todo \/ "plist" \in todo => "load" \in todo
         /\ "load" \in todo => daemon # cli
    /\ at \in Installed => daemon = cli /\ resolver /\ trusted # NoCA

UndoInv ==
    at \in Undone \cup {"undo"} =>
        /\ "unload" \notin todo => daemon = NoBuild
        /\ "unloadHelper" \notin todo => helper = NoBuild
        /\ "trust" \notin todo => trusted = NoCA
        /\ "helperPlist" \notin todo => ~helperPlist
        /\ "helperBin" \notin todo => helperBin = NoBuild

SaidInv == Done => at = "idle" /\ daemon = cli /\ resolver /\ trusted # NoCA

Facts == ServicesInv /\ CertInv /\ ScriptInv /\ UndoInv /\ SaidInv

-----------------------------------------------------------------------------
(* Types.                                                                  *)

\* There is always a root certificate to sign with.
LEMMA CertThereIs == TypeOK => LoadOrGenerate \in CAs /\ LoadOrGenerate # NoCA
<1> SUFFICES ASSUME TypeOK PROVE LoadOrGenerate \in CAs
  BY InstallAssumption DEF NoCA
<1>1. \E c \in CAs : c \notin {trusted, signs}
  <2>1. 1 \in CAs /\ 2 \in CAs /\ 3 \in CAs
    BY InstallAssumption
  <2> QED
    BY <2>1
<1>2. (CHOOSE c \in CAs : c \notin {trusted, signs}) \in CAs
  BY <1>1
<1> QED
  BY <1>2 DEF LoadOrGenerate, TypeOK, MaybeCA

LEMMA MaybesAre ==
    /\ Builds \subseteq MaybeBuild /\ NoBuild \in MaybeBuild
    /\ CAs \subseteq MaybeCA /\ NoCA \in MaybeCA
BY DEF MaybeBuild, MaybeCA

LEMMA NeededAreLines ==
    ASSUME NEW b, NEW withApp
    PROVE  Needed(b, withApp) \subseteq Lines(InstallLines)
BY DEF Needed, Lines, InstallLines

LEMMA UndoneAreLines == Lines(UninstallLines) \subseteq Lines(InstallLines)
BY DEF Lines, UninstallLines, InstallLines

LEMMA InstallTypeInit == Init => TypeOK
<1> SUFFICES ASSUME Init PROVE TypeOK
  OBVIOUS
<1>1. cli \in Builds
  BY InstallAssumption DEF Init, Builds
<1> QED
  BY <1>1, MaybesAre DEF Init, TypeOK, Stages

LEMMA BeginsTyped ==
    ASSUME TypeOK, NEW b, NEW withApp, Begins(b, withApp)
    PROVE  ca' \in MaybeCA /\ todo' \subseteq Lines(InstallLines)
<1>1. ca' = ca \/ ca' = LoadOrGenerate
  BY DEF Begins
<1>2. todo' = todo \/ todo' = Needed(b, withApp)
  BY DEF Begins
<1>3. ca' \in MaybeCA
  BY <1>1, CertThereIs, MaybesAre DEF TypeOK
<1>4. todo \subseteq Lines(InstallLines)
  BY DEF TypeOK
<1>5. todo' \subseteq Lines(InstallLines)
  BY <1>2, <1>4, NeededAreLines
<1> QED
  BY <1>3, <1>5

\* launchd, and a command's beginning.
LEMMA HostTyped ==
    ASSUME TypeOK, MeInv,
           \/ DaemonRestarts \/ ServiceStop \/ Reboots
           \/ DevmInstall \/ UpgradeSwaps \/ UpgradeFetches \/ UpgradeInstalls
    PROVE  TypeOK'
<1> USE MaybesAre, CertThereIs DEF TypeOK, Stages
<1>1. CASE DaemonRestarts
  BY <1>1 DEF DaemonRestarts, DaemonStarts, system, base, command
<1>2. CASE ServiceStop
  BY <1>2 DEF ServiceStop, system, user, base
<1>3. CASE Reboots
  BY <1>3, ZenonT(60) DEF Reboots, DaemonStarts, HelperStarts, base
<1>4. ASSUME NEW b \in Builds, NEW withApp \in BOOLEAN, Begins(b, withApp),
             at \in {"idle", "exec"}
      PROVE  TypeOK'
  <2>1. ca' \in MaybeCA /\ todo' \subseteq Lines(InstallLines)
    BY <1>4, BeginsTyped
  <2>2. at' \in {"idle", "script"} /\ (todo' # {} => at' = "script")
    BY <1>4 DEF Begins
  <2> QED
    BY <1>4, <2>1, <2>2 DEF Begins, services, system, base
<1>5. CASE UpgradeSwaps
  BY <1>5 DEF UpgradeSwaps, services, system, user, base
<1>6. CASE UpgradeFetches
  BY <1>6 DEF UpgradeFetches, services, system, user, base
<1>7. CASE DevmInstall \/ UpgradeInstalls
  BY <1>4, <1>7 DEF DevmInstall, UpgradeInstalls
<1> QED
  BY <1>1, <1>2, <1>3, <1>5, <1>6, <1>7

LEMMA LinesTyped ==
    ASSUME TypeOK, RunsLine
    PROVE  TypeOK'
<1> USE MaybesAre, CertThereIs
    DEF TypeOK, Stages, Line, Comes, base, services, system
<1>1. CASE WritesResolver
  BY <1>1 DEF WritesResolver
<1>2. CASE AddsTrustedCert
  BY <1>2 DEF AddsTrustedCert
<1>3. CASE CreatesGroup
  BY <1>3 DEF CreatesGroup
<1>4. CASE AppendsUser
  BY <1>4 DEF AppendsUser
<1>5. CASE InstallsHelper
  BY <1>5 DEF InstallsHelper
<1>6. CASE WritesHelperPlist
  BY <1>6 DEF WritesHelperPlist
<1>7. CASE UnloadsHelper
  BY <1>7 DEF UnloadsHelper
<1>8. CASE LoadsHelper
  BY <1>8 DEF LoadsHelper, HelperStarts
<1>9. CASE AddsAliases
  <2>1. aliases' \in BOOLEAN
    BY <1>9 DEF AddsAliases
  <2> QED
    BY <1>9, <2>1 DEF AddsAliases
<1>10. CASE UnloadsDaemon
  <2>1. daemonPlist' \in BOOLEAN
    BY <1>10 DEF UnloadsDaemon
  <2> QED
    BY <1>10, <2>1 DEF UnloadsDaemon
<1>11. CASE WritesDaemonPlist
  BY <1>11 DEF WritesDaemonPlist
<1>12. CASE LoadsDaemon
  BY <1>12 DEF LoadsDaemon, DaemonStarts
<1>13. CASE RemovesApp
  BY <1>13 DEF RemovesApp
<1>14. CASE CopiesApp
  BY <1>14 DEF CopiesApp
<1> QED
  BY <1>1, <1>2, <1>3, <1>4, <1>5, <1>6, <1>7, <1>8, <1>9, <1>10, <1>11, <1>12,
     <1>13, <1>14 DEF RunsLine

LEMMA StagesTyped ==
    ASSUME TypeOK, MeInv,
           \/ ScriptEnds \/ SkipsBuild \/ DeletesStale \/ ClonesTemplate \/ ProvisionsBase
           \/ RecordsHash \/ EnsuresInclude \/ RegistersAgent \/ InstallsApp \/ Fails
           \/ DevmUninstall \/ UninstallLine \/ UninstallImage
           \/ UninstallInclude \/ UninstallApp \/ UninstallWipes
    PROVE  TypeOK'
<1> USE MaybesAre
    DEF TypeOK, Stages, Advances, base, services, system, user
<1>1. CASE ScriptEnds
  BY <1>1 DEF ScriptEnds
<1>2. CASE SkipsBuild
  BY <1>2 DEF SkipsBuild
<1>3. CASE DeletesStale
  BY <1>3 DEF DeletesStale
<1>4. CASE ClonesTemplate
  BY <1>4 DEF ClonesTemplate
<1>5. CASE ProvisionsBase
  <2>1. me \in Builds /\ Definition[me] \in Nat
    BY <1>5, InstallAssumption DEF ProvisionsBase, MeInv, Installing
  <2> QED
    BY <1>5, <2>1 DEF ProvisionsBase
<1>6. CASE RecordsHash
  <2>1. me \in Builds /\ Definition[me] \in Nat
    BY <1>6, InstallAssumption DEF RecordsHash, MeInv, Installing
  <2> QED
    BY <1>6, <2>1 DEF RecordsHash
<1>7. CASE EnsuresInclude
  BY <1>7 DEF EnsuresInclude
<1>8. CASE RegistersAgent
  BY <1>8 DEF RegistersAgent
<1>9. CASE InstallsApp
  <2>1. me \in Builds
    BY <1>9 DEF InstallsApp, MeInv, Installing
  <2> QED
    <3>1. app' \in MaybeBuild /\ agent' \in BOOLEAN
      BY <1>9, <2>1 DEF InstallsApp
    <3> QED
      BY <1>9, <3>1 DEF InstallsApp
<1>10. CASE Fails
  BY <1>10 DEF Fails
<1>11. CASE DevmUninstall
  BY <1>11, UndoneAreLines DEF DevmUninstall
<1>12. CASE UninstallLine
  BY <1>12 DEF UninstallLine, Undoes
<1>13. CASE UninstallImage
  BY <1>13 DEF UninstallImage
<1>14. CASE UninstallInclude
  <2>1. include' \in BOOLEAN
    BY <1>14 DEF UninstallInclude
  <2> QED
    BY <1>14, <2>1 DEF UninstallInclude
<1>15. CASE UninstallApp
  <2>1. agent' \in BOOLEAN /\ app' \in MaybeBuild
    BY <1>15 DEF UninstallApp
  <2> QED
    BY <1>15, <2>1 DEF UninstallApp
<1>16. CASE UninstallWipes
  BY <1>16 DEF UninstallWipes
<1> QED
  BY <1>1, <1>2, <1>3, <1>4, <1>5, <1>6, <1>7, <1>8, <1>9, <1>10, <1>11, <1>12,
     <1>13, <1>14, <1>15, <1>16


LEMMA MeStep ==
    ASSUME TypeOK, MeInv, [Next]_vars
    PROVE  MeInv'
<1> USE DEF MeInv, Installing
<1>1. CASE UNCHANGED vars
  BY <1>1 DEF vars, command
<1>2. CASE RunsLine
  BY <1>2 DEF RunsLine, Line, WritesResolver, AddsTrustedCert, CreatesGroup, AppendsUser,
     InstallsHelper, WritesHelperPlist, UnloadsHelper, LoadsHelper, AddsAliases,
     UnloadsDaemon, WritesDaemonPlist, LoadsDaemon, RemovesApp, CopiesApp
<1>3. CASE DaemonRestarts \/ ServiceStop \/ Reboots
  BY <1>3 DEF DaemonRestarts, ServiceStop, Reboots, command
<1>4. CASE DevmInstall \/ UpgradeSwaps \/ UpgradeFetches \/ UpgradeInstalls
  BY <1>4 DEF DevmInstall, UpgradeSwaps, UpgradeFetches, UpgradeInstalls, Begins
<1>5. CASE \/ ScriptEnds \/ SkipsBuild \/ DeletesStale \/ ClonesTemplate \/ ProvisionsBase
           \/ RecordsHash \/ EnsuresInclude \/ RegistersAgent \/ InstallsApp
  BY <1>5 DEF ScriptEnds, SkipsBuild, DeletesStale, ClonesTemplate, ProvisionsBase,
     RecordsHash, EnsuresInclude, RegistersAgent, InstallsApp, Advances
<1>6. CASE \/ Fails \/ DevmUninstall \/ UninstallLine \/ UninstallImage
           \/ UninstallInclude \/ UninstallApp \/ UninstallWipes
  BY <1>6 DEF Fails, DevmUninstall, UninstallLine, UninstallImage, UninstallInclude,
     UninstallApp, UninstallWipes
<1> QED
  BY <1>1, <1>2, <1>3, <1>4, <1>5, <1>6 DEF Next

LEMMA InstallTypeStep == TypeOK /\ MeInv /\ [Next]_vars => TypeOK' /\ MeInv'
<1>1. TypeOK /\ UNCHANGED vars => TypeOK'
  BY DEF TypeOK, vars, services, system, user, base, command
<1>2. TypeOK /\ MeInv /\ Next => TypeOK'
  BY HostTyped, LinesTyped, StagesTyped DEF Next
<1> QED
  BY <1>1, <1>2, MeStep

\* Types, whatever fails, reboots or restarts.
THEOREM InstallTyped == Spec => [](TypeOK /\ MeInv)
<1>1. Init => TypeOK /\ MeInv
  BY InstallTypeInit DEF Init, MeInv, Installing
<1> QED
  BY <1>1, InstallTypeStep, PTL DEF Spec

-----------------------------------------------------------------------------
(* The base image.                                                         *)

\* Every other step leaves image, hash and the three stages of a build alone.
LEMMA ImageStep ==
    ASSUME TypeOK, MeInv, ImageInv, NeverReverts, [Next]_vars
    PROVE  ImageInv'
<1> USE DEF ImageInv, Builds
<1>1. Definition \in [Builds -> Nat \ {0}] /\ cli \in Builds /\ Last \in Nat
  BY InstallAssumption DEF TypeOK
<1>2. ASSUME cli' = cli, UNCHANGED base, at' \notin {"clone", "build", "record"} \/ at' = at
      PROVE  ImageInv'
  BY <1>2 DEF base
<1>3. CASE UNCHANGED vars
  BY <1>2, <1>3 DEF vars, command
<1>4. CASE RunsLine
  BY <1>2, <1>4 DEF RunsLine, Line, WritesResolver, AddsTrustedCert, CreatesGroup, AppendsUser,
     InstallsHelper, WritesHelperPlist, UnloadsHelper, LoadsHelper, AddsAliases,
     UnloadsDaemon, WritesDaemonPlist, LoadsDaemon, RemovesApp, CopiesApp
<1>5. CASE DaemonRestarts \/ ServiceStop \/ Reboots
  BY <1>2, <1>5 DEF DaemonRestarts, ServiceStop, Reboots, command
<1>6. CASE DevmInstall \/ UpgradeFetches \/ UpgradeInstalls
  BY <1>2, <1>6 DEF DevmInstall, UpgradeFetches, UpgradeInstalls, Begins
<1>7. CASE UpgradeSwaps
  <2>1. /\ cli' \in Builds /\ cli < cli' /\ UNCHANGED base /\ at' = "fetch"
    BY <1>7 DEF UpgradeSwaps
  <2>2. hash = 0 \/ \E b \in 1 .. cli' : hash = Definition[b]
    BY <1>1, <2>1
  <2>3. ASSUME hash = Definition[cli'] PROVE hash = Definition[cli]
    <3>1. PICK b \in 1 .. cli : hash = Definition[b]
      BY <1>1, <2>1, <2>3
    <3>2. b \in Builds /\ b <= cli /\ cli <= cli'
      BY <1>1, <2>1
    <3>3. \A c \in Builds : cli <= c /\ Definition[b] = Definition[c]
                => Definition[cli] = Definition[c]
      BY <1>1, <3>2 DEF NeverReverts
    <3>4. cli' \in Builds /\ cli <= cli' /\ Definition[b] = Definition[cli']
      BY <1>1, <2>1, <2>3, <3>1
    <3> QED
      BY <2>3, <3>3, <3>4
  <2> QED
    BY <2>1, <2>2, <2>3 DEF base
<1>8. CASE ScriptEnds \/ SkipsBuild \/ EnsuresInclude \/ RegistersAgent \/ InstallsApp
  BY <1>2, <1>8 DEF ScriptEnds, SkipsBuild, EnsuresInclude, RegistersAgent, InstallsApp, Advances
<1>9. CASE DeletesStale
  BY <1>9 DEF DeletesStale, Advances, NeedsBuild, MeInv, Installing
<1>10. CASE ClonesTemplate
  BY <1>10 DEF ClonesTemplate, Advances
<1>11. CASE ProvisionsBase
  BY <1>11 DEF ProvisionsBase, Advances, MeInv, Installing
<1>12. CASE RecordsHash
  BY <1>1, <1>12 DEF RecordsHash, Advances, MeInv, Installing
<1>13. CASE \/ Fails \/ DevmUninstall \/ UninstallLine \/ UninstallInclude \/ UninstallApp
            \/ UninstallWipes
  BY <1>2, <1>13 DEF Fails, DevmUninstall, UninstallLine, UninstallInclude, UninstallApp,
     UninstallWipes
<1>14. CASE UninstallImage
  BY <1>14 DEF UninstallImage, NeverReverts
<1> QED
  BY <1>3, <1>4, <1>5, <1>6, <1>7, <1>8, <1>9, <1>10, <1>11, <1>12, <1>13, <1>14 DEF Next

\* A base image that an install takes for up to date was provisioned to the end
\* from the definition in the binary, wherever builds of it and of earlier
\* releases failed, and whatever launchd, reboots and uninstalls did meanwhile
\* (builder.go deletes the stale image first and records the hash last).
THEOREM ImagesAreWhole == ASSUME NeverReverts PROVE Spec => []ImageIsWhole
<1>1. Init => ImageInv
  <2>1. Init => Definition[cli] # 0
    BY InstallAssumption DEF Init, Builds
  <2> QED
    BY <2>1 DEF Init, ImageInv
<1>2. TypeOK /\ MeInv /\ ImageInv /\ [Next]_vars => ImageInv'
  BY ImageStep, NeverReverts
<1>3. ImageInv => ImageIsWhole
  BY DEF ImageInv, ImageIsWhole, NeedsBuild
<1> QED
  BY <1>1, <1>2, <1>3, InstallTyped, PTL DEF Spec

-----------------------------------------------------------------------------
(* What is in force.                                                       *)

\* What a script has been through when it comes to a line.
LEMMA InstallOrder ==
    /\ Comes("helperBin", InstallLines) => "member" \notin todo
    /\ Comes("helperPlist", InstallLines) => "helperBin" \notin todo
    /\ Comes("loadHelper", InstallLines) =>
           {"member", "helperBin", "helperPlist", "unloadHelper"} \cap todo = {}
    /\ Comes("load", InstallLines) =>
           {"unloadHelper", "loadHelper", "unload", "plist"} \cap todo = {}
<1> USE DEF Comes, InstallLines
<1>1. Comes("helperBin", InstallLines) => "member" \notin todo
  OBVIOUS
<1>2. Comes("helperPlist", InstallLines) => "helperBin" \notin todo
  OBVIOUS
<1>3. Comes("loadHelper", InstallLines) =>
          /\ "member" \notin todo /\ "helperBin" \notin todo
          /\ "helperPlist" \notin todo /\ "unloadHelper" \notin todo
  OBVIOUS
<1>4. Comes("load", InstallLines) =>
          /\ "unloadHelper" \notin todo /\ "loadHelper" \notin todo
          /\ "unload" \notin todo /\ "plist" \notin todo
  OBVIOUS
<1> QED
  BY <1>1, <1>2, <1>3, <1>4

LEMMA UninstallOrder ==
    /\ Comes("unloadHelper", UninstallLines) => "unload" \notin todo
    /\ Comes("aliases", UninstallLines) => "unloadHelper" \notin todo
    /\ Comes("helperPlist", UninstallLines) => "unloadHelper" \notin todo
    /\ Comes("helperBin", UninstallLines) =>
           "unloadHelper" \notin todo /\ "helperPlist" \notin todo
    /\ Comes("group", UninstallLines) => "helperBin" \notin todo
<1> USE DEF Comes, UninstallLines
<1>1. Comes("unloadHelper", UninstallLines) => "unload" \notin todo
  OBVIOUS
<1>2. Comes("aliases", UninstallLines) => "unloadHelper" \notin todo
  OBVIOUS
<1>3. Comes("helperPlist", UninstallLines) => "unloadHelper" \notin todo
  OBVIOUS
<1>4. Comes("helperBin", UninstallLines) =>
          "unloadHelper" \notin todo /\ "helperPlist" \notin todo
  OBVIOUS
<1>5. Comes("group", UninstallLines) => "helperBin" \notin todo
  OBVIOUS
<1> QED
  BY <1>1, <1>2, <1>3, <1>4, <1>5

LEMMA ByLaunchd ==
    ASSUME TypeOK, Facts, Strict, DaemonRestarts \/ ServiceStop \/ Reboots
    PROVE  Facts'
<1> USE CertThereIs, InstallAssumption
    DEF Facts, ServicesInv, CertInv, ScriptInv, UndoInv, SaidInv, Done, Installed, Installing,
        Undone, TypeOK, Builds, NoBuild, NoCA
<1>1. CASE DaemonRestarts
  BY <1>1, SMTT(30) DEF DaemonRestarts, DaemonStarts, InStep, Strict, LoadOrGenerate, system, base, command
<1>2. CASE ServiceStop
  BY <1>2 DEF ServiceStop, system, user, base
<1>3. CASE Reboots
  BY <1>3, SMTT(30) DEF Reboots, DaemonStarts, HelperStarts, InStep, Strict, LoadOrGenerate, base
<1> QED
  BY <1>1, <1>2, <1>3

LEMMA ByBeginning ==
    ASSUME TypeOK, MeInv, Facts, DevmInstall \/ UpgradeSwaps \/ UpgradeFetches \/ UpgradeInstalls
    PROVE  Facts'
<1> USE CertThereIs, InstallAssumption
    DEF Facts, ServicesInv, CertInv, ScriptInv, UndoInv, SaidInv, Done, Installed, Installing,
        Undone, TypeOK, Builds, NoBuild, NoCA
<1>1. CASE UpgradeSwaps
  BY <1>1 DEF UpgradeSwaps, services, system, user, base
<1>2. CASE UpgradeFetches
  BY <1>2 DEF UpgradeFetches, services, system, user, base
<1>3. ASSUME NEW withApp, Begins(cli, withApp), at \in {"idle", "exec"} PROVE Facts'
  <2>1. /\ "resolver" \notin Needed(cli, withApp) => resolver
        /\ "trust" \notin Needed(cli, withApp) => trusted # NoCA
        /\ "helperBin" \notin Needed(cli, withApp) => daemon = cli /\ helperPlist
        /\ "member" \notin Needed(cli, withApp) => daemon = cli
        /\ "helperPlist" \notin Needed(cli, withApp) => helperPlist
        /\ "loadHelper" \notin Needed(cli, withApp) => daemon = cli
        /\ "unloadHelper" \in Needed(cli, withApp) => "loadHelper" \in Needed(cli, withApp)
        /\ \/ "loadHelper" \in Needed(cli, withApp) \/ "unload" \in Needed(cli, withApp)
           \/ "plist" \in Needed(cli, withApp)
           => "load" \in Needed(cli, withApp)
        /\ "load" \in Needed(cli, withApp) <=> daemon # cli
    BY DEF Needed, NeedsDaemon, NeedsHelper, NeedsGroup, NeedsDNS, NeedsCA
  <2>2. ServicesInv' /\ CertInv'
    BY <1>3 DEF Begins, LoadOrGenerate, services, system
  <2>3. ScriptInv' /\ UndoInv' /\ SaidInv'
    BY <1>3, <2>1, <2>2, SMTT(30) DEF Begins, services, system
  <2> QED
    BY <2>2, <2>3
<1> QED
  BY <1>1, <1>2, <1>3 DEF DevmInstall, UpgradeInstalls

LEMMA ByLine ==
    ASSUME TypeOK, MeInv, Facts, RunsLine
    PROVE  Facts'
<1> USE CertThereIs, InstallAssumption, InstallOrder
    DEF Facts, ServicesInv, CertInv, ScriptInv, UndoInv, SaidInv, Done, Installed, Installing,
        Undone, TypeOK, MeInv, Builds, NoBuild, NoCA, Line, base, services, system
<1>1. CASE WritesResolver
  BY <1>1 DEF WritesResolver
<1>2. CASE AddsTrustedCert
  BY <1>2 DEF AddsTrustedCert
<1>3. CASE CreatesGroup
  BY <1>3 DEF CreatesGroup
<1>4. CASE AppendsUser
  BY <1>4 DEF AppendsUser
<1>5. CASE InstallsHelper
  BY <1>5 DEF InstallsHelper
<1>6. CASE WritesHelperPlist
  BY <1>6 DEF WritesHelperPlist
<1>7. CASE UnloadsHelper
  <2>1. "unloadHelper" \in todo
    BY <1>7 DEF UnloadsHelper, Comes
  <2> QED
    BY <1>7, <2>1 DEF UnloadsHelper
<1>8. CASE LoadsHelper
  BY <1>8 DEF LoadsHelper, HelperStarts
<1>9. CASE AddsAliases
  <2>1. aliases => aliases'
    BY <1>9 DEF AddsAliases
  <2> QED
    BY <1>9, <2>1 DEF AddsAliases
<1>10. CASE UnloadsDaemon
  <2>1. "unload" \in todo
    BY <1>10 DEF UnloadsDaemon, Comes
  <2> QED
    BY <1>10, <2>1 DEF UnloadsDaemon
<1>11. CASE WritesDaemonPlist
  BY <1>11 DEF WritesDaemonPlist
<1>12. CASE LoadsDaemon
  BY <1>12 DEF LoadsDaemon, DaemonStarts, LoadOrGenerate
<1>13. CASE RemovesApp
  BY <1>13 DEF RemovesApp
<1>14. CASE CopiesApp
  BY <1>14 DEF CopiesApp
<1> QED
  BY <1>1, <1>2, <1>3, <1>4, <1>5, <1>6, <1>7, <1>8, <1>9, <1>10, <1>11, <1>12,
     <1>13, <1>14 DEF RunsLine

LEMMA ByStage ==
    ASSUME TypeOK, Facts,
           \/ ScriptEnds \/ SkipsBuild \/ DeletesStale \/ ClonesTemplate \/ ProvisionsBase
           \/ RecordsHash \/ EnsuresInclude \/ RegistersAgent \/ InstallsApp \/ Fails
    PROVE  Facts'
<1> USE DEF Facts, ServicesInv, CertInv, ScriptInv, UndoInv, SaidInv, Done, Installed, Installing,
        Undone, Advances, services, system, user, base
<1>1. CASE ScriptEnds
  BY <1>1 DEF ScriptEnds
<1>2. CASE SkipsBuild \/ DeletesStale \/ ClonesTemplate
  BY <1>2 DEF SkipsBuild, DeletesStale, ClonesTemplate
<1>3. CASE ProvisionsBase \/ RecordsHash \/ EnsuresInclude
  BY <1>3 DEF ProvisionsBase, RecordsHash, EnsuresInclude
<1>4. CASE RegistersAgent \/ InstallsApp
  BY <1>4 DEF RegistersAgent, InstallsApp
<1>5. CASE Fails
  BY <1>5 DEF Fails
<1> QED
  BY <1>1, <1>2, <1>3, <1>4, <1>5

LEMMA ByUninstall ==
    ASSUME TypeOK, Facts, Strict,
           \/ DevmUninstall \/ UninstallLine \/ UninstallImage
           \/ UninstallInclude \/ UninstallApp \/ UninstallWipes
    PROVE  Facts'
<1> USE DEF Facts, ServicesInv, CertInv, ScriptInv, UndoInv, SaidInv, Done, Installed, Installing,
        Undone, services, system, user, base
<1>1. CASE DevmUninstall
  BY <1>1 DEF DevmUninstall, Lines, UninstallLines
<1>2. CASE UninstallLine
  <2>1. PICK l \in todo : Comes(l, UninstallLines) /\ Undoes(l) /\ todo' = todo \ {l}
    BY <1>2 DEF UninstallLine, Strict
  <2>2. at = "undo" /\ UNCHANGED <<cli, user, at, said>>
    BY <1>2 DEF UninstallLine
  <2>3. ServicesInv'
    BY <2>1, <2>2, UninstallOrder DEF Undoes, TypeOK, Builds, NoBuild
  <2>4. CertInv'
    BY <2>1, <2>2 DEF Undoes, NoBuild, NoCA
  <2>5. UndoInv'
    BY <2>1, <2>2 DEF Undoes
  <2> QED
    BY <2>2, <2>3, <2>4, <2>5
<1>3. CASE UninstallImage
  BY <1>3 DEF UninstallImage
<1>4. CASE UninstallInclude
  BY <1>4 DEF UninstallInclude
<1>5. CASE UninstallApp
  BY <1>5 DEF UninstallApp
<1>6. CASE UninstallWipes
  <2>1. todo = {}
    BY <1>6 DEF UninstallWipes, TypeOK
  <2> QED
    BY <1>6, <2>1 DEF UninstallWipes
<1> QED
  BY <1>1, <1>2, <1>3, <1>4, <1>5, <1>6

\* An install that says it is done, ready or up to date leaves both services
\* running from the binary on disk, with the socket, group, aliases, resolver and
\* trusted certificate they need, after any history of installs, upgrades and
\* uninstalls that were cut off at any line, and of stops, restarts and reboots;
\* buildInstallScript reloads the daemon last, and so the daemon's fingerprint
\* vouches for all that comes before it.
THEOREM DonesAreInForce == ASSUME Strict PROVE Spec => []DoneIsInForce
<1>1. Init => Facts
  BY InstallAssumption
     DEF Init, Facts, ServicesInv, CertInv, ScriptInv, UndoInv, SaidInv, Done, Installed,
         Installing, Undone, NoBuild, NoCA
<1>2. TypeOK /\ MeInv /\ Facts /\ [Next]_vars => Facts'
  <2>1. Facts /\ UNCHANGED vars => Facts'
    BY DEF Facts, ServicesInv, CertInv, ScriptInv, UndoInv, SaidInv, Done, vars, services,
       system, user, base, command
  <2> QED
    BY <2>1, Strict, ByLaunchd, ByBeginning, ByLine, ByStage, ByUninstall DEF Next
<1>3. TypeOK /\ Facts => DoneIsInForce
  BY DEF TypeOK, Facts, ServicesInv, CertInv, SaidInv, DoneIsInForce, Builds, NoBuild, NoCA
<1> QED
  BY <1>1, <1>2, <1>3, InstallTyped, PTL DEF Spec
=============================================================================
