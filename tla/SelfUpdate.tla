----------------------------- MODULE SelfUpdate -----------------------------
(***************************************************************************)
(* Updates of the installed Linux copy (electron/setup-update.cjs,         *)
(* linux-install.cjs; installedUpdater, the update handlers, the setup     *)
(* process and the second start in main.cjs; channel.cjs).                 *)
(*                                                                         *)
(* The running app looks for a release, downloads its Setup AppImage and   *)
(* starts it as a process of its own, which exchanges the installed tree   *)
(* and may be killed between any two of its steps.  Checks and downloads   *)
(* are async functions: a timer, the button and the choice of the channel  *)
(* start them while others are under way.  Releases appear at GitHub; the  *)
(* person changes the channel, quits, starts, and installs by hand.        *)
(***************************************************************************)
EXTENDS Naturals, Sequences, FiniteSets

CONSTANTS
  Versions,    \* releases: [core, pre], pre the identifiers after the dash
  NoVersion,   \* null
  Oldest,      \* the version installed at first
  AutoUpdate,  \* prefs().autoUpdate
  Calls,       \* checks and downloads that may overlap
  Pieces,      \* pieces of an AppImage, and files of a tree: 1 .. Pieces
  MaxCalls,    \* bound: checks and downloads begun by the person or the timer
  MaxKills     \* bound: setups that are killed

ASSUME SelfUpdateAssumption ==
  /\ Oldest \in Versions /\ NoVersion \notin Versions
  /\ AutoUpdate \in BOOLEAN /\ Pieces \in Nat \ {0}
  /\ MaxCalls \in Nat /\ MaxKills \in Nat

VARIABLES
  published,   \* releases with latest-linux-setup.yml among their assets
  beta,        \* updates.json
  running,     \* the version of the running app, or NoVersion
  updater,     \* installedUpdater and updateState
  fetch,       \* calls of checkForUpdates and downloadUpdate under way
  part,        \* version -> its AppImage with .part
  image,       \* version -> its AppImage under the final name
  setup,       \* the setup process
  app, staging, retired,  \* the directories app, app.new, app.old
  half,        \* history: a setup was started from an AppImage with holes
  overlapped,  \* history: two downloads of one version ran at once
  torn,        \* history: a setup was killed between its two renames
  calls, kills \* how many so far

release == <<published, beta>>
download == <<fetch, part, image, overlapped, calls>>
trees == <<app, staging, retired, torn, kills>>
selfUpdateVars == <<release, running, updater, download, setup, trees, half>>

Whole == 1 .. Pieces
Trees == SUBSET (Versions \X Whole)
Image == [here : BOOLEAN, has : SUBSET Whole]
NoImage == [here |-> FALSE, has |-> {}]
AnyVersion == Versions \cup {NoVersion}

SelfUpdateTypeOK ==
  /\ published \subseteq Versions /\ beta \in BOOLEAN /\ running \in AnyVersion
  /\ updater \in [st : {"none", "checking", "available", "downloading", "ready", "error"},
                  v : AnyVersion, found : AnyVersion, downloaded : AnyVersion, onQuit : BOOLEAN]
  /\ fetch \in [Calls -> [pc : {"idle", "asking", "receiving"}, v : AnyVersion, beta : BOOLEAN,
                          got : 0 .. Pieces, at : {"part", "image", "unlinked"}]]
  /\ part \in [Versions -> Image] /\ image \in [Versions -> Image]
  /\ setup \in [pc : {"idle", "begun", "copying", "retired", "activated"}, v : AnyVersion,
                launch : BOOLEAN, copied : 0 .. Pieces]
  /\ {app, staging, retired} \subseteq Trees
  /\ {half, overlapped, torn} \subseteq BOOLEAN
  /\ calls \in 0 .. MaxCalls /\ kills \in 0 .. MaxKills

NoFetch == [pc |-> "idle", v |-> NoVersion, beta |-> FALSE, got |-> 0, at |-> "part"]
NoSetup == [pc |-> "idle", v |-> NoVersion, launch |-> FALSE, copied |-> 0]
Started == [st |-> "none", v |-> NoVersion, found |-> NoVersion, downloaded |-> NoVersion, onQuit |-> TRUE]
Tree(v) == {v} \X Whole

SelfUpdateInit ==
  /\ published = {Oldest} /\ beta = FALSE /\ running = Oldest /\ updater = Started
  /\ fetch = [c \in Calls |-> NoFetch]
  /\ part = [v \in Versions |-> NoImage] /\ image = [v \in Versions |-> NoImage]
  /\ setup = NoSetup /\ app = Tree(Oldest) /\ staging = {} /\ retired = {}
  /\ half = FALSE /\ overlapped = FALSE /\ torn = FALSE
  /\ calls = 0 /\ kills = 0

-----------------------------------------------------------------------------
(* Which release.                                                          *)

IsPrerelease(v) == v.pre # << >>

\* Identifiers: numbers by value and before words.
IdBefore(p, q) == (p.number /\ ~q.number) \/ (p.number = q.number /\ p.rank < q.rank)

\* The first identifier that differs decides; the shorter list comes first.
PreBefore(p, q) ==
  \E i \in 1 .. Len(q) :
    /\ \A k \in 1 .. i - 1 : k <= Len(p) /\ p[k] = q[k]
    /\ i > Len(p) \/ IdBefore(p[i], q[i])

\* compareVersions(a, b) < 0: a version with identifiers comes before the one
\* without.
Before(a, b) ==
  \/ a.core < b.core
  \/ a.core = b.core /\ IsPrerelease(a) /\ (~IsPrerelease(b) \/ PreBefore(a.pre, b.pre))

\* pickRelease: the newest that is newer than the running one; betas only in
\* their channel.
Eligible(withBetas) ==
  {v \in published : (IsPrerelease(v) => withBetas) /\ Before(running, v)}
Picked(withBetas) == {v \in Eligible(withBetas) : \A w \in Eligible(withBetas) : ~Before(v, w)}

-----------------------------------------------------------------------------
(* installedUpdater                                                        *)

State(st, v) == [updater EXCEPT !.st = st, !.v = v]

CallBegins(c) ==
  /\ running # NoVersion /\ fetch[c].pc = "idle"
  /\ calls < MaxCalls /\ calls' = calls + 1

\* checkForUpdates begins; the channel is read before GitHub is asked.
Checking(c, channel) ==
  /\ CallBegins(c)
  /\ fetch' = [fetch EXCEPT ![c] = [NoFetch EXCEPT !.pc = "asking", !.beta = channel]]

\* By the timer or the button.
CheckForUpdates(c) ==
  /\ Checking(c, beta)
  /\ updater' = State("checking", NoVersion)
  /\ UNCHANGED <<release, running, part, image, overlapped, setup, trees, half>>

\* update:setBeta: a beta that is ready is no longer installed on quitting;
\* then the new channel is looked at.
SetBeta(c) ==
  /\ beta' = ~beta
  /\ Checking(c, beta')
  /\ updater' = [State("checking", NoVersion) EXCEPT
                   !.onQuit = @ /\ ~(beta /\ updater.st = "ready" /\ IsPrerelease(updater.v))]
  /\ UNCHANGED <<published, running, part, image, overlapped, setup, trees, half>>

\* download: the .part is opened, emptied if it is there.
Downloads(c, v) ==
  /\ fetch' = [fetch EXCEPT ![c] = [NoFetch EXCEPT !.pc = "receiving", !.v = v]]
  /\ part' = [part EXCEPT ![v] = [here |-> TRUE, has |-> {}]]
  /\ overlapped' = (overlapped \/ \E d \in Calls \ {c} : fetch[d].pc = "receiving" /\ fetch[d].v = v)

CallOver(c) == fetch' = [fetch EXCEPT ![c] = NoFetch]

\* The answer: nothing new, the one that is downloaded already, or a new one,
\* which is downloaded at once if so set; or an error.
CheckAnswered(c) ==
  /\ fetch[c].pc = "asking"
  /\ \/ /\ updater' = State("error", NoVersion)
        /\ CallOver(c) /\ UNCHANGED <<part, overlapped>>
     \/ /\ Eligible(fetch[c].beta) = {}
        /\ updater' = [State("none", NoVersion) EXCEPT !.found = NoVersion]
        /\ CallOver(c) /\ UNCHANGED <<part, overlapped>>
     \/ \E v \in Picked(fetch[c].beta) :
          IF updater.downloaded = v
          THEN /\ updater' = [State("ready", v) EXCEPT !.found = v]
               /\ CallOver(c) /\ UNCHANGED <<part, overlapped>>
          ELSE IF AutoUpdate
          THEN updater' = [State("downloading", v) EXCEPT !.found = v] /\ Downloads(c, v)
          ELSE /\ updater' = [State("available", v) EXCEPT !.found = v]
               /\ CallOver(c) /\ UNCHANGED <<part, overlapped>>
  /\ UNCHANGED <<release, running, image, calls, setup, trees, half>>

\* downloadUpdate, by the button.
DownloadUpdate(c) ==
  /\ CallBegins(c) /\ updater.found # NoVersion
  /\ updater' = State("downloading", updater.found)
  /\ Downloads(c, updater.found)
  /\ UNCHANGED <<release, running, image, setup, trees, half>>

With(file, i) == [file EXCEPT !.has = @ \cup {i}]

\* A piece is written behind the last one into the file that was opened,
\* wherever that is by now.
ReceivePiece(c) ==
  LET f == fetch[c] IN
  /\ f.pc = "receiving" /\ f.got < Pieces
  /\ fetch' = [fetch EXCEPT ![c].got = @ + 1]
  /\ part' = IF f.at = "part" THEN [part EXCEPT ![f.v] = With(@, f.got + 1)] ELSE part
  /\ image' = IF f.at = "image" THEN [image EXCEPT ![f.v] = With(@, f.got + 1)] ELSE image
  /\ UNCHANGED <<release, running, updater, overlapped, calls, setup, trees, half>>

\* Who else writes into the .part of v goes on writing into that file.
OthersAt(c, v, place) ==
  [d \in Calls |-> IF d = c THEN NoFetch
                   ELSE IF fetch[d].pc = "receiving" /\ fetch[d].v = v /\ fetch[d].at = "part"
                   THEN [fetch[d] EXCEPT !.at = place] ELSE fetch[d]]

\* The connection breaks, which leaves the .part; or the checksum of what was
\* received is wrong, which removes it.
DownloadBreaks(c) ==
  LET v == fetch[c].v IN
  /\ fetch[c].pc = "receiving"
  /\ \/ CallOver(c) /\ UNCHANGED part
     \/ /\ fetch[c].got = Pieces
        /\ part' = [part EXCEPT ![v] = NoImage]
        /\ fetch' = OthersAt(c, v, "unlinked")
  /\ updater' = State("error", v)
  /\ UNCHANGED <<release, running, image, overlapped, calls, setup, trees, half>>

\* MUTANT: renamed before everything has arrived.
ReceivedSome(f) == f.got > 0

\* The checksum of what was received is right.
Received(f) == f.got = Pieces

\* ... then the .part gets its final name, if it is still there.
DownloadComplete(c) ==
  LET v == fetch[c].v IN
  /\ fetch[c].pc = "receiving" /\ Received(fetch[c])
  /\ IF part[v].here
     THEN /\ image' = [image EXCEPT ![v] = part[v]]
          /\ part' = [part EXCEPT ![v] = NoImage]
          /\ fetch' = [OthersAt(c, v, "image") EXCEPT ![c] = NoFetch]
          /\ updater' = [State("ready", v) EXCEPT !.downloaded = v, !.onQuit = TRUE]
     ELSE /\ CallOver(c)
          /\ updater' = State("error", v)
          /\ UNCHANGED <<part, image>>
  /\ UNCHANGED <<release, running, overlapped, calls, setup, trees, half>>

\* spawnSetup; one setup at a time here.
Spawn(v, launch) ==
  /\ setup.pc = "idle"
  /\ setup' = [NoSetup EXCEPT !.pc = IF image[v].has = Whole THEN "begun" ELSE "idle",
                              !.v = v, !.launch = launch]
  /\ half' = (half \/ image[v].has # Whole)

\* The app quits: its calls die with it.
Quits ==
  /\ running # NoVersion /\ running' = NoVersion
  /\ fetch' = [c \in Calls |-> NoFetch]
  /\ updater' = Started

\* quitAndInstall, by the button or silently.
QuitAndInstall ==
  /\ updater.downloaded # NoVersion
  /\ Spawn(updater.downloaded, TRUE)
  /\ Quits
  /\ UNCHANGED <<release, part, image, overlapped, calls, trees>>

\* before-quit, installOnQuit
Quit ==
  /\ IF updater.downloaded # NoVersion /\ updater.onQuit
     THEN Spawn(updater.downloaded, FALSE) ELSE UNCHANGED <<setup, half>>
  /\ Quits
  /\ UNCHANGED <<release, part, image, overlapped, calls, trees>>

-----------------------------------------------------------------------------
(* install                                                                 *)

SetupAt(p) == [setup EXCEPT !.pc = p]

\* MUTANT: what an earlier setup left in app.new stays.
StagingKept == staging

\* app.new is removed before it is filled.
StagingCleared == {}

SetupBegins ==
  /\ setup.pc = "begun"
  /\ staging' = StagingCleared
  /\ setup' = [SetupAt("copying") EXCEPT !.copied = 0]
  /\ UNCHANGED <<release, running, updater, download, app, retired, torn, kills, half>>

\* copyTree, a file at a time.
CopyFile ==
  /\ setup.pc = "copying" /\ setup.copied < Pieces
  /\ staging' = staging \cup {<<setup.v, setup.copied + 1>>}
  /\ setup' = [setup EXCEPT !.copied = @ + 1]
  /\ UNCHANGED <<release, running, updater, download, app, retired, torn, kills, half>>

\* app.old is removed and app takes its place.
Retire ==
  /\ setup.pc = "copying" /\ setup.copied = Pieces
  /\ retired' = app /\ app' = {}
  /\ setup' = SetupAt("retired")
  /\ UNCHANGED <<release, running, updater, download, staging, torn, kills, half>>

\* app.new takes the place of app.
Activate ==
  /\ setup.pc = "retired"
  /\ app' = staging /\ staging' = {} /\ torn' = FALSE
  /\ setup' = SetupAt("activated")
  /\ UNCHANGED <<release, running, updater, download, retired, kills, half>>

\* What the launcher starts from the tree.
Launched(tree) == {v \in Versions : tree = Tree(v)} \cup (IF \E v \in Versions : tree = Tree(v) THEN {} ELSE {NoVersion})

\* app.old is removed; launcher, command, icon, menu entry and manifest are
\* written; then the installed copy is started, unless it was not to be.
SetupEnds ==
  /\ setup.pc = "activated"
  /\ retired' = {} /\ setup' = NoSetup
  /\ IF setup.launch /\ running = NoVersion THEN running' \in Launched(app) ELSE UNCHANGED running
  /\ UNCHANGED <<release, updater, download, app, staging, torn, kills, half>>

\* silentSetupUpdate, when copying fails: the old copy is started again.
CopyFails ==
  /\ setup.pc = "copying"
  /\ setup' = NoSetup
  /\ IF setup.launch /\ running = NoVersion THEN running' \in Launched(app) ELSE UNCHANGED running
  /\ UNCHANGED <<release, updater, download, trees, half>>

SetupKilled ==
  /\ setup.pc # "idle" /\ kills < MaxKills /\ kills' = kills + 1
  /\ setup' = NoSetup
  /\ torn' = (torn \/ setup.pc = "retired")
  /\ UNCHANGED <<release, running, updater, download, app, staging, retired, half>>

-----------------------------------------------------------------------------
(* The world around.                                                       *)

Publish(v) ==
  /\ v \notin published /\ published' = published \cup {v}
  /\ UNCHANGED <<beta, running, updater, download, setup, trees, half>>

\* The person starts the installed copy; if it runs, a replaced tree makes it
\* start itself anew (relaunchReplaced), which quits it first.
Start ==
  /\ running = NoVersion
  /\ running' \in Launched(app)
  /\ UNCHANGED <<release, updater, download, setup, trees, half>>

StartAgain ==
  /\ running # NoVersion /\ app # Tree(running)
  /\ updater.downloaded = NoVersion \/ ~updater.onQuit
  /\ running' \in Launched(app)
  /\ fetch' = [c \in Calls |-> NoFetch] /\ updater' = Started
  /\ UNCHANGED <<release, part, image, overlapped, calls, setup, trees, half>>

\* A Setup AppImage the person has downloaded is run by hand.
InstallByHand(v) ==
  /\ setup.pc = "idle" /\ v \in published
  /\ setup' = [NoSetup EXCEPT !.pc = "begun", !.v = v, !.launch = TRUE]
  /\ UNCHANGED <<release, running, updater, download, trees, half>>

SelfUpdateNext ==
  \/ QuitAndInstall \/ Quit \/ Start \/ StartAgain
  \/ SetupBegins \/ CopyFile \/ Retire \/ Activate \/ SetupEnds \/ CopyFails \/ SetupKilled
  \/ \E v \in Versions : Publish(v) \/ InstallByHand(v)
  \/ \E c \in Calls :
       \/ CheckForUpdates(c) \/ SetBeta(c) \/ CheckAnswered(c) \/ DownloadUpdate(c)
       \/ ReceivePiece(c) \/ DownloadBreaks(c) \/ DownloadComplete(c)

SelfUpdateSpec == SelfUpdateInit /\ [][SelfUpdateNext]_selfUpdateVars

-----------------------------------------------------------------------------

\* Whatever a setup is killed at, what is installed is one version in full:
\* the old one or the new one - except when it is killed between the two
\* renames, and then until the next setup.
AppStaysWhole ==
  setup.pc # "retired" /\ ~torn => \E v \in Versions : app = Tree(v)

\* An AppImage is only started when every piece of it is there - through
\* broken downloads, leftovers and a changed channel, as long as two
\* downloads of one version do not overlap.
StartedWhole == ~overlapped => ~half

\* setup-update.cjs, lines 155-156: "ein halber oder falscher Download kann
\* also nie gestartet werden" (a half or wrong download can never be started).
NeverHalf == ~half
=============================================================================
