------------------------------- MODULE Daemon --------------------------------
(***************************************************************************)
(* The background operation of the Electron main process                   *)
(* (gui/electron/main.cjs): the tick, "Renew now" in the tray, the runs of *)
(* background refreshes, the requests of the window that occupy device or  *)
(* account, the backend process coming and going, and the silent update.   *)
(*                                                                         *)
(* The main process is one JavaScript thread, so a step is what runs       *)
(* between two awaits.  Several activations are interleaved: one tick (its *)
(* `ticking` flag is pc # "idle") and any number of renewNow.  A call to   *)
(* the backend is split into the request, the moment the backend computes  *)
(* the answer, and its delivery, so that an answer may be stale when used. *)
(*                                                                         *)
(* Every change of `memory` is saved in the same synchronous stretch, so   *)
(* the memory file is not a variable of its own: a relaunch reads what     *)
(* `memory` was.                                                           *)
(***************************************************************************)
EXTENDS Scheduler, Progress

CONSTANTS
  Renewals,       \* activations of renewNow that may be under way at once
  UiIds,          \* request ids of the window, reused once settled
  UiMethods,      \* methods the window calls in this instance
  BackendOutcomes,\* how a refresh may end in this instance
  PrefsValues,    \* settings the user may choose
  Disturbances,   \* what else may happen in this instance, see below
  Lifetime,       \* validity of a free signature (7 days)
  Start, MaxClock,\* the clock runs from Start; the code's clock is far from 0
  None

Tick == "tick"
Runners == Renewals \cup {Tick}

\* BUSY_METHODS as far as they differ in effect (jit stands for device.fix,
\* usb.setup, appids.delete and certs.revoke, too).
BusyMethods == {"install", "refresh", "uninstall", "login", "jit"}
\* What runTask starts; everything but login.  store.install occupies the
\* device like install does.
TaskMethods == {"install", "refresh", "uninstall", "jit", "store.install"}
AllMethods == BusyMethods \cup TaskMethods

\* The environment's moves an instance may leave out, to keep it small.
AllDisturbances == {"ipa missing", "sign-out", "devices", "wake", "show or hide",
                    "backend dies", "update", "relaunch"}

ASSUME DaemonAssumption ==
  /\ Tick \notin Renewals
  /\ UiMethods \subseteq AllMethods
  /\ BackendOutcomes \subseteq Outcomes
  /\ Disturbances \subseteq AllDisturbances
  /\ PrefsValues \subseteq Prefs /\ PrefsValues # {}
  /\ {Lifetime, Start, MaxClock} \subseteq Nat \ {0}
  /\ Start >= NagEvery
  /\ None \notin Apps \cup AllMethods

VARIABLES
  clock,        \* Date.now()
  records,      \* what the backend knows of each app: [Apps -> AppStatus]
  attached,     \* devices that are reachable
  prefs,        \* prefs()
  memory,       \* memory, and userData/daemon-state.json
  backend,      \* "down" | "starting" | "ready" (backendReady)
  timer,        \* tickTimer is set
  runner,       \* the activations of tick and renewNow
  refreshing,   \* refreshing: the bundle ID shown as being renewed, or None
  rendererJobs, \* rendererJobs: the main process's book about the window
  ui,           \* what the backend is really doing for the window
  uiRefreshing, \* ui.daemon.refreshing, the window's copy, may lag
  lastStatus,   \* lastStatus, or None
  hiddenSince,  \* hiddenSince; 0 while the window is open
  update,       \* a downloaded update is ready
  told, twice   \* history: notifications shown, and shown again

world == <<clock, records, attached, prefs>>
window == <<ui, uiRefreshing, hiddenSince>>
notices == <<told, twice>>
vars == <<clock, records, attached, prefs, memory, backend, timer, runner,
          refreshing, rendererJobs, ui, uiRefreshing, lastStatus, hiddenSince,
          update, told, twice>>

-----------------------------------------------------------------------------
CurrentStatus == [apps |-> records, attached |-> attached]
NoStatus == [apps |-> [a \in Apps |-> [installed |-> FALSE, expires |-> 0,
                         sourceMissing |-> FALSE, accountReady |-> FALSE]],
             attached |-> {}]

Pcs == {"idle", "status", "statusAnswered", "refresh", "refreshAnswered",
        "final", "finalAnswered", "refreshRejected", "otherRejected"}
InFlight == {"status", "statusAnswered", "refresh", "refreshAnswered",
             "final", "finalAnswered"}
Rejected == {"refreshRejected", "otherRejected"}

Idle == [pc |-> "idle", todo |-> {}, app |-> None, st |-> NoStatus, outcome |-> "ok"]
Refresh(a, todo, st) == [pc |-> "refresh", todo |-> todo \ {a}, app |-> a,
                         st |-> st, outcome |-> "ok"]
Ask(pc) == [Idle EXCEPT !.pc = pc]

NoJobs(jobs) == \A u \in UiIds : jobs[u] = None

\* MUTANT: the running background refresh is forgotten.
BusyWindowOnly == ~NoJobs(rendererJobs)

\* busy(): does anyone work with the device or the account?
Busy == ~NoJobs(rendererJobs) \/ refreshing # None

\* watchRendererMessage: how a request of the window is booked.
Booked(m) == IF m \in BusyMethods THEN m ELSE None

\* backendGone: rendererJobs.clear().
BookKept == rendererJobs                              \* MUTANT: not cleared
BookCleared == [u \in UiIds |-> None]

\* backendGone: what becomes of a call of the main process.
RejectedNot(pc) == pc                                 \* MUTANT: never settled
RejectedPc(pc) ==
  CASE pc \in {"refresh", "refreshAnswered"} -> "refreshRejected"
    [] pc \in InFlight \ {"refresh", "refreshAnswered"} -> "otherRejected"
    [] OTHER -> pc

\* No request of the window is known to the backend.
FreeUi == [method |-> None, pc |-> "free", ok |-> FALSE]
NoUi == [u \in UiIds |-> FreeUi]

\* Rejections run as microtasks: before any other event of the main process.
Settled == \A r \in Runners : runner[r].pc \notin Rejected

Tell(news) == /\ told' = told \cup news
              /\ twice' = twice \cup (news \cap told)

Notice(kind, apps, st) == {<<kind, a, st.apps[a].expires>> : a \in apps}

-----------------------------------------------------------------------------
Fresh == [installed |-> TRUE, expires |-> Start + Lifetime,
          sourceMissing |-> FALSE, accountReady |-> TRUE]

Init ==
  /\ clock = Start
  /\ records = [a \in Apps |-> Fresh]
  /\ attached \in SUBSET Devices
  /\ prefs \in PrefsValues
  /\ memory = EmptyMemory
  /\ backend = "starting"
  /\ timer = FALSE
  /\ runner = [r \in Runners |-> Idle]
  /\ refreshing = None
  /\ rendererJobs = [u \in UiIds |-> None]
  /\ ui = NoUi
  /\ uiRefreshing = None
  /\ lastStatus = NoStatus
  /\ hiddenSince = 0
  /\ update = FALSE
  /\ told = {}
  /\ twice = {}

-----------------------------------------------------------------------------
(* The loop of runRefreshes up to its next await: renew another app, or, if *)
(* none is left or the window has begun something, ask for the new status.  *)
(* `shown` is what refreshing is at that point.                             *)
NextRefreshAnyway(r, todo, st, jobs, shown) ==          \* MUTANT: no guard
  IF todo # {}
  THEN \E a \in todo :
         /\ runner' = [runner EXCEPT ![r] = Refresh(a, todo, st)]
         /\ refreshing' = a
  ELSE /\ runner' = [runner EXCEPT ![r] = Ask("final")]
       /\ refreshing' = shown

NextRefresh(r, todo, st, jobs, shown) ==
  IF todo # {} /\ NoJobs(jobs)
  THEN \E a \in todo :
         /\ runner' = [runner EXCEPT ![r] = Refresh(a, todo, st)]
         /\ refreshing' = a
  ELSE /\ runner' = [runner EXCEPT ![r] = Ask("final")]
       /\ refreshing' = shown

\* MUTANT: the finally of tick schedules nothing.
FinishSilently(r) ==
  /\ runner' = [runner EXCEPT ![r] = Idle]
  /\ UNCHANGED timer

\* The end of an activation; tick's finally schedules the next tick.
Finish(r) ==
  /\ runner' = [runner EXCEPT ![r] = Idle]
  /\ timer' = (timer \/ r = Tick)

\* tick: the timer fires.
TickFires ==
  /\ timer
  /\ IF backend = "ready" /\ runner[Tick].pc = "idle"
     THEN /\ runner' = [runner EXCEPT ![Tick] = Ask("status")]
          /\ timer' = FALSE
     ELSE /\ timer' = (backend = "ready")
          /\ UNCHANGED runner
  /\ UNCHANGED <<world, memory, backend, refreshing, rendererJobs, window,
                 lastStatus, update, notices>>

\* tick, once the status is there: plan, remember, announce, renew.
TickPlans ==
  LET st  == runner[Tick].st
      res == Plan(st, clock, prefs, memory)
  IN  /\ runner[Tick].pc = "statusAnswered"
      /\ lastStatus' = st
      /\ memory' = res.memory
      /\ Tell(Notice("remind", res.remind, st) \cup Notice("obstacle", res.blocked, st))
      /\ IF res.refresh # {} /\ NoJobs(rendererJobs)
         THEN /\ NextRefresh(Tick, res.refresh, st, rendererJobs, refreshing)
              /\ UNCHANGED timer
         ELSE /\ Finish(Tick)
              /\ UNCHANGED refreshing
      /\ UNCHANGED <<world, backend, rendererJobs, window, update>>

\* renewNow: the click in the tray menu.
RenewNow(r) ==
  /\ runner[r].pc = "idle"
  /\ ~Busy
  /\ backend = "ready"
  /\ runner' = [runner EXCEPT ![r] = Ask("status")]
  /\ UNCHANGED <<world, memory, backend, timer, refreshing, rendererJobs, window,
                 lastStatus, update, notices>>

\* renewNow, once the status is there.
RenewPlans(r) ==
  LET st   == runner[r].st
      todo == ManualPlan(st, clock)
  IN  /\ runner[r].pc = "statusAnswered"
      /\ lastStatus' = st
      /\ IF todo = {}
         THEN Finish(r) /\ UNCHANGED refreshing
         ELSE NextRefresh(r, todo, st, rendererJobs, refreshing) /\ UNCHANGED timer
      /\ UNCHANGED <<world, memory, backend, rendererJobs, window, update, notices>>

\* The outcome of a refresh enters the memory and is announced.
Settle(r, outcome) ==
  LET a       == runner[r].app
      expires == runner[r].st.apps[a].expires
      res     == OnRefreshResult(memory, a, expires, outcome, clock)
      news    == CASE res.notify = "failed" -> {<<"failed", a, expires>>}
                   [] res.notify = "signIn" -> {<<"obstacle", a, expires>>}
                   [] OTHER -> {}
      \* a success makes the app's markers void: it may be told again
      void    == IF outcome = "ok" THEN {"failed", "obstacle"} \X {a} \X {expires}
                 ELSE {}
  IN  /\ memory' = res.memory
      /\ told' = (told \ void) \cup news
      /\ twice' = twice \cup (news \cap told)

\* MUTANT: setRefreshing(null) is missing.
RefreshDeliveredShown(r) ==
  /\ runner[r].pc = "refreshAnswered"
  /\ Settle(r, runner[r].outcome)
  /\ NextRefresh(r, runner[r].todo, runner[r].st, rendererJobs, refreshing)
  /\ UNCHANGED <<world, backend, timer, rendererJobs, window, lastStatus, update>>

\* runRefreshes: the answer to "refresh".
RefreshDelivered(r) ==
  /\ runner[r].pc = "refreshAnswered"
  /\ Settle(r, runner[r].outcome)
  /\ NextRefresh(r, runner[r].todo, runner[r].st, rendererJobs, None)
  /\ UNCHANGED <<world, backend, timer, rendererJobs, window, lastStatus, update>>

\* runRefreshes: the closing status, then the end of the activation.
FinalDelivered(r) ==
  /\ runner[r].pc = "finalAnswered"
  /\ lastStatus' = runner[r].st
  /\ Finish(r)
  /\ UNCHANGED <<world, memory, backend, refreshing, rendererJobs, window, update,
                 notices>>

\* The continuation of a call that backendGone rejected.  A refresh counts
\* as an ordinary failure (the error has no kind); then `!backend` ends the
\* loop, and the closing status is rejected at once.
CallRejected(r) ==
  /\ runner[r].pc \in Rejected
  /\ Finish(r)
  /\ IF runner[r].pc = "refreshRejected"
     THEN Settle(r, "other") /\ refreshing' = None
     ELSE UNCHANGED <<memory, notices, refreshing>>
  /\ UNCHANGED <<world, backend, rendererJobs, window, lastStatus, update>>

-----------------------------------------------------------------------------
(* The backend process.                                                    *)

\* routeBackendMessage: "ready" starts the ticks.
BackendReady ==
  /\ backend = "starting"
  /\ backend' = "ready"
  /\ timer' = TRUE
  /\ UNCHANGED <<world, memory, runner, refreshing, rendererJobs, window, lastStatus,
                 update, notices>>

\* The status handler reads store and devices; the answer is under way.
StatusAnswered(r) ==
  /\ backend = "ready"
  /\ runner[r].pc \in {"status", "final"}
  /\ runner' = [runner EXCEPT
       ![r].pc = IF @ = "status" THEN "statusAnswered" ELSE "finalAnswered",
       ![r].st = CurrentStatus]
  /\ UNCHANGED <<world, memory, backend, timer, refreshing, rendererJobs, window,
                 lastStatus, update, notices>>

Renewed(a) == [records EXCEPT ![a].expires = clock + Lifetime]

\* The refresh handler ends; a success has recorded the new expiry date
\* before its answer is delivered.
RefreshAnswered(r, outcome) ==
  LET a == runner[r].app
  IN  /\ backend = "ready"
      /\ runner[r].pc = "refresh"
      /\ runner' = [runner EXCEPT ![r].pc = "refreshAnswered", ![r].outcome = outcome]
      /\ IF outcome = "ok" /\ records[a].installed
         THEN /\ DeviceAttached(a, attached) /\ ~Blocked(records[a])
              /\ records' = Renewed(a)
         ELSE UNCHANGED records
      /\ UNCHANGED <<clock, attached, prefs, memory, backend, timer, refreshing,
                     rendererJobs, window, lastStatus, update, notices>>

\* The process ends, or before-quit stops it (stopBackend; Relaunch then comes
\* after the rejections, which are booked first): onGone and backendGone.
BackendDies ==
  /\ {"backend dies", "relaunch"} \cap Disturbances # {}
  /\ backend # "down"
  /\ backend' = "down"
  /\ runner' = [r \in Runners |-> [runner[r] EXCEPT !.pc = RejectedPc(@)]]
  /\ rendererJobs' = BookCleared
  /\ ui' = NoUi
  /\ UNCHANGED <<world, memory, timer, refreshing, uiRefreshing, lastStatus,
                 hiddenSince, update, notices>>

\* backend:restart (stopBackend, startBackend).  The window offers it while
\* the backend is down, or has not reported in for BOOT_TIMEOUT_MS.
Restart ==
  /\ backend # "ready"
  /\ hiddenSince = 0
  /\ backend' = "starting"
  /\ rendererJobs' = BookCleared
  /\ ui' = NoUi
  /\ UNCHANGED <<world, memory, timer, runner, refreshing, uiRefreshing, hiddenSince,
                 lastStatus, update, notices>>

-----------------------------------------------------------------------------
(* The window.                                                             *)

\* rpc:send and watchRendererMessage.  A task is refused while the window
\* believes that the background is renewing (busy in state.svelte.ts).  A
\* request sent to a backend that has just died is booked and lost.
UiCalls(u, m) ==
  /\ hiddenSince = 0
  /\ backend # "starting"
  /\ ui[u].pc = "free" /\ rendererJobs[u] = None
  /\ m \in TaskMethods =>
       /\ uiRefreshing = None
       /\ \A v \in UiIds : ui[v].method \notin TaskMethods
  /\ rendererJobs' = [rendererJobs EXCEPT ![u] = Booked(m)]
  /\ ui' = IF backend = "down" THEN ui
           ELSE [ui EXCEPT ![u] = [method |-> m, pc |-> "working", ok |-> FALSE]]
  /\ UNCHANGED <<world, memory, backend, timer, runner, refreshing, uiRefreshing,
                 lastStatus, hiddenSince, update, notices>>

\* What a successful request of the window leaves in the backend's store.
UiEffect(m) ==
  CASE m \in {"install", "store.install", "refresh"} ->
         \E a \in Apps :
           /\ records[a].installed \/ clock + Lifetime > records[a].expires
           /\ m = "refresh" => records[a].installed
           /\ records' = [records EXCEPT ![a] =
                [Fresh EXCEPT !.expires = clock + Lifetime]]
    [] m = "uninstall" ->
         \E a \in Apps : records' = [records EXCEPT ![a].installed = FALSE]
    [] m = "login" ->
         records' = [a \in Apps |-> [records[a] EXCEPT !.accountReady = TRUE]]
    [] OTHER -> UNCHANGED records

UiAnswered(u, ok) ==
  /\ ui[u].pc = "working"
  /\ ui' = [ui EXCEPT ![u].pc = "answered", ![u].ok = ok]
  /\ IF ok THEN UiEffect(ui[u].method) ELSE UNCHANGED records
  /\ UNCHANGED <<clock, attached, prefs, memory, backend, timer, runner, refreshing,
                 rendererJobs, uiRefreshing, lastStatus, hiddenSince, update, notices>>

\* routeBackendMessage: an answer for the window passes through.
UiDelivered(u) ==
  LET booked == rendererJobs[u] # None
      jobs   == [rendererJobs EXCEPT ![u] = None]
      signedIn == booked /\ ui[u].method = "login" /\ ui[u].ok
  IN  /\ ui[u].pc = "answered"
      /\ ui' = [ui EXCEPT ![u] = FreeUi]
      /\ rendererJobs' = jobs
      /\ memory' = IF signedIn THEN ForgetBackoff(memory) ELSE memory
      /\ told' = IF signedIn THEN {n \in told : n[1] = "remind"} ELSE told
      /\ timer' = (timer \/ (booked /\ NoJobs(jobs)))
      /\ UNCHANGED <<world, backend, runner, refreshing, uiRefreshing, lastStatus,
                     hiddenSince, update, twice>>

\* "daemon:state" reaches the window.
UiSees ==
  /\ uiRefreshing # refreshing
  /\ uiRefreshing' = refreshing
  /\ UNCHANGED <<world, memory, backend, timer, runner, refreshing, rendererJobs, ui,
                 lastStatus, hiddenSince, update, notices>>

\* Closing the window leaves ModStaller in the tray; opening it again.
ShowOrHide ==
  /\ "show or hide" \in Disturbances
  /\ hiddenSince' = IF hiddenSince = 0 THEN clock ELSE 0
  /\ UNCHANGED <<world, memory, backend, timer, runner, refreshing, rendererJobs, ui,
                 uiRefreshing, lastStatus, update, notices>>

-----------------------------------------------------------------------------
(* Updates and the end of the process.                                     *)

UpdateDownloaded ==
  /\ "update" \in Disturbances
  /\ ~update
  /\ update' = TRUE
  /\ UNCHANGED <<world, memory, backend, timer, runner, refreshing, rendererJobs,
                 window, lastStatus, notices>>

\* maybeInstallUpdate with idleForUpdate: may the update be installed now?
MayInstall ==
  /\ update /\ prefs.autoUpdate
  /\ hiddenSince # 0 /\ clock >= hiddenSince + UpdateIdle
  /\ ~Busy
  /\ ~RefreshImminent(lastStatus, prefs, clock)

\* A new process: everything but memory file, settings and store is gone.
\* After a silent update it starts in the tray.
NewProcess(hidden) ==
  /\ backend' = "starting"
  /\ timer' = FALSE
  /\ runner' = [r \in Runners |-> Idle]
  /\ refreshing' = None
  /\ rendererJobs' = BookCleared
  /\ ui' = NoUi
  /\ uiRefreshing' = None
  /\ lastStatus' = NoStatus
  /\ hiddenSince' = IF hidden THEN clock ELSE 0
  /\ UNCHANGED <<world, memory, notices>>

SilentInstall == MayInstall /\ NewProcess(TRUE) /\ update' = FALSE

\* The end of the process and a later start: at once (a crash, a power cut) or
\* after BackendDies (quitting, logging off).  An update that was ready is
\* installed on quit.
Relaunch ==
  /\ "relaunch" \in Disturbances
  /\ \E hidden \in BOOLEAN : NewProcess(hidden)
  /\ update' = FALSE

-----------------------------------------------------------------------------
(* The world around.                                                       *)

TimePasses ==
  /\ clock < MaxClock
  /\ clock' = clock + 1
  /\ UNCHANGED <<records, attached, prefs, memory, backend, timer, runner, refreshing,
                 rendererJobs, window, lastStatus, update, notices>>

DevicesChange ==
  /\ "devices" \in Disturbances
  /\ \E d \in Devices : attached' = IF d \in attached THEN attached \ {d}
                                    ELSE attached \cup {d}
  /\ UNCHANGED <<clock, records, prefs, memory, backend, timer, runner, refreshing,
                 rendererJobs, window, lastStatus, update, notices>>

\* The kept IPA vanishes or comes back, the account is signed out.
ObstacleChanges ==
  /\ \E a \in Apps :
       \/ /\ "ipa missing" \in Disturbances
          /\ records' = [records EXCEPT ![a].sourceMissing = ~@]
       \/ /\ "sign-out" \in Disturbances /\ records[a].accountReady
          /\ records' = [records EXCEPT ![a].accountReady = FALSE]
  /\ UNCHANGED <<clock, attached, prefs, memory, backend, timer, runner, refreshing,
                 rendererJobs, window, lastStatus, update, notices>>

\* daemon:setPrefs; applyPrefs runs a tick soon if anything it uses changed.
SetPrefs(p) ==
  /\ p # prefs
  /\ prefs' = p
  /\ timer' = (timer \/ [p EXCEPT !.autoUpdate = TRUE] # [prefs EXCEPT !.autoUpdate = TRUE])
  /\ UNCHANGED <<clock, records, attached, memory, backend, runner, refreshing,
                 rendererJobs, window, lastStatus, update, notices>>

\* powerMonitor: resume and unlock-screen run a tick.
Wake ==
  /\ "wake" \in Disturbances
  /\ ~timer
  /\ timer' = TRUE
  /\ UNCHANGED <<world, memory, backend, runner, refreshing, rendererJobs, window,
                 lastStatus, update, notices>>

-----------------------------------------------------------------------------
MainStep(r) ==
  \/ r = Tick /\ TickPlans
  \/ r # Tick /\ RenewPlans(r)
  \/ RefreshDelivered(r)
  \/ FinalDelivered(r)

BackendStep(r) ==
  \/ StatusAnswered(r)
  \/ \E o \in BackendOutcomes : RefreshAnswered(r, o)

WindowStep ==
  \/ \E u \in UiIds : \/ \E m \in UiMethods : UiCalls(u, m)
                      \/ \E ok \in BOOLEAN : UiAnswered(u, ok)
                      \/ UiDelivered(u)
  \/ UiSees
  \/ ShowOrHide
  \/ Restart

WorldStep ==
  \/ TimePasses
  \/ DevicesChange
  \/ ObstacleChanges
  \/ \E p \in PrefsValues : SetPrefs(p)
  \/ Wake

Event ==
  \/ TickFires
  \/ \E r \in Renewals : RenewNow(r)
  \/ \E r \in Runners : MainStep(r) \/ BackendStep(r)
  \/ BackendReady
  \/ BackendDies
  \/ WindowStep
  \/ UpdateDownloaded
  \/ SilentInstall
  \/ Relaunch
  \/ WorldStep

Next == IF Settled THEN Event ELSE \E r \in Runners : CallRejected(r)

Spec == Init /\ [][Next]_vars

(***************************************************************************)
(* Timers fire, answers that have arrived are processed and a backend that *)
(* runs answers every request (server.py, _dispatch).                      *)
(***************************************************************************)
Fairness ==
  /\ WF_vars(Settled /\ TickFires)
  /\ WF_vars(Settled /\ BackendReady)
  /\ \A r \in Runners :
       /\ WF_vars(CallRejected(r))
       /\ WF_vars(Settled /\ MainStep(r))
       /\ WF_vars(Settled /\ BackendStep(r))

FairSpec == Spec /\ Fairness
-----------------------------------------------------------------------------
(* Properties.                                                             *)

Activation == [pc : Pcs, todo : SUBSET Apps, app : Apps \cup {None}, st : Status,
               outcome : Outcomes]

TypeOK ==
  /\ clock \in Nat
  /\ records \in [Apps -> AppStatus]
  /\ attached \in SUBSET Devices
  /\ prefs \in PrefsValues
  /\ memory \in Memory
  /\ backend \in {"down", "starting", "ready"}
  /\ timer \in BOOLEAN
  /\ runner \in [Runners -> Activation]
  /\ refreshing \in Apps \cup {None}
  /\ rendererJobs \in [UiIds -> BusyMethods \cup {None}]
  /\ ui \in [UiIds -> [method : AllMethods \cup {None},
                       pc : {"free", "working", "answered"}, ok : BOOLEAN]]
  /\ uiRefreshing \in Apps \cup {None}
  /\ lastStatus \in Status
  /\ hiddenSince \in Nat
  /\ update \in BOOLEAN

Refreshing(r) == runner[r].pc \in {"refresh", "refreshAnswered"}

\* While the backend is up the chain of ticks never breaks: a tick is under
\* way or one is scheduled, whatever timers, rejections, restarts and
\* finished window requests did before.
TickChain == backend = "ready" => timer \/ runner[Tick].pc # "idle"

\* The main process's book about the window (rendererJobs) is right as long
\* as a backend runs: it lists exactly the device and account requests that
\* are still open there.  A stale entry would stop every background refresh
\* for good, a missing one would let it run into an installation.
BooksMatch ==
  backend # "down" =>
    \A u \in UiIds : rendererJobs[u] = IF ui[u].method \in BusyMethods
                                      THEN ui[u].method ELSE None

\* What tray and window show as "being renewed" is what is being renewed:
\* busy() and the window's own guard rest on it.
IndicatorTrue ==
  \A a \in Apps : refreshing = a <=> \E r \in Runners :
      (Refreshing(r) \/ runner[r].pc = "refreshRejected") /\ runner[r].app = a

\* "Erneuert nacheinander": the background renews one app after the other.
OneRefreshAtATime ==
  \A r, s \in Runners : Refreshing(r) /\ Refreshing(s) => r = s

\* A background refresh never begins while a request of the window that
\* BUSY_METHODS lists is being worked on.
BackgroundYields ==
  [][\A r \in Runners : runner'[r].pc = "refresh" /\ runner[r].pc # "refresh"
        => \A u \in UiIds : ui[u].pc # "working" \/ ui[u].method \notin BusyMethods]_vars

\* The same for every request that occupies the device, store.install among
\* them ("RPC-Methoden, die das Geraet oder den Account belegen. Laeuft eine
\* davon aus der Oberflaeche, wartet der Hintergrund-Refresh").
BackgroundYieldsToAll ==
  [][\A r \in Runners : runner'[r].pc = "refresh" /\ runner[r].pc # "refresh"
        => \A u \in UiIds : ui[u].pc # "working"]_vars

\* A silent update never restarts ModStaller while a refresh is being worked on
\* or a request of the window that BUSY_METHODS lists, for the tick alone.
\* busy() and idleForUpdate see no other request: see UpdateInterruptsNothing.
UpdateNeverInterrupts ==
  MayInstall =>
    /\ \A r \in Runners : ~Refreshing(r)
    /\ \A u \in UiIds : ui[u].method \notin BusyMethods

\* "Ein Neustart mitten in einer Installation oder waehrend JIT waere fatal": the
\* same for every request that occupies the device, store.install among them.
UpdateInterruptsNothing == MayInstall => \A u \in UiIds : ui[u].pc # "working"

\* Nobody is told the same thing twice: one reminder, one obstacle and one
\* failure per app and expiry date, however ticks, waits, relaunches, sign-outs
\* and sign-ins interleave - with the tick alone (no "Renew now", Renewals = {})
\* and no error that is announced at once ("person").  With either it is false:
\* the refresh of a "Renew now" may end after the tick has dropped the markers of
\* the old expiry date, and the errors announced at once share the counter with
\* the others, whose own threshold comes later.
NoNoticeTwice == twice = {}

\* "Ab so vielen Fehlschlaegen in Folge gibt es eine Meldung": when an app
\* has failed that often for one expiry date, the user has been told why.
RepeatedFailureTold ==
  \A a \in Apps : memory.failures[a].count >= FailuresBeforeNotice =>
    \E k \in {"failed", "obstacle"} : <<k, a, memory.failures[a].expires>> \in told

\* The inductive invariant behind the theorems of DaemonProofs: a call of the
\* main process is open only while the backend runs, is rejected only when it
\* has gone, names its app while it renews, and a backend that has gone works
\* for nobody.
CallsFitBackend ==
  \A r \in Runners :
    /\ runner[r].pc \in InFlight => backend = "ready"
    /\ runner[r].pc \in Rejected => backend = "down"
    /\ runner[r].pc \in {"refresh", "refreshAnswered", "refreshRejected"} =>
         runner[r].app \in Apps
DownIsIdle == backend = "down" => ui = NoUi
Inv == TypeOK /\ CallsFitBackend /\ DownIsIdle /\ TickChain /\ BooksMatch

\* Nothing stands between app a and its renewal.
Renewable(a) ==
  /\ backend = "ready" /\ NoJobs(rendererJobs)
  /\ a \in Due(CurrentStatus, clock, prefs)
  /\ ~Blocked(records[a]) /\ DeviceAttached(a, attached)
  /\ memory.nextTryAt[a] <= clock

\* An app that is due is renewed as soon as nothing stands in the way: its
\* refresh starts, or the way is blocked again.
DueIsTried ==
  \A a \in Apps : Renewable(a) ~>
    ~Renewable(a) \/ \E r \in Runners : Refreshing(r) /\ runner[r].app = a

\* What an activation has before it: stages, apps it still wants to renew, and
\* whether the present one is still being renewed.
ActivationStages(pc) ==
  CASE pc = "status" -> 6 [] pc = "statusAnswered" -> 5 [] pc \in {"refresh", "refreshAnswered"} -> 4
    [] pc = "final" -> 3 [] pc = "finalAnswered" -> 2 [] pc \in Rejected -> 1 [] OTHER -> 0
ActivationLeft(t) ==
  <<ActivationStages(t.pc), Cardinality(t.todo), IF t.pc = "refresh" THEN 1 ELSE 0>>

\* No activation goes in circles: an app that was tried - renewed, failed or
\* cancelled - is not tried again by the same activation, and a backend that
\* goes away ends it.
ActivationGetsOn ==
  [][\A r \in Runners : \/ runner'[r] = runner[r] \/ runner[r].pc = "idle"
                        \/ Nearer(ActivationLeft(runner'[r]), ActivationLeft(runner[r]))]_vars

\* No activation of tick or renewNow hangs, whatever becomes of the backend.
ActivationsEnd == \A r \in Runners : runner[r].pc # "idle" ~> runner[r].pc = "idle"
=============================================================================
