----------------------------- MODULE DaemonProofs -----------------------------
(***************************************************************************)
(* Theorems about Daemon for any number of apps, devices, activations of   *)
(* "Renew now" and requests of the window, and for any times.              *)
(***************************************************************************)
EXTENDS Daemon, ProgressProofs, FiniteSetTheorems, TLAPS

(***************************************************************************)
(* What the scheduler's operators return.                                  *)
(***************************************************************************)

\* The memory before anything happened is a memory.
LEMMA EmptyMemoryType == EmptyMemory \in Memory
BY DEF EmptyMemory, Memory, Failure, NoFailure

\* The clean-up keeps the memory's type.
LEMMA TidyType ==
  ASSUME NEW mem \in Memory, NEW st \in Status
  PROVE  Tidy(mem, st) \in Memory
BY DEF Tidy, Memory, Status, AppStatus, Failure, NoFailure, Installed

\* plan returns a memory, and only apps of the system to renew.
LEMMA PlanType ==
  ASSUME NEW mem \in Memory, NEW st \in Status, NEW now \in Nat, NEW p \in Prefs
  PROVE  /\ Plan(st, now, p, mem).memory \in Memory
         /\ Plan(st, now, p, mem).refresh \in SUBSET Apps
<1> DEFINE tidy == Tidy(mem, st)
<1>1. tidy \in Memory
  BY TidyType
<1> HIDE DEF tidy
<1>2. Plan(st, now, p, mem).memory \in Memory
  BY <1>1 DEF Plan, Memory, Status, AppStatus, tidy
<1>3. Plan(st, now, p, mem).refresh \in SUBSET Apps
  BY DEF Plan, Due, Installed
<1> QED BY <1>2, <1>3

\* onRefreshResult returns a memory.
LEMMA ResultType ==
  ASSUME NEW mem \in Memory, NEW a \in Apps, NEW e \in Nat, NEW o \in Outcomes,
         NEW now \in Nat
  PROVE  OnRefreshResult(mem, a, e, o, now).memory \in Memory
<1> SignInRetry \in Nat /\ RateRetry \in Nat /\ Retry \in Nat /\ DeviceRetry \in Nat
  BY SchedulerAssumption
<1>1. Counted(mem, a, e, o, now).memory \in Memory
  <2> DEFINE prev == IF mem.failures[a].expires = e THEN mem.failures[a].count ELSE 0
             count == IF prev < CountCap THEN prev + 1 ELSE CountCap
             failed == [mem EXCEPT !.failures[a] = [expires |-> e, count |-> count]]
  <2>1. count \in Nat
    BY DEF Memory, Failure, CountCap, FailuresBeforeNotice
  <2> HIDE DEF count
  <2>2. failed \in Memory
    BY <2>1 DEF Memory, Failure
  <2> HIDE DEF failed
  <2>3. [failed EXCEPT !.nextTryAt[a] = now + SignInRetry, !.blocked[a] = e] \in Memory
    <3> DEFINE later == [failed EXCEPT !.nextTryAt[a] = now + SignInRetry]
    <3>1. later \in Memory
      BY <2>2 DEF Memory
    <3>2. [later EXCEPT !.blocked[a] = e] \in Memory
      BY <3>1 DEF Memory
    <3> QED BY <3>2
  <2>4. [failed EXCEPT !.nextTryAt[a] =
           now + IF o = "rateLimited" THEN RateRetry ELSE Retry] \in Memory
    BY <2>2 DEF Memory
  <2> QED BY <2>3, <2>4 DEF Counted, failed, count
<1>2. CASE o = "ok"
  BY <1>2 DEF OnRefreshResult, Memory, Failure, NoFailure
<1>3. CASE o = "cancelled"
  BY <1>3 DEF OnRefreshResult
<1>4. CASE o = "deviceNotFound"
  BY <1>4 DEF OnRefreshResult, Memory
<1>5. CASE o \notin {"ok", "cancelled", "deviceNotFound"}
  BY <1>1, <1>5 DEF OnRefreshResult
<1> QED BY <1>2, <1>3, <1>4, <1>5

\* forgetBackoff returns a memory.
LEMMA ForgetType ==
  ASSUME NEW mem \in Memory
  PROVE  ForgetBackoff(mem) \in Memory
BY DEF ForgetBackoff, EmptyMemory, Memory, Failure, NoFailure

(***************************************************************************)
(* Type correctness.                                                       *)
(***************************************************************************)

\* The durations as single facts.
LEMMA ConstantTypes == Lifetime \in Nat /\ Start \in Nat
BY DaemonAssumption

\* A status that has not come yet (runner.st before the answer) has the type of one.
LEMMA NoStatusType == NoStatus \in Status
BY DEF NoStatus, Status, AppStatus

\* A runner at rest is an activation (tick and renewNow between two runs).
LEMMA IdleType == Idle \in Activation
BY NoStatusType DEF Idle, Activation, Pcs, Outcomes

\* A runner that awaits the status is an activation.
LEMMA AskType ==
  ASSUME NEW pc \in Pcs
  PROVE  Ask(pc) \in Activation
BY IdleType DEF Ask, Activation, Idle

\* No request of the window is a well-typed table of requests.
LEMMA FreeUiType ==
  NoUi \in [UiIds -> [method : AllMethods \cup {None},
                     pc : {"free", "working", "answered"}, ok : BOOLEAN]]
BY DEF NoUi, FreeUi

\* The loop of runRefreshes keeps the types of what it changes.
LEMMA NextRefreshType ==
  ASSUME TypeOK, NEW r \in Runners, NEW todo \in SUBSET Apps, NEW st \in Status,
         NEW jobs, NEW shown \in Apps \cup {None},
         NextRefresh(r, todo, st, jobs, shown)
  PROVE  /\ runner' \in [Runners -> Activation]
         /\ refreshing' \in Apps \cup {None}
<1>1. CASE todo # {} /\ NoJobs(jobs)
  <2>1. PICK a \in todo : /\ runner' = [runner EXCEPT ![r] = Refresh(a, todo, st)]
                          /\ refreshing' = a
    BY <1>1 DEF NextRefresh
  <2>2. Refresh(a, todo, st) \in Activation
    BY DEF Refresh, Activation, Pcs, Outcomes
  <2> QED BY <2>1, <2>2 DEF TypeOK
<1>2. CASE ~(todo # {} /\ NoJobs(jobs))
  <2>1. Ask("final") \in Activation
    BY AskType DEF Pcs
  <2> QED BY <1>2, <2>1 DEF NextRefresh, TypeOK
<1> QED BY <1>1, <1>2

\* The end of an activation keeps the types of the runners and of the timer.
LEMMA FinishType ==
  ASSUME TypeOK, NEW r \in Runners, Finish(r)
  PROVE  runner' \in [Runners -> Activation] /\ timer' \in BOOLEAN
BY IdleType DEF Finish, TypeOK

\* The result of a refresh leaves a memory.
LEMMA SettleType ==
  ASSUME TypeOK, NEW r \in Runners, NEW o \in Outcomes, Settle(r, o),
         runner[r].app \in Apps
  PROVE  memory' \in Memory
<1>1. runner[r].st.apps[runner[r].app].expires \in Nat
  BY DEF TypeOK, Activation, Status, AppStatus
<1> QED BY <1>1, ResultType DEF Settle, TypeOK

\* A request of the window keeps the store's type.
LEMMA UiEffectType ==
  ASSUME TypeOK, NEW m, UiEffect(m)
  PROVE  records' \in [Apps -> AppStatus]
<1>1. [Fresh EXCEPT !.expires = clock + Lifetime] \in AppStatus
  <2>1. clock + Lifetime \in Nat /\ Start + Lifetime \in Nat
    BY ConstantTypes DEF TypeOK
  <2>2. Fresh \in AppStatus
    BY <2>1 DEF Fresh, AppStatus
  <2> QED BY <2>1, <2>2 DEF AppStatus
<1>2. CASE m \in {"install", "store.install", "refresh"}
  <2>1. PICK a \in Apps : records' = [records EXCEPT ![a] =
                                       [Fresh EXCEPT !.expires = clock + Lifetime]]
    BY <1>2 DEF UiEffect
  <2> QED BY <1>1, <2>1 DEF TypeOK
<1>3. CASE m = "uninstall"
  <2>1. PICK a \in Apps : records' = [records EXCEPT ![a].installed = FALSE]
    BY <1>3 DEF UiEffect
  <2> QED BY <2>1 DEF TypeOK, AppStatus
<1>4. CASE m = "login"
  <2>1. ASSUME NEW a \in Apps
        PROVE  [records[a] EXCEPT !.accountReady = TRUE] \in AppStatus
    BY DEF TypeOK, AppStatus
  <2>2. records' = [a \in Apps |-> [records[a] EXCEPT !.accountReady = TRUE]]
    BY <1>4 DEF UiEffect
  <2> QED BY <2>1, <2>2
<1>5. CASE m \notin {"install", "store.install", "refresh", "uninstall", "login"}
  BY <1>5 DEF UiEffect, TypeOK
<1> QED BY <1>2, <1>3, <1>4, <1>5

\* Every step of the system keeps the types.
LEMMA TypeStep ==
  ASSUME TypeOK, CallsFitBackend, [Next]_vars
  PROVE  TypeOK'
<1> USE DEF world, window, notices
<1>0. CASE UNCHANGED vars
  BY <1>0 DEF vars, TypeOK
<1>1. ASSUME NEW r \in Runners, CallRejected(r)
      PROVE  TypeOK'
  <2>1. runner' \in [Runners -> Activation] /\ timer' \in BOOLEAN
    BY <1>1, FinishType DEF CallRejected
  <2>2. memory' \in Memory
    BY <1>1, SettleType DEF CallRejected, CallsFitBackend, TypeOK, Outcomes, Errors
  <2> QED BY <1>1, <2>1, <2>2 DEF CallRejected, TypeOK
<1>2. CASE TickFires
  BY <1>2, AskType DEF TickFires, TypeOK, Pcs
<1>3. CASE TickPlans
  <2> DEFINE st == runner[Tick].st
             res == Plan(st, clock, prefs, memory)
  <2>1. Tick \in Runners /\ st \in Status
    BY DEF TypeOK, Runners, Activation
  <2>2. res.memory \in Memory /\ res.refresh \in SUBSET Apps
    BY <2>1, PlanType, DaemonAssumption DEF TypeOK
  <2> HIDE DEF st, res
  <2>3. CASE res.refresh # {} /\ NoJobs(rendererJobs)
    <3>1. NextRefresh(Tick, res.refresh, st, rendererJobs, refreshing) /\ UNCHANGED timer
      BY <1>3, <2>3 DEF TickPlans, st, res
    <3>2. /\ runner' \in [Runners -> Activation]
          /\ refreshing' \in Apps \cup {None}
      BY <3>1, <2>1, <2>2, NextRefreshType DEF TypeOK
    <3> QED BY <1>3, <2>1, <2>2, <3>1, <3>2 DEF TickPlans, TypeOK, st, res
  <2>4. CASE ~(res.refresh # {} /\ NoJobs(rendererJobs))
    <3>1. Finish(Tick) /\ UNCHANGED refreshing
      BY <1>3, <2>4 DEF TickPlans, st, res
    <3>2. runner' \in [Runners -> Activation] /\ timer' \in BOOLEAN
      BY <3>1, <2>1, FinishType
    <3> QED BY <1>3, <2>1, <2>2, <3>1, <3>2 DEF TickPlans, TypeOK, st, res
  <2> QED BY <2>3, <2>4
<1>4. ASSUME NEW r \in Renewals, RenewNow(r)
      PROVE  TypeOK'
  BY <1>4, AskType DEF RenewNow, TypeOK, Pcs, Runners
<1>5. ASSUME NEW r \in Runners, RenewPlans(r)
      PROVE  TypeOK'
  <2> DEFINE st == runner[r].st
             todo == ManualPlan(st, clock)
  <2>1. st \in Status /\ todo \in SUBSET Apps
    BY DEF TypeOK, Activation, ManualPlan, Installed
  <2> HIDE DEF st, todo
  <2>2. CASE todo = {}
    <3>1. runner' \in [Runners -> Activation] /\ timer' \in BOOLEAN
      BY <1>5, <2>2, FinishType DEF RenewPlans, st, todo
    <3> QED BY <1>5, <2>1, <2>2, <3>1 DEF RenewPlans, TypeOK, st, todo
  <2>3. CASE todo # {}
    <3>1. NextRefresh(r, todo, st, rendererJobs, refreshing) /\ UNCHANGED timer
      BY <1>5, <2>3 DEF RenewPlans, st, todo
    <3>2. /\ runner' \in [Runners -> Activation]
          /\ refreshing' \in Apps \cup {None}
      BY <3>1, <2>1, NextRefreshType DEF TypeOK
    <3> QED BY <1>5, <2>1, <3>1, <3>2 DEF RenewPlans, TypeOK, st
  <2> QED BY <2>2, <2>3
<1>6. ASSUME NEW r \in Runners, RefreshDelivered(r)
      PROVE  TypeOK'
  <2>1. memory' \in Memory
    BY <1>6, SettleType DEF RefreshDelivered, CallsFitBackend, TypeOK, Activation
  <2>2. /\ runner' \in [Runners -> Activation]
        /\ refreshing' \in Apps \cup {None}
    BY <1>6, NextRefreshType DEF RefreshDelivered, TypeOK, Activation
  <2> QED BY <1>6, <2>1, <2>2 DEF RefreshDelivered, TypeOK
<1>7. ASSUME NEW r \in Runners, FinalDelivered(r)
      PROVE  TypeOK'
  <2>1. runner' \in [Runners -> Activation] /\ timer' \in BOOLEAN
    BY <1>7, FinishType DEF FinalDelivered
  <2> QED BY <1>7, <2>1 DEF FinalDelivered, TypeOK, Activation
<1>8. ASSUME NEW r \in Runners, StatusAnswered(r)
      PROVE  TypeOK'
  <2>1. CurrentStatus \in Status
    BY DEF CurrentStatus, Status, TypeOK
  <2>2. runner' \in [Runners -> Activation]
    <3> DEFINE pc == IF runner[r].pc = "status" THEN "statusAnswered" ELSE "finalAnswered"
    <3>1. [runner[r] EXCEPT !.pc = pc, !.st = CurrentStatus] \in Activation
      <4>1. runner[r] \in Activation /\ pc \in Pcs
        BY DEF TypeOK, Pcs
      <4> HIDE DEF pc
      <4> QED BY <2>1, <4>1 DEF Activation
    <3>2. runner' = [runner EXCEPT ![r] = [runner[r] EXCEPT !.pc = pc, !.st = CurrentStatus]]
      BY <1>8 DEF StatusAnswered, TypeOK
    <3> QED BY <3>1, <3>2 DEF TypeOK
  <2> QED BY <1>8, <2>2 DEF StatusAnswered, TypeOK
<1>9. ASSUME NEW r \in Runners, NEW o \in BackendOutcomes, RefreshAnswered(r, o)
      PROVE  TypeOK'
  <2>1. records' \in [Apps -> AppStatus]
    BY <1>9, ConstantTypes DEF RefreshAnswered, Renewed, CallsFitBackend, TypeOK, AppStatus
  <2>2. runner' \in [Runners -> Activation]
    <3>1. [runner[r] EXCEPT !.pc = "refreshAnswered", !.outcome = o] \in Activation
      <4>1. runner[r] \in Activation /\ o \in Outcomes /\ "refreshAnswered" \in Pcs
        BY DaemonAssumption DEF TypeOK, Pcs
      <4> QED BY <4>1 DEF Activation
    <3>2. runner' = [runner EXCEPT ![r] =
                       [runner[r] EXCEPT !.pc = "refreshAnswered", !.outcome = o]]
      BY <1>9 DEF RefreshAnswered, TypeOK
    <3> QED BY <3>1, <3>2 DEF TypeOK
  <2> QED BY <1>9, <2>1, <2>2 DEF RefreshAnswered, TypeOK
<1>10. CASE BackendReady
  BY <1>10 DEF BackendReady, TypeOK
<1>11. CASE BackendDies
  <2>1. runner' \in [Runners -> Activation]
    <3>1. ASSUME NEW r \in Runners
          PROVE  [runner[r] EXCEPT !.pc = RejectedPc(runner[r].pc)] \in Activation
      BY DEF RejectedPc, TypeOK, Activation, Pcs
    <3> QED BY <1>11, <3>1 DEF BackendDies
  <2> QED BY <1>11, <2>1, FreeUiType DEF BackendDies, BookCleared, TypeOK
<1>12. CASE WindowStep
  <2>1. ASSUME NEW u \in UiIds, NEW m \in UiMethods, UiCalls(u, m)
        PROVE  TypeOK'
    <3>1. m \in AllMethods
      BY DaemonAssumption
    <3> HIDE DEF AllMethods
    <3>2. rendererJobs' \in [UiIds -> BusyMethods \cup {None}]
      BY <2>1 DEF UiCalls, Booked, TypeOK
    <3>3. ui' \in [UiIds -> [method : AllMethods \cup {None},
                            pc : {"free", "working", "answered"}, ok : BOOLEAN]]
      BY <2>1, <3>1 DEF UiCalls, TypeOK
    <3> QED BY <2>1, <3>2, <3>3 DEF UiCalls, TypeOK
  <2>2. ASSUME NEW u \in UiIds, NEW ok \in BOOLEAN, UiAnswered(u, ok)
        PROVE  TypeOK'
    <3>1. records' \in [Apps -> AppStatus]
      BY <2>2, UiEffectType DEF UiAnswered, TypeOK
    <3> QED BY <2>2, <3>1 DEF UiAnswered, TypeOK
  <2>3. ASSUME NEW u \in UiIds, UiDelivered(u)
        PROVE  TypeOK'
    BY <2>3, ForgetType DEF UiDelivered, FreeUi, TypeOK
  <2>4. CASE UiSees
    BY <2>4 DEF UiSees, TypeOK
  <2>5. CASE ShowOrHide
    BY <2>5 DEF ShowOrHide, TypeOK
  <2>6. CASE Restart
    BY <2>6, FreeUiType DEF Restart, BookCleared, TypeOK
  <2> QED BY <1>12, <2>1, <2>2, <2>3, <2>4, <2>5, <2>6 DEF WindowStep
<1>13. CASE UpdateDownloaded
  BY <1>13 DEF UpdateDownloaded, TypeOK
<1>14. CASE SilentInstall \/ Relaunch
  <2>1. /\ update' = FALSE
        /\ \E hidden \in BOOLEAN : NewProcess(hidden)
    BY <1>14 DEF SilentInstall, Relaunch
  <2>2. PICK hidden \in BOOLEAN : NewProcess(hidden)
    BY <2>1
  <2>3. /\ ui' \in [UiIds -> [method : AllMethods \cup {None},
                              pc : {"free", "working", "answered"}, ok : BOOLEAN]]
        /\ rendererJobs' \in [UiIds -> BusyMethods \cup {None}]
        /\ runner' \in [Runners -> Activation]
        /\ lastStatus' \in Status
        /\ hiddenSince' \in Nat
    BY <2>2, IdleType, NoStatusType, FreeUiType DEF NewProcess, BookCleared, TypeOK
  <2> QED BY <2>1, <2>2, <2>3 DEF NewProcess, TypeOK
<1>15. CASE WorldStep
  <2>1. CASE TimePasses
    BY <2>1 DEF TimePasses, TypeOK
  <2>2. CASE DevicesChange
    BY <2>2 DEF DevicesChange, TypeOK
  <2>3. CASE ObstacleChanges
    <3>1. records' \in [Apps -> AppStatus]
      <4>1. PICK a \in Apps :
              \/ records' = [records EXCEPT ![a].sourceMissing = ~@]
              \/ records' = [records EXCEPT ![a].accountReady = FALSE]
        BY <2>3 DEF ObstacleChanges
      <4>2. [records[a] EXCEPT !.sourceMissing = ~@] \in AppStatus
        BY DEF TypeOK, AppStatus
      <4>3. [records[a] EXCEPT !.accountReady = FALSE] \in AppStatus
        BY DEF TypeOK, AppStatus
      <4> QED BY <4>1, <4>2, <4>3 DEF TypeOK
    <3> QED BY <2>3, <3>1 DEF ObstacleChanges, TypeOK
  <2>4. ASSUME NEW p \in PrefsValues, SetPrefs(p)
        PROVE  TypeOK'
    BY <2>4 DEF SetPrefs, TypeOK
  <2>5. CASE Wake
    BY <2>5 DEF Wake, TypeOK
  <2> QED BY <1>15, <2>1, <2>2, <2>3, <2>4, <2>5 DEF WorldStep
<1> QED
  BY <1>0, <1>1, <1>2, <1>3, <1>4, <1>5, <1>6, <1>7, <1>8, <1>9, <1>10, <1>11, <1>12,
     <1>13, <1>14, <1>15
  DEF Next, Event, MainStep, BackendStep

(***************************************************************************)
(* The inductive invariant: the calls of the main process.                 *)
(***************************************************************************)

\* What a step does to one activation only needs a look at that activation.
LEMMA OneRunner ==
  ASSUME TypeOK, CallsFitBackend, NEW r \in Runners, NEW act,
         runner' = [runner EXCEPT ![r] = act],
         UNCHANGED backend,
         act.pc \in InFlight => backend = "ready",
         act.pc \notin Rejected,
         act.pc \in {"refresh", "refreshAnswered"} => act.app \in Apps
  PROVE  CallsFitBackend'
<1> SUFFICES ASSUME NEW s \in Runners
             PROVE  /\ runner'[s].pc \in InFlight => backend' = "ready"
                    /\ runner'[s].pc \in Rejected => backend' = "down"
                    /\ runner'[s].pc \in {"refresh", "refreshAnswered", "refreshRejected"} =>
                         runner'[s].app \in Apps
  BY DEF CallsFitBackend
<1>1. CASE s = r
  BY <1>1 DEF TypeOK, Rejected
<1>2. CASE s # r
  BY <1>2 DEF TypeOK, CallsFitBackend
<1> QED BY <1>1, <1>2

\* The next refresh of the loop calls a backend that is there to answer.
LEMMA NextRefreshFits ==
  ASSUME TypeOK, CallsFitBackend, NEW r \in Runners, NEW todo \in SUBSET Apps, NEW st,
         NEW jobs, NEW shown, NextRefresh(r, todo, st, jobs, shown),
         UNCHANGED backend, backend = "ready"
  PROVE  CallsFitBackend'
<1>1. CASE todo # {} /\ NoJobs(jobs)
  <2>1. PICK a \in todo : runner' = [runner EXCEPT ![r] = Refresh(a, todo, st)]
    BY <1>1 DEF NextRefresh
  <2>2. /\ Refresh(a, todo, st).pc = "refresh"
        /\ Refresh(a, todo, st).app \in Apps
    BY DEF Refresh
  <2> HIDE DEF Refresh
  <2> QED BY <2>1, <2>2, OneRunner DEF InFlight, Rejected
<1>2. CASE ~(todo # {} /\ NoJobs(jobs))
  <2>1. runner' = [runner EXCEPT ![r] = Ask("final")]
    BY <1>2 DEF NextRefresh
  <2>2. Ask("final").pc = "final"
    BY DEF Ask, Idle
  <2> QED BY <2>1, <2>2, OneRunner DEF InFlight, Rejected
<1> QED BY <1>1, <1>2

\* An activation that ends leaves no call open (tick's finally, renewNow's end).
LEMMA FinishFits ==
  ASSUME TypeOK, CallsFitBackend, NEW r \in Runners, Finish(r), UNCHANGED backend
  PROVE  CallsFitBackend'
<1>1. Idle.pc = "idle"
  BY DEF Idle
<1> QED BY <1>1, OneRunner DEF Finish, InFlight, Rejected

\* Every step keeps the calls of the main process and the backend's state
\* in agreement.
LEMMA CallsFitStep ==
  ASSUME TypeOK, CallsFitBackend, [Next]_vars
  PROVE  CallsFitBackend'
<1> USE DEF world, window, notices
<1>0. CASE UNCHANGED <<runner, backend>>
  BY <1>0 DEF CallsFitBackend
<1>1. ASSUME NEW r \in Runners, CallRejected(r)
      PROVE  CallsFitBackend'
  BY <1>1, FinishFits DEF CallRejected
<1>2. CASE TickFires
  <2>1. Ask("status").pc = "status" /\ Tick \in Runners
    BY DEF Ask, Idle, Runners
  <2>2. CASE backend = "ready" /\ runner[Tick].pc = "idle"
    BY <1>2, <2>1, <2>2, OneRunner DEF TickFires, Rejected
  <2>3. CASE ~(backend = "ready" /\ runner[Tick].pc = "idle")
    BY <1>0, <1>2, <2>3 DEF TickFires
  <2> QED BY <2>2, <2>3
<1>3. CASE TickPlans
  <2> DEFINE st == runner[Tick].st
             res == Plan(st, clock, prefs, memory)
  <2>1. Tick \in Runners /\ st \in Status
    BY DEF TypeOK, Runners, Activation
  <2>2. res.refresh \in SUBSET Apps
    BY <2>1, PlanType, DaemonAssumption DEF TypeOK
  <2>3. UNCHANGED backend /\ backend = "ready"
    BY <1>3, <2>1 DEF TickPlans, CallsFitBackend, InFlight
  <2>4. \/ NextRefresh(Tick, res.refresh, st, rendererJobs, refreshing)
        \/ Finish(Tick)
    BY <1>3 DEF TickPlans
  <2> HIDE DEF st, res
  <2> QED BY <2>1, <2>2, <2>3, <2>4, NextRefreshFits, FinishFits
<1>4. ASSUME NEW r \in Renewals, RenewNow(r)
      PROVE  CallsFitBackend'
  <2>1. Ask("status").pc = "status" /\ r \in Runners
    BY DEF Ask, Idle, Runners
  <2> QED BY <1>4, <2>1, OneRunner DEF RenewNow, Rejected
<1>5. ASSUME NEW r \in Runners, RenewPlans(r)
      PROVE  CallsFitBackend'
  <2> DEFINE todo == ManualPlan(runner[r].st, clock)
  <2>1. todo \in SUBSET Apps
    BY DEF ManualPlan, Installed
  <2>2. UNCHANGED backend /\ backend = "ready"
    BY <1>5 DEF RenewPlans, CallsFitBackend, InFlight
  <2>3. \/ NextRefresh(r, todo, runner[r].st, rendererJobs, refreshing)
        \/ Finish(r)
    BY <1>5 DEF RenewPlans
  <2> HIDE DEF todo
  <2> QED BY <2>1, <2>2, <2>3, NextRefreshFits, FinishFits
<1>6. ASSUME NEW r \in Runners, RefreshDelivered(r)
      PROVE  CallsFitBackend'
  <2>1. UNCHANGED backend /\ backend = "ready"
    BY <1>6 DEF RefreshDelivered, CallsFitBackend, InFlight
  <2>2. runner[r].todo \in SUBSET Apps
    BY DEF TypeOK, Activation
  <2> QED BY <1>6, <2>1, <2>2, NextRefreshFits DEF RefreshDelivered
<1>7. ASSUME NEW r \in Runners, FinalDelivered(r)
      PROVE  CallsFitBackend'
  BY <1>7, FinishFits DEF FinalDelivered
<1>8. ASSUME NEW r \in Runners, StatusAnswered(r)
      PROVE  CallsFitBackend'
  <2> DEFINE pc == IF runner[r].pc = "status" THEN "statusAnswered" ELSE "finalAnswered"
             act == [runner[r] EXCEPT !.pc = pc, !.st = CurrentStatus]
  <2>1. runner' = [runner EXCEPT ![r] = act]
    BY <1>8 DEF StatusAnswered, TypeOK
  <2>2. act.pc \in {"statusAnswered", "finalAnswered"}
    BY DEF TypeOK, Activation
  <2>3. UNCHANGED backend /\ backend = "ready"
    BY <1>8 DEF StatusAnswered
  <2> HIDE DEF act
  <2> QED BY <2>1, <2>2, <2>3, OneRunner DEF Rejected
<1>9. ASSUME NEW r \in Runners, NEW o \in BackendOutcomes, RefreshAnswered(r, o)
      PROVE  CallsFitBackend'
  <2> DEFINE act == [runner[r] EXCEPT !.pc = "refreshAnswered", !.outcome = o]
  <2>1. runner' = [runner EXCEPT ![r] = act]
    BY <1>9 DEF RefreshAnswered, TypeOK
  <2>2. act.pc = "refreshAnswered" /\ act.app = runner[r].app
    BY DEF TypeOK, Activation
  <2>3. UNCHANGED backend /\ backend = "ready" /\ runner[r].app \in Apps
    BY <1>9 DEF RefreshAnswered, CallsFitBackend
  <2> HIDE DEF act
  <2> QED BY <2>1, <2>2, <2>3, OneRunner DEF Rejected
<1>10. CASE BackendReady
  BY <1>10 DEF BackendReady, CallsFitBackend
<1>11. CASE BackendDies
  <2> SUFFICES ASSUME NEW s \in Runners
               PROVE  /\ runner'[s].pc \in InFlight => backend' = "ready"
                      /\ runner'[s].pc \in Rejected => backend' = "down"
                      /\ runner'[s].pc \in {"refresh", "refreshAnswered", "refreshRejected"} =>
                           runner'[s].app \in Apps
    BY DEF CallsFitBackend
  <2>1. /\ runner'[s].pc = RejectedPc(runner[s].pc)
        /\ runner'[s].app = runner[s].app
        /\ backend' = "down"
    BY <1>11 DEF BackendDies, TypeOK, Activation
  <2>2. runner[s].pc \in Pcs
    BY DEF TypeOK, Activation
  <2> QED BY <2>1, <2>2 DEF RejectedPc, CallsFitBackend, InFlight, Rejected, Pcs
<1>12. CASE Settled /\ Restart
  BY <1>12 DEF Restart, CallsFitBackend, Settled
<1>13. CASE SilentInstall \/ Relaunch
  <2>1. runner' = [r \in Runners |-> Idle]
    BY <1>13 DEF SilentInstall, Relaunch, NewProcess
  <2> QED BY <2>1 DEF CallsFitBackend, Idle, InFlight, Rejected
<1>14. CASE WindowStep /\ ~Restart
  BY <1>0, <1>14 DEF WindowStep, UiCalls, UiAnswered, UiDelivered, UiSees, ShowOrHide
<1>15. CASE UpdateDownloaded \/ WorldStep
  BY <1>0, <1>15
  DEF UpdateDownloaded, WorldStep, TimePasses, DevicesChange, ObstacleChanges, SetPrefs, Wake
<1>16. UNCHANGED vars => CallsFitBackend'
  BY <1>0 DEF vars
<1> QED
  BY <1>1, <1>2, <1>3, <1>4, <1>5, <1>6, <1>7, <1>8, <1>9, <1>10, <1>11, <1>12,
     <1>13, <1>14, <1>15, <1>16
  DEF Next, Event, MainStep, BackendStep, WindowStep

(***************************************************************************)
(* The inductive invariant: the window's requests and the main process's   *)
(* book about them.                                                        *)
(***************************************************************************)

\* The marker None is neither a listed method nor an app.
LEMMA NoneIsNoMethod == None \notin BusyMethods /\ None \notin Apps
BY DaemonAssumption DEF AllMethods

\* A backend that has gone works for nobody, and gets no work.
LEMMA DownIsIdleStep ==
  ASSUME TypeOK, DownIsIdle, [Next]_vars
  PROVE  DownIsIdle'
<1> USE DEF world, window, notices, DownIsIdle
<1>1. CASE UNCHANGED <<backend, ui>>
  BY <1>1
<1>2. CASE BackendReady
  BY <1>2 DEF BackendReady
<1>3. CASE BackendDies \/ SilentInstall \/ Relaunch
  BY <1>3 DEF BackendDies, SilentInstall, Relaunch, NewProcess
<1>4. CASE Restart
  BY <1>4 DEF Restart
<1>5. ASSUME NEW u \in UiIds, NEW m \in UiMethods, UiCalls(u, m)
      PROVE  DownIsIdle'
  BY <1>5 DEF UiCalls
<1>6. ASSUME NEW u \in UiIds, NEW ok \in BOOLEAN, UiAnswered(u, ok) \/ UiDelivered(u)
      PROVE  DownIsIdle'
  <2>1. ui # NoUi
    BY <1>6 DEF UiAnswered, UiDelivered, NoUi, FreeUi
  <2> QED BY <1>6, <2>1 DEF UiAnswered, UiDelivered
<1>7. CASE UiSees \/ ShowOrHide \/ UpdateDownloaded \/ WorldStep
  BY <1>1, <1>7 DEF UiSees, ShowOrHide, UpdateDownloaded, WorldStep, TimePasses,
     DevicesChange, ObstacleChanges, SetPrefs, Wake
<1>8. CASE TickFires
  BY <1>1, <1>8 DEF TickFires
<1>9. CASE \E r \in Renewals : RenewNow(r)
  BY <1>1, <1>9 DEF RenewNow
<1>10. CASE \E r \in Runners : MainStep(r) \/ BackendStep(r) \/ CallRejected(r)
  BY <1>1, <1>10 DEF MainStep, BackendStep, TickPlans, RenewPlans, RefreshDelivered,
     FinalDelivered, StatusAnswered, RefreshAnswered, CallRejected
<1>11. UNCHANGED vars => DownIsIdle'
  BY <1>1 DEF vars
<1> QED
  BY <1>2, <1>3, <1>4, <1>5, <1>6, <1>7, <1>8, <1>9, <1>10, <1>11
  DEF Next, Event, WindowStep

\* The book is right: requests are booked and struck out as they come and go,
\* and it is empty whenever a new backend starts.
LEMMA BooksMatchStep ==
  ASSUME TypeOK, DownIsIdle, BooksMatch, [Next]_vars
  PROVE  BooksMatch'
<1> USE DEF world, window, notices, BooksMatch
<1>1. CASE UNCHANGED <<backend, ui, rendererJobs>>
  BY <1>1
<1>2. CASE BackendReady
  BY <1>2 DEF BackendReady
<1>3. CASE BackendDies
  BY <1>3 DEF BackendDies
<1>4. CASE Restart \/ SilentInstall \/ Relaunch
  <2>1. ui' = NoUi /\ rendererJobs' = BookCleared
    BY <1>4 DEF Restart, SilentInstall, Relaunch, NewProcess, DownIsIdle
  <2> QED BY <2>1, NoneIsNoMethod DEF NoUi, FreeUi, BookCleared
<1>5. ASSUME NEW u \in UiIds, NEW m \in UiMethods, UiCalls(u, m)
      PROVE  BooksMatch'
  <2>1. CASE backend = "down"
    BY <1>5, <2>1 DEF UiCalls
  <2>2. CASE backend # "down"
    <3>1. /\ ui' = [ui EXCEPT ![u] = [method |-> m, pc |-> "working", ok |-> FALSE]]
          /\ rendererJobs' = [rendererJobs EXCEPT ![u] = Booked(m)]
      BY <1>5, <2>2 DEF UiCalls
    <3>2. ASSUME NEW v \in UiIds
          PROVE  rendererJobs'[v] = IF ui'[v].method \in BusyMethods
                                    THEN ui'[v].method ELSE None
      <4>1. CASE v = u
        BY <3>1, <4>1 DEF Booked, TypeOK
      <4>2. CASE v # u
        BY <2>2, <3>1, <4>2 DEF TypeOK
      <4> QED BY <4>1, <4>2
    <3> QED BY <3>2
  <2> QED BY <2>1, <2>2
<1>6. ASSUME NEW u \in UiIds, NEW ok \in BOOLEAN, UiAnswered(u, ok)
      PROVE  BooksMatch'
  <2>1. /\ \A v \in UiIds : ui'[v].method = ui[v].method
        /\ UNCHANGED <<backend, rendererJobs>>
    BY <1>6 DEF UiAnswered, TypeOK
  <2> QED BY <2>1
<1>7. ASSUME NEW u \in UiIds, UiDelivered(u)
      PROVE  BooksMatch'
  <2>1. /\ ui' = [ui EXCEPT ![u] = FreeUi]
        /\ rendererJobs' = [rendererJobs EXCEPT ![u] = None]
        /\ UNCHANGED backend
    BY <1>7 DEF UiDelivered
  <2>2. ASSUME backend # "down", NEW v \in UiIds
        PROVE  rendererJobs'[v] = IF ui'[v].method \in BusyMethods
                                  THEN ui'[v].method ELSE None
    <3>1. CASE v = u
      BY <2>1, <3>1, NoneIsNoMethod DEF FreeUi, TypeOK
    <3>2. CASE v # u
      BY <2>1, <2>2, <3>2 DEF TypeOK
    <3> QED BY <3>1, <3>2
  <2> QED BY <2>1, <2>2
<1>8. CASE UiSees \/ ShowOrHide \/ UpdateDownloaded \/ WorldStep
  BY <1>1, <1>8 DEF UiSees, ShowOrHide, UpdateDownloaded, WorldStep, TimePasses,
     DevicesChange, ObstacleChanges, SetPrefs, Wake
<1>9. CASE TickFires
  BY <1>1, <1>9 DEF TickFires
<1>10. CASE \E r \in Renewals : RenewNow(r)
  BY <1>1, <1>10 DEF RenewNow
<1>11. CASE \E r \in Runners : MainStep(r) \/ BackendStep(r) \/ CallRejected(r)
  BY <1>1, <1>11 DEF MainStep, BackendStep, TickPlans, RenewPlans, RefreshDelivered,
     FinalDelivered, StatusAnswered, RefreshAnswered, CallRejected
<1>12. UNCHANGED vars => BooksMatch'
  BY <1>1 DEF vars
<1> QED
  BY <1>2, <1>3, <1>4, <1>5, <1>6, <1>7, <1>8, <1>9, <1>10, <1>11, <1>12
  DEF Next, Event, WindowStep

(***************************************************************************)
(* The inductive invariant: the chain of ticks.                            *)
(***************************************************************************)

\* runRefreshes does not end an activation before its closing status.
LEMMA NextRefreshGoesOn ==
  ASSUME TypeOK, NEW r \in Runners, NEW todo \in SUBSET Apps, NEW st, NEW jobs,
         NEW shown, NextRefresh(r, todo, st, jobs, shown)
  PROVE  /\ runner'[r].pc # "idle"
         /\ \A s \in Runners \ {r} : runner'[s] = runner[s]
<1>1. \/ \E a \in todo : runner' = [runner EXCEPT ![r] = Refresh(a, todo, st)]
      \/ runner' = [runner EXCEPT ![r] = Ask("final")]
  BY DEF NextRefresh
<1>2. Ask("final").pc = "final" /\ \A a \in todo : Refresh(a, todo, st).pc = "refresh"
  BY DEF Ask, Idle, Refresh
<1> HIDE DEF Ask, Refresh
<1> QED BY <1>1, <1>2 DEF TypeOK

\* The end of an activation keeps the ticks going: tick's finally sets the timer.
LEMMA FinishKeepsChain ==
  ASSUME TypeOK, TickChain, NEW r \in Runners, Finish(r), UNCHANGED backend
  PROVE  TickChain'
<1>1. CASE r = Tick
  BY <1>1 DEF Finish, TickChain
<1>2. CASE r # Tick
  <2>1. runner'[Tick] = runner[Tick]
    BY <1>2 DEF Finish, TypeOK, Runners
  <2> QED BY <1>2, <2>1 DEF Finish, TickChain, TypeOK
<1> QED BY <1>1, <1>2

\* Going on to the next app leaves the tick under way, or ends it as above.
LEMMA NextRefreshKeepsChain ==
  ASSUME TypeOK, TickChain, NEW r \in Runners, NEW todo \in SUBSET Apps, NEW st,
         NEW jobs, NEW shown, NextRefresh(r, todo, st, jobs, shown),
         UNCHANGED <<backend, timer>>
  PROVE  TickChain'
<1>1. CASE r = Tick
  BY <1>1, NextRefreshGoesOn DEF TickChain
<1>2. CASE r # Tick
  <2>1. runner'[Tick] = runner[Tick]
    BY <1>2, NextRefreshGoesOn DEF Runners
  <2> QED BY <2>1 DEF TickChain
<1> QED BY <1>1, <1>2

\* No step breaks the chain of ticks.
LEMMA TickChainStep ==
  ASSUME TypeOK, TickChain, [Next]_vars
  PROVE  TickChain'
<1> USE DEF world, window, notices
<1>0. CASE UNCHANGED <<runner, backend>> /\ (timer => timer')
  BY <1>0 DEF TickChain
<1>1. ASSUME NEW r \in Runners, CallRejected(r)
      PROVE  TickChain'
  BY <1>1, FinishKeepsChain DEF CallRejected
<1>2. CASE TickFires
  <2>1. CASE backend = "ready" /\ runner[Tick].pc = "idle"
    <3>1. runner'[Tick] = Ask("status")
      BY <1>2, <2>1 DEF TickFires, TypeOK, Runners
    <3> QED BY <3>1 DEF TickChain, Ask, Idle
  <2>2. CASE ~(backend = "ready" /\ runner[Tick].pc = "idle")
    BY <1>2, <2>2 DEF TickFires, TickChain
  <2> QED BY <2>1, <2>2
<1>3. CASE TickPlans
  <2> DEFINE st == runner[Tick].st
             res == Plan(st, clock, prefs, memory)
  <2>1. Tick \in Runners /\ st \in Status
    BY DEF TypeOK, Runners, Activation
  <2>2. res.refresh \in SUBSET Apps
    BY <2>1, PlanType, DaemonAssumption DEF TypeOK
  <2>3. /\ UNCHANGED backend
        /\ \/ /\ NextRefresh(Tick, res.refresh, st, rendererJobs, refreshing)
              /\ UNCHANGED timer
           \/ Finish(Tick)
    BY <1>3 DEF TickPlans
  <2> HIDE DEF st, res
  <2> QED BY <2>1, <2>2, <2>3, NextRefreshKeepsChain, FinishKeepsChain
<1>4. ASSUME NEW r \in Renewals, RenewNow(r)
      PROVE  TickChain'
  <2>1. runner'[Tick] = runner[Tick] /\ UNCHANGED <<timer, backend>>
    BY <1>4, DaemonAssumption DEF RenewNow, TypeOK, Runners
  <2> QED BY <2>1 DEF TickChain
<1>5. ASSUME NEW r \in Runners, RenewPlans(r)
      PROVE  TickChain'
  <2> DEFINE todo == ManualPlan(runner[r].st, clock)
  <2>1. todo \in SUBSET Apps
    BY DEF ManualPlan, Installed
  <2>2. /\ UNCHANGED backend
        /\ \/ /\ NextRefresh(r, todo, runner[r].st, rendererJobs, refreshing)
              /\ UNCHANGED timer
           \/ Finish(r)
    BY <1>5 DEF RenewPlans
  <2> HIDE DEF todo
  <2> QED BY <2>1, <2>2, NextRefreshKeepsChain, FinishKeepsChain
<1>6. ASSUME NEW r \in Runners, RefreshDelivered(r)
      PROVE  TickChain'
  <2>1. runner[r].todo \in SUBSET Apps
    BY DEF TypeOK, Activation
  <2> QED BY <1>6, <2>1, NextRefreshKeepsChain DEF RefreshDelivered
<1>7. ASSUME NEW r \in Runners, FinalDelivered(r)
      PROVE  TickChain'
  BY <1>7, FinishKeepsChain DEF FinalDelivered
<1>8. ASSUME NEW r \in Runners, NEW o, StatusAnswered(r) \/ RefreshAnswered(r, o)
      PROVE  TickChain'
  <2> DEFINE pc == IF runner[r].pc = "status" THEN "statusAnswered" ELSE "finalAnswered"
             act1 == [runner[r] EXCEPT !.pc = pc, !.st = CurrentStatus]
             act2 == [runner[r] EXCEPT !.pc = "refreshAnswered", !.outcome = o]
  <2>1. /\ UNCHANGED <<timer, backend>>
        /\ runner[r].pc # "idle"
        /\ runner' = [runner EXCEPT ![r] = act1] \/ runner' = [runner EXCEPT ![r] = act2]
    BY <1>8 DEF StatusAnswered, RefreshAnswered, TypeOK
  <2>2. act1.pc # "idle" /\ act2.pc # "idle"
    BY DEF TypeOK, Activation
  <2> HIDE DEF act1, act2
  <2>3. runner'[Tick].pc = "idle" => runner[Tick].pc = "idle"
    BY <2>1, <2>2 DEF TypeOK, Runners
  <2> QED BY <2>1, <2>3 DEF TickChain
<1>9. CASE BackendReady
  BY <1>9 DEF BackendReady, TickChain
<1>10. CASE BackendDies \/ Restart \/ SilentInstall \/ Relaunch
  BY <1>10 DEF BackendDies, Restart, SilentInstall, Relaunch, NewProcess, TickChain
<1>11. CASE WindowStep /\ ~Restart
  <2>1. ASSUME NEW u \in UiIds, UiDelivered(u)
        PROVE  UNCHANGED <<runner, backend>> /\ (timer => timer')
    BY <2>1 DEF UiDelivered
  <2>2. ASSUME \/ \E u \in UiIds : \/ \E m \in UiMethods : UiCalls(u, m)
                                  \/ \E ok \in BOOLEAN : UiAnswered(u, ok)
               \/ UiSees \/ ShowOrHide
        PROVE  UNCHANGED <<runner, backend, timer>>
    BY <2>2 DEF UiCalls, UiAnswered, UiSees, ShowOrHide
  <2> QED BY <1>0, <1>11, <2>1, <2>2 DEF WindowStep
<1>12. CASE UpdateDownloaded \/ WorldStep
  BY <1>0, <1>12
  DEF UpdateDownloaded, WorldStep, TimePasses, DevicesChange, ObstacleChanges, SetPrefs, Wake
<1>13. UNCHANGED vars => TickChain'
  BY <1>0 DEF vars
<1> QED
  BY <1>1, <1>2, <1>3, <1>4, <1>5, <1>6, <1>7, <1>8, <1>9, <1>10, <1>11, <1>12, <1>13
  DEF Next, Event, MainStep, BackendStep, WindowStep

(***************************************************************************)
(* The invariant and what follows from it.                                 *)
(***************************************************************************)

\* The program starts in the invariant: nothing is under way and the backend
\* is being started.
LEMMA InitInv == Init => Inv
<1> SUFFICES ASSUME Init
             PROVE  Inv
  OBVIOUS
<1>1. TypeOK
  <2>1. Start \in Nat /\ Start + Lifetime \in Nat
    BY ConstantTypes
  <2>2. Fresh \in AppStatus
    BY <2>1 DEF Fresh, AppStatus
  <2>3. ui \in [UiIds -> [method : AllMethods \cup {None},
                         pc : {"free", "working", "answered"}, ok : BOOLEAN]]
    BY FreeUiType DEF Init
  <2> QED BY <2>1, <2>2, <2>3, EmptyMemoryType, IdleType, NoStatusType DEF Init, TypeOK
<1>2. CallsFitBackend
  BY DEF Init, CallsFitBackend, Idle, InFlight, Rejected
<1>3. DownIsIdle /\ TickChain
  BY DEF Init, DownIsIdle, TickChain
<1>4. BooksMatch
  BY NoneIsNoMethod DEF Init, BooksMatch, NoUi, FreeUi
<1> QED BY <1>1, <1>2, <1>3, <1>4 DEF Inv

\* Every step keeps the invariant.
LEMMA InvStep == Inv /\ [Next]_vars => Inv'
BY TypeStep, CallsFitStep, DownIsIdleStep, TickChainStep, BooksMatchStep DEF Inv

\* The inductive invariant holds in every state the program reaches.
THEOREM Invariant == Spec => []Inv
BY InitInv, InvStep, PTL DEF Spec

\* Every variable of the main process keeps its type.
THEOREM TypeCorrect == Spec => []TypeOK
<1>1. Inv => TypeOK
  BY DEF Inv
<1> QED BY Invariant, <1>1, PTL

\* The background operation never falls asleep while a backend runs: for any
\* number of "Renew now" and window requests, and whatever the backend does.
THEOREM TicksNeverStop == Spec => []TickChain
<1>1. Inv => TickChain
  BY DEF Inv
<1> QED BY Invariant, <1>1, PTL

\* busy() sees exactly the window requests the running backend works on.
THEOREM BookIsRight == Spec => []BooksMatch
<1>1. Inv => BooksMatch
  BY DEF Inv
<1> QED BY Invariant, <1>1, PTL

(***************************************************************************)
(* When a background refresh begins.                                       *)
(***************************************************************************)

\* A step that puts a runner anywhere but into a refresh begins no refresh.
LEMMA NoRefreshBegins ==
  ASSUME TypeOK, NEW r \in Runners, NEW act, act.pc # "refresh",
         runner' = [runner EXCEPT ![r] = act],
         NEW s \in Runners, runner'[s].pc = "refresh"
  PROVE  runner[s].pc = "refresh"
BY DEF TypeOK

\* The end of an activation begins no refresh.
LEMMA FinishBeginsNone ==
  ASSUME TypeOK, NEW r \in Runners, Finish(r), NEW s \in Runners,
         runner'[s].pc = "refresh"
  PROVE  runner[s].pc = "refresh"
<1>1. Idle.pc # "refresh"
  BY DEF Idle
<1> QED BY <1>1, NoRefreshBegins DEF Finish

\* The loop begins a refresh only while the book about the window is empty.
LEMMA NextRefreshYields ==
  ASSUME TypeOK, NEW r \in Runners, NEW todo, NEW st, NEW jobs, NEW shown,
         NextRefresh(r, todo, st, jobs, shown),
         NEW s \in Runners, runner'[s].pc = "refresh", runner[s].pc # "refresh"
  PROVE  NoJobs(jobs)
<1> SUFFICES ASSUME ~NoJobs(jobs)
             PROVE  FALSE
  OBVIOUS
<1>1. runner' = [runner EXCEPT ![r] = Ask("final")]
  BY DEF NextRefresh
<1>2. Ask("final").pc # "refresh"
  BY DEF Ask, Idle
<1> HIDE DEF Ask
<1> QED BY <1>1, <1>2, NoRefreshBegins

\* A step that begins a refresh finds the window idle.
LEMMA YieldStep ==
  ASSUME Inv, [Next]_vars, NEW s \in Runners,
         runner'[s].pc = "refresh", runner[s].pc # "refresh"
  PROVE  backend # "down" /\ NoJobs(rendererJobs)
<1> USE DEF world, window, notices, Inv
<1>0. ~UNCHANGED runner
  OBVIOUS
<1>1. ASSUME NEW r \in Runners, Finish(r)
      PROVE  FALSE
  BY <1>1, FinishBeginsNone
<1>2. ASSUME NEW r \in Runners, NEW todo, NEW st, NEW shown,
             runner[r].pc \in InFlight,
             NextRefresh(r, todo, st, rendererJobs, shown)
      PROVE  backend # "down" /\ NoJobs(rendererJobs)
  BY <1>2, NextRefreshYields DEF CallsFitBackend
<1>3. ASSUME NEW pc, runner' = [runner EXCEPT ![Tick] = Ask(pc)] \/
                     \E r \in Runners : runner' = [runner EXCEPT ![r] = Ask(pc)],
             pc # "refresh"
      PROVE  FALSE
  <2>1. Ask(pc).pc # "refresh" /\ Tick \in Runners
    BY <1>3 DEF Ask, Idle, Runners
  <2> HIDE DEF Ask
  <2> QED BY <1>3, <2>1, NoRefreshBegins
<1>4. CASE \E r \in Runners : CallRejected(r) \/ FinalDelivered(r)
  BY <1>1, <1>4 DEF CallRejected, FinalDelivered
<1>5. CASE TickFires
  BY <1>0, <1>3, <1>5 DEF TickFires
<1>6. CASE TickPlans
  <2>1. Tick \in Runners /\ runner[Tick].pc \in InFlight
    BY <1>6 DEF TickPlans, Runners, InFlight
  <2>2. \/ \E todo : NextRefresh(Tick, todo, runner[Tick].st, rendererJobs, refreshing)
        \/ Finish(Tick)
    BY <1>6 DEF TickPlans
  <2> QED BY <1>1, <1>2, <2>1, <2>2
<1>7. ASSUME NEW r \in Renewals, RenewNow(r)
      PROVE  FALSE
  BY <1>3, <1>7 DEF RenewNow, Runners
<1>8. ASSUME NEW r \in Runners, RenewPlans(r)
      PROVE  backend # "down" /\ NoJobs(rendererJobs)
  <2>1. \/ \E todo : NextRefresh(r, todo, runner[r].st, rendererJobs, refreshing)
        \/ Finish(r)
    BY <1>8 DEF RenewPlans
  <2>2. runner[r].pc \in InFlight
    BY <1>8 DEF RenewPlans, InFlight
  <2> QED BY <1>1, <1>2, <2>1, <2>2
<1>9. ASSUME NEW r \in Runners, RefreshDelivered(r)
      PROVE  backend # "down" /\ NoJobs(rendererJobs)
  BY <1>2, <1>9 DEF RefreshDelivered, InFlight
<1>10. ASSUME NEW r \in Runners, NEW o, StatusAnswered(r) \/ RefreshAnswered(r, o)
       PROVE  FALSE
  <2> DEFINE pc == IF runner[r].pc = "status" THEN "statusAnswered" ELSE "finalAnswered"
             act1 == [runner[r] EXCEPT !.pc = pc, !.st = CurrentStatus]
             act2 == [runner[r] EXCEPT !.pc = "refreshAnswered", !.outcome = o]
  <2>1. runner' = [runner EXCEPT ![r] = act1] \/ runner' = [runner EXCEPT ![r] = act2]
    BY <1>10 DEF StatusAnswered, RefreshAnswered, TypeOK
  <2>2. act1.pc # "refresh" /\ act2.pc # "refresh"
    BY DEF TypeOK, Activation
  <2> HIDE DEF act1, act2
  <2> QED BY <2>1, <2>2, NoRefreshBegins
<1>11. CASE BackendDies
  <2>1. runner'[s].pc = RejectedPc(runner[s].pc)
    BY <1>11 DEF BackendDies, TypeOK, Activation
  <2> QED BY <2>1 DEF RejectedPc, InFlight
<1>12. CASE SilentInstall \/ Relaunch
  <2>1. runner'[s].pc = "idle"
    BY <1>12 DEF SilentInstall, Relaunch, NewProcess, Idle
  <2> QED BY <2>1
<1>13. CASE BackendReady \/ WindowStep \/ UpdateDownloaded \/ WorldStep
  BY <1>0, <1>13
  DEF BackendReady, UpdateDownloaded, WorldStep, TimePasses, DevicesChange,
      ObstacleChanges, SetPrefs, Wake, WindowStep, UiCalls, UiAnswered, UiDelivered,
      UiSees, ShowOrHide, Restart
<1>14. ~UNCHANGED vars
  BY <1>0 DEF vars
<1> QED
  BY <1>4, <1>5, <1>6, <1>7, <1>8, <1>9, <1>10, <1>11, <1>12, <1>13, <1>14
  DEF Next, Event, MainStep, BackendStep

\* A background refresh, of the tick or of any "Renew now", never begins while
\* the backend works on a request of the window that BUSY_METHODS lists.
THEOREM RefreshWaitsForWindow == Spec => BackgroundYields
<1> DEFINE Yield == \A r \in Runners :
                      runner'[r].pc = "refresh" /\ runner[r].pc # "refresh"
                        => \A u \in UiIds : ui[u].pc # "working"
                                            \/ ui[u].method \notin BusyMethods
<1>1. Inv /\ [Next]_vars => [Yield]_vars
  <2> SUFFICES ASSUME Inv, [Next]_vars, NEW r \in Runners,
                      runner'[r].pc = "refresh", runner[r].pc # "refresh",
                      NEW u \in UiIds
               PROVE  ui[u].method \notin BusyMethods
    OBVIOUS
  <2>1. backend # "down" /\ rendererJobs[u] = None
    BY YieldStep DEF NoJobs
  <2> QED BY <2>1, NoneIsNoMethod DEF Inv, BooksMatch
<1> QED BY Invariant, <1>1, PTL DEF Spec, BackgroundYields

(***************************************************************************)
(* Without "Renew now" a single activation renews, and then the indicator  *)
(* is right.  (With it, it is not: see the run of OneRefreshAtATime.)      *)
(***************************************************************************)

Renews(act) == act.pc \in {"refresh", "refreshAnswered", "refreshRejected"}
Indicator ==
  refreshing = IF Renews(runner[Tick]) THEN runner[Tick].app ELSE None

\* The tick sets `refreshing` before it asks for a refresh and clears it with
\* the answer.
LEMMA IndicatorStep ==
  ASSUME Renewals = {}, Inv, Indicator, [Next]_vars
  PROVE  Indicator'
<1> USE DEF world, window, notices, Inv
<1>0. CASE UNCHANGED <<runner, refreshing>>
  BY <1>0 DEF Indicator
<1>1. Runners = {Tick}
  BY DEF Runners
<1>2. \A act : runner' = [runner EXCEPT ![Tick] = act] => runner'[Tick] = act
  BY <1>1 DEF TypeOK
<1>3. ASSUME Finish(Tick), \/ UNCHANGED refreshing /\ ~Renews(runner[Tick])
                           \/ refreshing' = None
      PROVE  Indicator'
  BY <1>2, <1>3 DEF Finish, Idle, Indicator, Renews
<1>4. ASSUME NEW todo, NEW st, NEW shown, shown = None,
             NextRefresh(Tick, todo, st, rendererJobs, shown)
      PROVE  Indicator'
  <2>1. CASE todo # {} /\ NoJobs(rendererJobs)
    <3>1. PICK a \in todo : /\ runner' = [runner EXCEPT ![Tick] = Refresh(a, todo, st)]
                            /\ refreshing' = a
      BY <1>4, <2>1 DEF NextRefresh
    <3> QED BY <1>2, <3>1 DEF Refresh, Indicator, Renews
  <2>2. CASE ~(todo # {} /\ NoJobs(rendererJobs))
    BY <1>2, <1>4, <2>2 DEF NextRefresh, Ask, Idle, Indicator, Renews
  <2> QED BY <2>1, <2>2
<1>5. CASE CallRejected(Tick)
  <2>1. runner[Tick].pc = "refreshRejected" => refreshing' = None
    BY <1>5 DEF CallRejected
  <2>2. runner[Tick].pc # "refreshRejected" =>
          UNCHANGED refreshing /\ ~Renews(runner[Tick])
    BY <1>5 DEF CallRejected, Rejected, Renews
  <2> QED BY <1>3, <1>5, <2>1, <2>2 DEF CallRejected
<1>6. CASE FinalDelivered(Tick)
  BY <1>3, <1>6 DEF FinalDelivered, Renews
<1>7. CASE TickFires
  <2>1. ~Renews(Ask("status"))
    BY DEF Ask, Idle, Renews
  <2> HIDE DEF Ask
  <2> QED BY <1>0, <1>2, <1>7, <2>1 DEF TickFires, Indicator, Renews
<1>8. CASE TickPlans
  <2>1. ~Renews(runner[Tick]) /\ refreshing = None
    BY <1>8 DEF TickPlans, Renews, Indicator
  <2>2. \/ \E todo : NextRefresh(Tick, todo, runner[Tick].st, rendererJobs, refreshing)
        \/ Finish(Tick) /\ UNCHANGED refreshing
    BY <1>8 DEF TickPlans
  <2> QED BY <1>3, <1>4, <2>1, <2>2
<1>9. CASE RefreshDelivered(Tick)
  BY <1>4, <1>9 DEF RefreshDelivered
<1>10. CASE StatusAnswered(Tick)
  <2>1. runner'[Tick].pc \in {"statusAnswered", "finalAnswered"} /\ UNCHANGED refreshing
    BY <1>1, <1>10 DEF StatusAnswered, TypeOK, Activation
  <2>2. ~Renews(runner[Tick]) /\ ~Renews(runner'[Tick])
    BY <1>10, <2>1 DEF StatusAnswered, Renews
  <2> QED BY <2>1, <2>2 DEF Indicator
<1>11. ASSUME NEW o, RefreshAnswered(Tick, o)
       PROVE  Indicator'
  <2>1. /\ runner'[Tick].pc = "refreshAnswered" /\ UNCHANGED refreshing
        /\ runner'[Tick].app = runner[Tick].app
    BY <1>1, <1>11 DEF RefreshAnswered, TypeOK, Activation
  <2> QED BY <1>11, <2>1 DEF RefreshAnswered, Indicator, Renews
<1>12. CASE BackendDies
  <2>1. /\ runner'[Tick].pc = RejectedPc(runner[Tick].pc) /\ UNCHANGED refreshing
        /\ runner'[Tick].app = runner[Tick].app
    BY <1>1, <1>12 DEF BackendDies, TypeOK, Activation
  <2>2. Renews(runner'[Tick]) <=> Renews(runner[Tick])
    BY <1>1, <2>1 DEF RejectedPc, Renews, InFlight, TypeOK, Activation, Pcs
  <2> QED BY <2>1, <2>2 DEF Indicator
<1>13. CASE SilentInstall \/ Relaunch
  <2>1. refreshing' = None /\ runner'[Tick] = Idle
    BY <1>1, <1>13 DEF SilentInstall, Relaunch, NewProcess
  <2> QED BY <2>1 DEF Indicator, Idle, Renews
<1>14. CASE BackendReady \/ WindowStep \/ UpdateDownloaded \/ WorldStep
  BY <1>0, <1>14
  DEF BackendReady, UpdateDownloaded, WorldStep, TimePasses, DevicesChange,
      ObstacleChanges, SetPrefs, Wake, WindowStep, UiCalls, UiAnswered, UiDelivered,
      UiSees, ShowOrHide, Restart
<1>15. UNCHANGED vars => Indicator'
  BY <1>0 DEF vars
<1> QED
  BY <1>1, <1>5, <1>6, <1>7, <1>8, <1>9, <1>10, <1>11, <1>12, <1>13, <1>14, <1>15
  DEF Next, Event, MainStep, BackendStep

\* What the tick shows as being renewed holds in every reachable state.
LEMMA IndicatorInvariant ==
  ASSUME Renewals = {}
  PROVE  Spec => [](Inv /\ Indicator)
<1>1. Init => Indicator
  BY DEF Init, Indicator, Renews, Idle, Runners
<1>2. Inv /\ Indicator /\ [Next]_vars => Indicator'
  BY IndicatorStep
<1> QED BY Invariant, <1>1, <1>2, PTL DEF Spec

\* Tray and window show exactly the app that the tick is renewing.
THEOREM IndicatorIsTrue ==
  ASSUME Renewals = {}
  PROVE  Spec => []IndicatorTrue
<1>1. Inv /\ Indicator => IndicatorTrue
  <2> SUFFICES ASSUME Inv, Indicator, NEW a \in Apps
               PROVE  refreshing = a <=>
                        \E r \in Runners : (Refreshing(r) \/ runner[r].pc = "refreshRejected")
                                           /\ runner[r].app = a
    BY DEF IndicatorTrue
  <2>1. Runners = {Tick} /\ a # None
    BY NoneIsNoMethod DEF Runners
  <2> QED BY <2>1 DEF Indicator, Renews, Refreshing
<1> QED BY IndicatorInvariant, <1>1, PTL

\* Without "Renew now" a silent update never restarts ModStaller in the middle
\* of a refresh, or of a request of the window that BUSY_METHODS lists.  It may in
\* the middle of another one, store.install or pair.start.
THEOREM UpdateWaits ==
  ASSUME Renewals = {}
  PROVE  Spec => []UpdateNeverInterrupts
<1>1. Inv /\ Indicator => UpdateNeverInterrupts
  <2> SUFFICES ASSUME Inv, Indicator, MayInstall
               PROVE  /\ \A r \in Runners : ~Refreshing(r)
                      /\ \A u \in UiIds : ui[u].method \notin BusyMethods
    BY DEF UpdateNeverInterrupts
  <2>1. NoJobs(rendererJobs) /\ refreshing = None
    BY DEF MayInstall, Busy
  <2>2. ASSUME NEW r \in Runners
        PROVE  ~Refreshing(r)
    <3>1. r = Tick /\ (Renews(runner[r]) => runner[r].app \in Apps)
      BY DEF Runners, Renews, Inv, CallsFitBackend
    <3> QED BY <2>1, <3>1, NoneIsNoMethod DEF Indicator, Renews, Refreshing
  <2>3. ASSUME NEW u \in UiIds
        PROVE  ui[u].method \notin BusyMethods
    <3>1. CASE backend = "down"
      BY <3>1, NoneIsNoMethod DEF Inv, DownIsIdle, NoUi, FreeUi
    <3>2. CASE backend # "down"
      BY <2>1, <3>2, NoneIsNoMethod DEF NoJobs, Inv, BooksMatch
    <3> QED BY <3>1, <3>2
  <2> QED BY <2>2, <2>3
<1> QED BY IndicatorInvariant, <1>1, PTL

(***************************************************************************)
(* Notices.  What the memory file says of an app and what its user has     *)
(* been told agree, although the two change in many places: the plan of a  *)
(* tick, the end of a refresh, a call the backend's end rejected, a new    *)
(* sign-in.                                                                *)
(***************************************************************************)

\* The places at which an activation still uses the status it was given, and
\* those at which it renews an app.
Renewing == {"refresh", "refreshAnswered", "refreshRejected"}
WithStatus == {"statusAnswered"} \cup Renewing

\* The record y of an app may follow the record x: its expiry date never goes
\* back, and an app that was gone comes back with a later one.
Follows(x, y) == \/ x.expires < y.expires
                 \/ x.expires = y.expires /\ (y.installed => x.installed)

\* No expiry date is more than a lifetime away.
Dates == \A a \in Apps : /\ 0 < records[a].expires
                         /\ records[a].expires <= clock + Lifetime

\* What an activation works with: apps that were installed, and a status that
\* the store has left behind at most.
Sound(act, recs) ==
  /\ act.outcome # "person"
  /\ act.pc \in Renewing => /\ act.todo \subseteq Installed(act.st)
                            /\ act.app \in Installed(act.st)
  /\ act.pc \in WithStatus =>
       \A a \in Apps : /\ 0 < act.st.apps[a].expires
                       /\ Follows(act.st.apps[a], recs[a])

AllSound == \A r \in Runners : Sound(runner[r], records)

\* Records follow one another.
LEMMA FollowsOn ==
  ASSUME NEW x \in AppStatus, NEW y \in AppStatus, NEW z \in AppStatus
  PROVE  /\ Follows(x, x)
         /\ Follows(x, y) /\ Follows(y, z) => Follows(x, z)
BY DEF Follows, AppStatus

\* What the window leaves in the store follows what was there.
LEMMA UiEffectFollows ==
  ASSUME Inv, Dates, NEW m, UiEffect(m), clock' = clock
  PROVE  Dates' /\ \A a \in Apps : Follows(records[a], records'[a])
<1> USE DEF Inv, TypeOK
<1> clock \in Nat /\ Lifetime \in Nat /\ Lifetime # 0
  BY DaemonAssumption
<1> SUFFICES ASSUME NEW b \in Apps
             PROVE  /\ 0 < records'[b].expires /\ records'[b].expires <= clock + Lifetime
                    /\ Follows(records[b], records'[b])
  BY DEF Dates
<1>0. /\ records[b] \in AppStatus /\ 0 < records[b].expires
      /\ records[b].expires <= clock + Lifetime
  BY DEF Dates
<1>1. CASE m \in {"install", "store.install", "refresh"}
  <2>1. PICK a \in Apps :
          /\ records[a].installed \/ clock + Lifetime > records[a].expires
          /\ records' = [records EXCEPT ![a] = [Fresh EXCEPT !.expires = clock + Lifetime]]
    BY <1>1 DEF UiEffect
  <2>2. CASE a = b
    <3>1. records'[b].expires = clock + Lifetime /\ records'[b].installed
      BY <2>1, <2>2 DEF Fresh
    <3> QED BY <1>0, <2>1, <2>2, <3>1 DEF Follows, AppStatus
  <2>3. CASE a # b
    BY <1>0, <2>1, <2>3 DEF Follows
  <2> QED BY <2>2, <2>3
<1>2. CASE m = "uninstall"
  <2>1. PICK a \in Apps : records' = [records EXCEPT ![a].installed = FALSE]
    BY <1>2 DEF UiEffect
  <2>2. records'[b].expires = records[b].expires
        /\ (records'[b].installed => records[b].installed)
    BY <2>1 DEF AppStatus
  <2> QED BY <1>0, <2>2 DEF Follows
<1>3. CASE m = "login"
  <2>1. records' = [a \in Apps |-> [records[a] EXCEPT !.accountReady = TRUE]]
    BY <1>3 DEF UiEffect
  <2>2. records'[b].expires = records[b].expires
        /\ records'[b].installed = records[b].installed
    BY <2>1 DEF AppStatus
  <2> QED BY <1>0, <2>2 DEF Follows
<1>4. CASE m \notin {"install", "store.install", "refresh", "uninstall", "login"}
  BY <1>0, <1>4 DEF UiEffect, Follows
<1> QED BY <1>1, <1>2, <1>3, <1>4

\* So does what any step leaves there.
LEMMA RecordsStep ==
  ASSUME Inv, Dates, [Next]_vars
  PROVE  Dates' /\ \A a \in Apps : Follows(records[a], records'[a])
<1> USE DEF world, window, notices
<1> clock \in Nat /\ Lifetime \in Nat /\ records \in [Apps -> AppStatus]
  BY DaemonAssumption DEF Inv, TypeOK
<1>0. CASE UNCHANGED <<records, clock>>
  BY <1>0, FollowsOn DEF Dates
<1>1. ASSUME NEW r \in Runners, NEW o, RefreshAnswered(r, o)
      PROVE  Dates' /\ \A a \in Apps : Follows(records[a], records'[a])
  <2>1. clock' = clock /\ runner[r].app \in Apps
    BY <1>1 DEF RefreshAnswered, Inv, CallsFitBackend
  <2>2. CASE records' = Renewed(runner[r].app) /\ records[runner[r].app].installed
    <3> SUFFICES ASSUME NEW b \in Apps
                 PROVE  /\ 0 < records'[b].expires
                        /\ records'[b].expires <= clock + Lifetime
                        /\ Follows(records[b], records'[b])
      BY <2>1 DEF Dates
    <3>0. /\ records[b] \in AppStatus /\ 0 < records[b].expires
          /\ records[b].expires <= clock + Lifetime
      BY DEF Dates
    <3>1. CASE b = runner[r].app
      <4>1. records'[b].expires = clock + Lifetime
        BY <2>2, <3>1 DEF Renewed, AppStatus
      <4> QED BY <2>2, <3>0, <3>1, <4>1 DEF Follows, AppStatus
    <3>2. CASE b # runner[r].app
      BY <2>2, <3>0, <3>2, FollowsOn DEF Renewed
    <3> QED BY <3>1, <3>2
  <2>3. CASE UNCHANGED records
    BY <1>0, <2>1, <2>3
  <2> QED BY <1>1, <2>2, <2>3 DEF RefreshAnswered
<1>2. ASSUME NEW u \in UiIds, NEW ok, UiAnswered(u, ok)
      PROVE  Dates' /\ \A a \in Apps : Follows(records[a], records'[a])
  <2>1. clock' = clock
    BY <1>2 DEF UiAnswered
  <2>2. CASE UiEffect(ui[u].method)
    BY <2>1, <2>2, UiEffectFollows
  <2>3. CASE UNCHANGED records
    BY <1>0, <2>1, <2>3
  <2> QED BY <1>2, <2>2, <2>3 DEF UiAnswered
<1>3. CASE ObstacleChanges
  <2>0. clock' = clock
    BY <1>3 DEF ObstacleChanges
  <2>1. PICK a \in Apps : \/ records' = [records EXCEPT ![a].sourceMissing = ~@]
                          \/ records' = [records EXCEPT ![a].accountReady = FALSE]
    BY <1>3 DEF ObstacleChanges
  <2> SUFFICES ASSUME NEW b \in Apps
               PROVE  /\ 0 < records'[b].expires
                      /\ records'[b].expires <= clock + Lifetime
                      /\ Follows(records[b], records'[b])
    BY <2>0 DEF Dates
  <2>2. records'[b].expires = records[b].expires
        /\ records'[b].installed = records[b].installed
    BY <2>1 DEF AppStatus
  <2> QED BY <2>2 DEF Follows, Dates
<1>4. CASE TimePasses
  <2>1. clock' = clock + 1 /\ records' = records
    BY <1>4 DEF TimePasses
  <2>2. \A a \in Apps : records[a].expires \in Nat
    BY DEF AppStatus
  <2> QED BY <2>1, <2>2, FollowsOn DEF Dates
<1>5. \/ UNCHANGED <<records, clock>> \/ ObstacleChanges \/ TimePasses
      \/ \E r \in Runners, o \in BackendOutcomes : RefreshAnswered(r, o)
      \/ \E u \in UiIds, ok \in BOOLEAN : UiAnswered(u, ok)
  <2>1. CASE UNCHANGED vars
    BY <2>1 DEF vars
  <2>2. CASE \E r \in Runners : CallRejected(r)
    BY <2>2 DEF CallRejected
  <2>3. CASE TickFires \/ (\E r \in Renewals : RenewNow(r)) \/ BackendReady
             \/ BackendDies \/ UpdateDownloaded \/ SilentInstall \/ Relaunch
    BY <2>3 DEF TickFires, RenewNow, BackendReady, BackendDies, UpdateDownloaded,
                SilentInstall, Relaunch, NewProcess
  <2>4. CASE \E r \in Runners : MainStep(r)
    BY <2>4 DEF MainStep, TickPlans, RenewPlans, RefreshDelivered, FinalDelivered
  <2>5. CASE \E r \in Runners : BackendStep(r)
    BY <2>5 DEF BackendStep, StatusAnswered
  <2>6. CASE WindowStep
    BY <2>6 DEF WindowStep, UiCalls, UiDelivered, UiSees, ShowOrHide, Restart
  <2>7. CASE WorldStep
    BY <2>7 DEF WorldStep, DevicesChange, SetPrefs, Wake
  <2> QED BY <2>1, <2>2, <2>3, <2>4, <2>5, <2>6, <2>7 DEF Next, Event
<1> QED BY <1>0, <1>1, <1>2, <1>3, <1>4, <1>5

\* A status stays sound while the store moves on.
LEMMA SoundOn ==
  ASSUME NEW act \in Activation, NEW recs \in [Apps -> AppStatus],
         NEW later \in [Apps -> AppStatus], Sound(act, recs),
         \A a \in Apps : Follows(recs[a], later[a])
  PROVE  Sound(act, later)
<1> SUFFICES ASSUME act.pc \in WithStatus, NEW a \in Apps
             PROVE  0 < act.st.apps[a].expires /\ Follows(act.st.apps[a], later[a])
  BY DEF Sound
<1>1. act.st.apps[a] \in AppStatus /\ recs[a] \in AppStatus /\ later[a] \in AppStatus
  BY DEF Activation, Status
<1> QED BY <1>1, FollowsOn DEF Sound

\* A step that changes one activation only needs a look at that one.
LEMMA OneSound ==
  ASSUME Inv, AllSound, NEW r \in Runners, NEW act,
         runner' = [runner EXCEPT ![r] = act], Sound(act, records'),
         records' \in [Apps -> AppStatus],
         \A a \in Apps : Follows(records[a], records'[a])
  PROVE  AllSound'
<1> SUFFICES ASSUME NEW s \in Runners
             PROVE  Sound(runner'[s], records')
  BY DEF AllSound
<1>1. CASE s = r
  BY <1>1 DEF Inv, TypeOK
<1>2. CASE s # r
  <2>1. runner'[s] = runner[s] /\ runner[s] \in Activation /\ records \in [Apps -> AppStatus]
    BY <1>2 DEF Inv, TypeOK
  <2>2. Sound(runner[s], records)
    BY DEF AllSound
  <2> QED BY <2>1, <2>2, SoundOn
<1> QED BY <1>1, <1>2

\* An activation that rests, or asks for a status, works with nothing.
LEMMA AskSound ==
  ASSUME NEW pc, pc \notin WithStatus, NEW recs
  PROVE  Sound(Ask(pc), recs) /\ Sound(Idle, recs)
<1>1. pc \notin Renewing /\ "idle" \notin WithStatus /\ "idle" \notin Renewing
  BY DEF WithStatus, Renewing
<1>2. Idle.pc = "idle" /\ Idle.outcome = "ok"
  BY DEF Idle
<1>3. Ask(pc).pc = pc /\ Ask(pc).outcome = "ok"
  BY DEF Ask, Idle
<1> QED BY <1>1, <1>2, <1>3 DEF Sound

\* The loop of runRefreshes goes on with apps of the plan.
LEMMA NextRefreshSound ==
  ASSUME Inv, AllSound, NEW r \in Runners, NEW st \in Status,
         NEW todo \in SUBSET Installed(st), NEW jobs, NEW shown,
         NextRefresh(r, todo, st, jobs, shown), UNCHANGED records,
         \A a \in Apps : /\ 0 < st.apps[a].expires
                         /\ Follows(st.apps[a], records[a])
  PROVE  AllSound'
<1> records \in [Apps -> AppStatus]
  BY DEF Inv, TypeOK
<1>1. \A a \in Apps : Follows(records[a], records'[a])
  BY FollowsOn
<1>2. CASE todo # {} /\ NoJobs(jobs)
  <2>1. PICK a \in todo : runner' = [runner EXCEPT ![r] = Refresh(a, todo, st)]
    BY <1>2 DEF NextRefresh
  <2>2. Sound(Refresh(a, todo, st), records)
    BY DEF Refresh, Sound, Renewing, WithStatus
  <2> QED BY <1>1, <2>1, <2>2, OneSound
<1>3. CASE ~(todo # {} /\ NoJobs(jobs))
  <2>1. runner' = [runner EXCEPT ![r] = Ask("final")]
    BY <1>3 DEF NextRefresh
  <2>2. Sound(Ask("final"), records)
    BY AskSound DEF WithStatus, Renewing
  <2> QED BY <1>1, <2>1, <2>2, OneSound
<1> QED BY <1>2, <1>3

\* The plan renews what is installed.
LEMMA PlanRenewsInstalled ==
  ASSUME NEW st, NEW now, NEW p, NEW mem
  PROVE  /\ Plan(st, now, p, mem).refresh \in SUBSET Installed(st)
         /\ ManualPlan(st, now) \in SUBSET Installed(st)
BY DEF Plan, Due, ManualPlan

\* Every step leaves the activations sound.
LEMMA SoundStep ==
  ASSUME Inv, Dates, AllSound, "person" \notin BackendOutcomes, [Next]_vars
  PROVE  AllSound'
<1> USE DEF world, window, notices
<1>0. /\ \A a \in Apps : Follows(records[a], records'[a])
      /\ records \in [Apps -> AppStatus] /\ records' \in [Apps -> AppStatus]
  <2>1. TypeOK'
    BY InvStep DEF Inv
  <2> QED BY <2>1, RecordsStep DEF Inv, TypeOK
<1>1. CASE UNCHANGED runner
  <2> SUFFICES ASSUME NEW s \in Runners
               PROVE  Sound(runner[s], records')
    BY <1>1 DEF AllSound
  <2>1. runner[s] \in Activation /\ Sound(runner[s], records)
    BY DEF Inv, TypeOK, AllSound
  <2> QED BY <1>0, <2>1, SoundOn
<1>2. ASSUME NEW r \in Runners, Finish(r)
      PROVE  AllSound'
  <2>1. Sound(Idle, records')
    BY AskSound DEF WithStatus, Renewing
  <2> QED BY <1>0, <1>2, <2>1, OneSound DEF Finish
<1>3. ASSUME NEW r \in Runners, runner' = [runner EXCEPT ![r] = Ask("status")]
      PROVE  AllSound'
  <2>1. Sound(Ask("status"), records')
    BY AskSound DEF WithStatus, Renewing
  <2> QED BY <1>0, <1>3, <2>1, OneSound
<1>4. CASE TickPlans
  <2>0. Tick \in Runners
    BY DEF Runners
  <2>1. CASE Finish(Tick)
    BY <1>2, <2>0, <2>1
  <2>2. CASE \E todo \in SUBSET Installed(runner[Tick].st) :
                NextRefresh(Tick, todo, runner[Tick].st, rendererJobs, refreshing)
    <3>1. runner[Tick].st \in Status /\ runner[Tick].pc \in WithStatus
      BY <1>4, <2>0 DEF TickPlans, WithStatus, Inv, TypeOK, Activation
    <3>2. UNCHANGED records
      BY <1>4 DEF TickPlans
    <3>3. \A a \in Apps : /\ 0 < runner[Tick].st.apps[a].expires
                          /\ Follows(runner[Tick].st.apps[a], records[a])
      BY <2>0, <3>1 DEF AllSound, Sound
    <3> QED BY <2>0, <2>2, <3>1, <3>2, <3>3, NextRefreshSound
  <2> QED BY <1>4, <2>1, <2>2, PlanRenewsInstalled DEF TickPlans
<1>5. ASSUME NEW r \in Runners, RenewPlans(r)
      PROVE  AllSound'
  <2>1. CASE Finish(r)
    BY <1>2, <2>1
  <2>2. CASE \E todo \in SUBSET Installed(runner[r].st) :
                NextRefresh(r, todo, runner[r].st, rendererJobs, refreshing)
    <3>1. runner[r].st \in Status /\ runner[r].pc \in WithStatus
      BY <1>5 DEF RenewPlans, WithStatus, Inv, TypeOK, Activation
    <3>2. UNCHANGED records
      BY <1>5 DEF RenewPlans
    <3>3. \A a \in Apps : /\ 0 < runner[r].st.apps[a].expires
                          /\ Follows(runner[r].st.apps[a], records[a])
      BY <3>1 DEF AllSound, Sound
    <3> QED BY <2>2, <3>1, <3>2, <3>3, NextRefreshSound
  <2> QED BY <1>5, <2>1, <2>2, PlanRenewsInstalled DEF RenewPlans
<1>6. ASSUME NEW r \in Runners, RefreshDelivered(r)
      PROVE  AllSound'
  <2>1. /\ runner[r].st \in Status
        /\ runner[r].pc \in WithStatus
        /\ runner[r].todo \in SUBSET Installed(runner[r].st)
    BY <1>6 DEF RefreshDelivered, WithStatus, Renewing, Inv, TypeOK, Activation,
                AllSound, Sound
  <2>2. UNCHANGED records
    BY <1>6 DEF RefreshDelivered
  <2>3. \A a \in Apps : /\ 0 < runner[r].st.apps[a].expires
                        /\ Follows(runner[r].st.apps[a], records[a])
    BY <2>1 DEF AllSound, Sound
  <2> QED BY <1>6, <2>1, <2>2, <2>3, NextRefreshSound DEF RefreshDelivered
<1>7. ASSUME NEW r \in Runners, StatusAnswered(r)
      PROVE  AllSound'
  <2> DEFINE act == [runner[r] EXCEPT
                       !.pc = IF @ = "status" THEN "statusAnswered" ELSE "finalAnswered",
                       !.st = CurrentStatus]
  <2>1. runner' = [runner EXCEPT ![r] = act] /\ records' = records
    BY <1>7 DEF StatusAnswered, Inv, TypeOK
  <2>2. runner[r] \in Activation /\ Sound(runner[r], records)
    BY DEF AllSound, Inv, TypeOK
  <2>3. /\ act.pc \in {"statusAnswered", "finalAnswered"}
        /\ act.st.apps = records /\ act.outcome = runner[r].outcome
    BY <2>2 DEF CurrentStatus, Activation
  <2>4. \A a \in Apps : 0 < records[a].expires /\ Follows(records[a], records[a])
    BY <1>0, FollowsOn DEF Dates
  <2> HIDE DEF act
  <2>5. Sound(act, records)
    BY <2>2, <2>3, <2>4 DEF Sound, Renewing, WithStatus
  <2> QED BY <1>0, <2>1, <2>5, OneSound
<1>8. ASSUME NEW r \in Runners, NEW o \in BackendOutcomes, RefreshAnswered(r, o)
      PROVE  AllSound'
  <2> DEFINE act == [runner[r] EXCEPT !.pc = "refreshAnswered", !.outcome = o]
  <2>1. runner' = [runner EXCEPT ![r] = act] /\ runner[r].pc = "refresh"
    BY <1>8 DEF RefreshAnswered, Inv, TypeOK
  <2>2. runner[r] \in Activation /\ Sound(runner[r], records') /\ o # "person"
    BY <1>0, <1>8, SoundOn DEF AllSound, Inv, TypeOK
  <2>3. /\ act.pc = "refreshAnswered" /\ act.app = runner[r].app
        /\ act.st = runner[r].st /\ act.todo = runner[r].todo /\ act.outcome = o
    BY <2>2 DEF Activation
  <2> HIDE DEF act
  <2>4. Sound(act, records')
    BY <2>1, <2>2, <2>3 DEF Sound, Renewing, WithStatus
  <2> QED BY <1>0, <2>1, <2>4, OneSound
<1>9. CASE BackendDies
  <2> SUFFICES ASSUME NEW s \in Runners
               PROVE  Sound(runner'[s], records')
    BY DEF AllSound
  <2>1. /\ runner'[s] = [runner[s] EXCEPT !.pc = RejectedPc(@)]
        /\ records' = records
        /\ runner[s] \in Activation
    BY <1>9 DEF BackendDies, Inv, TypeOK
  <2>2. /\ runner'[s].pc \in WithStatus => runner[s].pc \in WithStatus
        /\ runner'[s].pc \in Renewing => runner[s].pc \in Renewing
    BY <2>1 DEF RejectedPc, InFlight, WithStatus, Renewing, Activation, Pcs
  <2>3. /\ runner'[s].st = runner[s].st /\ runner'[s].todo = runner[s].todo
        /\ runner'[s].outcome = runner[s].outcome /\ runner'[s].app = runner[s].app
    BY <2>1 DEF Activation
  <2> QED BY <2>1, <2>2, <2>3 DEF AllSound, Sound
<1>10. CASE SilentInstall \/ Relaunch
  <2> SUFFICES ASSUME NEW s \in Runners
               PROVE  Sound(runner'[s], records')
    BY DEF AllSound
  <2>1. runner'[s] = Idle
    BY <1>10 DEF SilentInstall, Relaunch, NewProcess
  <2> QED BY <2>1, AskSound DEF WithStatus, Renewing
<1>11. CASE UNCHANGED vars
  BY <1>1, <1>11 DEF vars
<1>12. CASE \E r \in Runners : CallRejected(r)
  BY <1>2, <1>12 DEF CallRejected
<1>13. CASE TickFires
  BY <1>1, <1>3, <1>13 DEF TickFires, Runners
<1>14. CASE \E r \in Renewals : RenewNow(r)
  BY <1>3, <1>14 DEF RenewNow, Runners
<1>15. CASE \E r \in Runners : MainStep(r)
  BY <1>2, <1>4, <1>5, <1>6, <1>15 DEF MainStep, FinalDelivered
<1>16. CASE \E r \in Runners : BackendStep(r)
  BY <1>7, <1>8, <1>16 DEF BackendStep
<1>17. CASE BackendReady \/ WindowStep \/ UpdateDownloaded \/ WorldStep
  BY <1>1, <1>17
  DEF BackendReady, UpdateDownloaded, WorldStep, TimePasses, DevicesChange,
      ObstacleChanges, SetPrefs, Wake, WindowStep, UiCalls, UiAnswered, UiDelivered,
      UiSees, ShowOrHide, Restart
<1> QED
  BY <1>9, <1>10, <1>11, <1>12, <1>13, <1>14, <1>15, <1>16, <1>17 DEF Next, Event

\* What may become of memory and notices in one step: a sign-in of the window
\* has been answered, or a refresh has ended.
SignedIn == /\ memory' = ForgetBackoff(memory)
            /\ told' = {n \in told : n[1] = "remind"}
            /\ UNCHANGED <<twice, runner, records>>
Settles(r, o) == /\ runner[r].pc \in {"refreshAnswered", "refreshRejected"}
                 /\ o \in {runner[r].outcome, "other"}
                 /\ Settle(r, o)
                 /\ UNCHANGED records

\* Nothing else touches them.
LEMMA NoticesStep ==
  ASSUME [Next]_vars
  PROVE  \/ UNCHANGED <<memory, told, twice>> \/ SignedIn \/ TickPlans
         \/ \E r \in Runners : \E o : Settles(r, o)
<1> USE DEF world, window, notices
<1>1. CASE UNCHANGED vars
  BY <1>1 DEF vars
<1>2. CASE \E r \in Runners : CallRejected(r)
  BY <1>2 DEF CallRejected, Settles, Rejected
<1>3. CASE TickFires \/ (\E r \in Renewals : RenewNow(r)) \/ BackendReady
           \/ BackendDies \/ UpdateDownloaded \/ SilentInstall \/ Relaunch
  BY <1>3 DEF TickFires, RenewNow, BackendReady, BackendDies, UpdateDownloaded,
              SilentInstall, Relaunch, NewProcess
<1>4. CASE \E r \in Runners : MainStep(r)
  BY <1>4 DEF MainStep, RenewPlans, RefreshDelivered, FinalDelivered, Settles
<1>5. CASE \E r \in Runners : BackendStep(r)
  BY <1>5 DEF BackendStep, StatusAnswered, RefreshAnswered
<1>6. ASSUME NEW u \in UiIds, UiDelivered(u)
      PROVE  UNCHANGED <<memory, told, twice>> \/ SignedIn
  BY <1>6 DEF UiDelivered, SignedIn
<1>7. CASE WindowStep
  BY <1>6, <1>7 DEF WindowStep, UiCalls, UiAnswered, UiSees, ShowOrHide, Restart
<1>8. CASE WorldStep
  BY <1>8 DEF WorldStep, TimePasses, DevicesChange, ObstacleChanges, SetPrefs, Wake
<1> QED BY <1>1, <1>2, <1>3, <1>4, <1>5, <1>7, <1>8 DEF Next, Event

\* What the memory notes has been told: an obstacle, and failures that reached
\* the threshold.
Explained(mem, news) ==
  \A a \in Apps :
    /\ mem.blocked[a] # 0 => <<"obstacle", a, mem.blocked[a]>> \in news
    /\ mem.failures[a].count >= FailuresBeforeNotice =>
         \E k \in {"failed", "obstacle"} : <<k, a, mem.failures[a].expires>> \in news

\* The plan of a tick notes an obstacle when it announces it.
LEMMA PlanExplains ==
  ASSUME NEW mem \in Memory, NEW st \in Status, NEW now, NEW p, NEW news,
         Explained(mem, news)
  PROVE  LET res == Plan(st, now, p, mem)
         IN  Explained(res.memory, news \cup (Notice("remind", res.remind, st)
                                         \cup Notice("obstacle", res.blocked, st)))
<1> DEFINE res == Plan(st, now, p, mem)
           all == news \cup (Notice("remind", res.remind, st)
                             \cup Notice("obstacle", res.blocked, st))
<1> SUFFICES ASSUME NEW a \in Apps
             PROVE  /\ res.memory.blocked[a] # 0 =>
                         <<"obstacle", a, res.memory.blocked[a]>> \in all
                    /\ res.memory.failures[a].count >= FailuresBeforeNotice =>
                         \E k \in {"failed", "obstacle"} :
                           <<k, a, res.memory.failures[a].expires>> \in all
  BY DEF Explained
<1>1. /\ res.memory.blocked[a] = IF a \in res.blocked THEN st.apps[a].expires
                                 ELSE Tidy(mem, st).blocked[a]
      /\ res.memory.failures[a] = Tidy(mem, st).failures[a]
  BY TidyType DEF Plan, Memory
<1>2. /\ Tidy(mem, st).blocked[a] \in {mem.blocked[a], 0}
      /\ Tidy(mem, st).failures[a] \in {mem.failures[a], NoFailure}
  BY DEF Tidy, Memory
<1>3. a \in res.blocked => <<"obstacle", a, st.apps[a].expires>> \in all
  BY DEF Notice
<1>4. news \subseteq all
  OBVIOUS
<1>5. ~(NoFailure.count >= FailuresBeforeNotice)
  BY DEF NoFailure, FailuresBeforeNotice
<1> HIDE DEF res, all
<1>6. /\ mem.blocked[a] # 0 => <<"obstacle", a, mem.blocked[a]>> \in all
      /\ mem.failures[a].count >= FailuresBeforeNotice =>
           \E k \in {"failed", "obstacle"} : <<k, a, mem.failures[a].expires>> \in all
  BY <1>4 DEF Explained
<1> QED BY <1>1, <1>2, <1>3, <1>5, <1>6

\* The result res of a refresh, as far as notices go: nothing is noted of
\* another app, and of this one what the announcement says.
ResultSays(mem, a, e, o, res) ==
  LET new == res.memory
      told2 == /\ mem.failures[a].expires = e
               /\ mem.failures[a].count >= FailuresBeforeNotice
  IN  /\ \A b \in Apps : b # a => /\ new.blocked[b] = mem.blocked[b]
                                  /\ new.failures[b] = mem.failures[b]
      /\ new.reminded = mem.reminded
      /\ o = "ok" => /\ new.blocked[a] = 0 /\ new.failures[a] = NoFailure
                     /\ res.notify = "none"
      /\ o \in {"cancelled", "deviceNotFound"} =>
           /\ new.blocked = mem.blocked /\ new.failures = mem.failures
           /\ res.notify = "none"
      /\ o \notin {"ok", "cancelled", "deviceNotFound"} =>
           /\ new.failures[a].expires = e
           /\ new.failures[a].count >= FailuresBeforeNotice =>
                o = "signIn" \/ res.notify = "failed" \/ told2
           /\ told2 => /\ new.failures[a].count >= FailuresBeforeNotice
                       /\ res.notify # "failed"
      /\ o = "signIn" =>
           /\ new.blocked[a] = e
           /\ res.notify = IF mem.blocked[a] = e THEN "none" ELSE "signIn"
      /\ o \notin {"ok", "signIn"} => /\ new.blocked = mem.blocked
                                      /\ res.notify \in {"none", "failed"}
      /\ res.notify = "failed" =>
           /\ new.failures[a].expires = e
           /\ new.failures[a].count >= FailuresBeforeNotice

\* onRefreshResult does that, unless the error needs a person.
LEMMA ResultFacts ==
  ASSUME NEW mem \in Memory, NEW a \in Apps, NEW e \in Nat,
         NEW o \in Outcomes \ {"person"}, NEW now \in Nat
  PROVE  ResultSays(mem, a, e, o, OnRefreshResult(mem, a, e, o, now))
<1> DEFINE res == OnRefreshResult(mem, a, e, o, now)
           prev == IF mem.failures[a].expires = e THEN mem.failures[a].count ELSE 0
           count == IF prev < CountCap THEN prev + 1 ELSE CountCap
           failed == [mem EXCEPT !.failures[a] = [expires |-> e, count |-> count]]
<1> SUFFICES ResultSays(mem, a, e, o, res)
  OBVIOUS
<1>1. CASE o = "ok"
  BY <1>1 DEF OnRefreshResult, Memory, ResultSays, NoFailure, FailuresBeforeNotice, Failure
<1>2. CASE o \in {"cancelled", "deviceNotFound"}
  BY <1>2 DEF OnRefreshResult, Memory, ResultSays
<1>3. CASE o \notin {"ok", "cancelled", "deviceNotFound"}
  <2>1. prev \in Nat /\ count \in Nat /\ mem.failures[a] \in Failure
    BY DEF Memory, Failure, CountCap, FailuresBeforeNotice
  <2>2. /\ prev >= FailuresBeforeNotice => count >= FailuresBeforeNotice /\ count # 2
        /\ count >= FailuresBeforeNotice /\ count # 2 => prev >= FailuresBeforeNotice
    BY <2>1 DEF CountCap, FailuresBeforeNotice
  <2>3. prev >= FailuresBeforeNotice <=>
          mem.failures[a].expires = e /\ mem.failures[a].count >= FailuresBeforeNotice
    BY <2>1 DEF Failure, FailuresBeforeNotice
  <2>4. res = Counted(mem, a, e, o, now)
    BY <1>3 DEF OnRefreshResult
  <2> HIDE DEF prev, count
  <2>5. /\ failed.failures[a] = [expires |-> e, count |-> count]
        /\ \A b \in Apps : b # a => failed.failures[b] = mem.failures[b]
        /\ failed.blocked = mem.blocked /\ failed.reminded = mem.reminded
        /\ failed.nextTryAt = mem.nextTryAt
        /\ failed.blocked \in [Apps -> Nat]
    BY DEF Memory
  <2>6. CASE o = "signIn"
    <3>1. /\ res.memory = [failed EXCEPT !.nextTryAt[a] = now + SignInRetry,
                                         !.blocked[a] = e]
          /\ res.notify = IF mem.blocked[a] = e THEN "none" ELSE "signIn"
      BY <2>4, <2>6 DEF Counted, failed, count, prev
    <3>2. /\ res.memory.failures = failed.failures
          /\ res.memory.reminded = failed.reminded
          /\ res.memory.blocked = [failed.blocked EXCEPT ![a] = e]
      BY <3>1 DEF Memory
    <3> HIDE DEF res, failed
    <3> QED BY <2>2, <2>3, <2>5, <2>6, <3>1, <3>2 DEF ResultSays
  <2>7. CASE o # "signIn"
    <3>1. /\ res.memory = [failed EXCEPT !.nextTryAt[a] =
                             now + IF o = "rateLimited" THEN RateRetry ELSE Retry]
          /\ res.notify = IF Announced(count, o) THEN "failed" ELSE "none"
      BY <2>4, <2>7 DEF Counted, failed, count, prev
    <3>2. /\ res.memory.failures = failed.failures
          /\ res.memory.reminded = failed.reminded
          /\ res.memory.blocked = failed.blocked
      BY <3>1 DEF Memory
    <3>3. Announced(count, o) <=> count = 2
      BY DEF Announced, FailuresBeforeNotice
    <3>4. count = 2 => count >= FailuresBeforeNotice
      BY DEF FailuresBeforeNotice
    <3> HIDE DEF res, failed
    <3> QED BY <1>3, <2>2, <2>3, <2>5, <2>7, <3>1, <3>2, <3>3, <3>4
       DEF ResultSays
  <2> QED BY <2>6, <2>7
<1> QED BY <1>1, <1>2, <1>3

\* What an activation that ends a refresh knows.
LEMMA SettlesType ==
  ASSUME Inv, AllSound, NEW r \in Runners, NEW o, Settles(r, o)
  PROVE  /\ memory \in Memory /\ clock \in Nat /\ o \in Outcomes \ {"person"}
         /\ runner[r].st \in Status /\ runner[r].pc \in Renewing
         /\ runner[r].app \in Apps /\ runner[r].st.apps[runner[r].app].installed
         /\ runner[r].st.apps[runner[r].app].expires \in Nat \ {0}
<1>1. /\ runner[r] \in Activation /\ memory \in Memory /\ clock \in Nat
      /\ Sound(runner[r], records)
  BY DEF Inv, TypeOK, AllSound
<1>2. runner[r].pc \in Renewing /\ runner[r].pc \in WithStatus
  BY DEF Settles, Renewing, WithStatus
<1>3. runner[r].app \in Apps /\ runner[r].st.apps[runner[r].app].installed
  BY <1>1, <1>2 DEF Sound, Installed
<1>4. runner[r].st.apps[runner[r].app].expires \in Nat \ {0}
  BY <1>1, <1>2, <1>3 DEF Sound, Activation, Status, AppStatus
<1>5. o \in Outcomes \ {"person"}
  BY <1>1 DEF Settles, Sound, Activation, Outcomes, Errors
<1> QED BY <1>1, <1>2, <1>3, <1>4, <1>5 DEF Activation

\* The end of a refresh announces what it notes.
LEMMA SettleExplains ==
  ASSUME Inv, AllSound, Explained(memory, told), NEW r \in Runners, NEW o, Settles(r, o)
  PROVE  Explained(memory', told')
<1> DEFINE a == runner[r].app
           e == runner[r].st.apps[a].expires
           res == OnRefreshResult(memory, a, e, o, clock)
           news == CASE res.notify = "failed" -> {<<"failed", a, e>>}
                     [] res.notify = "signIn" -> {<<"obstacle", a, e>>}
                     [] OTHER -> {}
           void == IF o = "ok" THEN {"failed", "obstacle"} \X {a} \X {e} ELSE {}
<1>1. /\ memory' = res.memory
      /\ told' = (told \ void) \cup news
  BY DEF Settles, Settle
<1>2. a \in Apps /\ e # 0 /\ memory \in Memory /\ ResultSays(memory, a, e, o, res)
  BY SettlesType, ResultFacts
<1>3. /\ res.notify = "failed" => <<"failed", a, e>> \in told'
      /\ res.notify = "signIn" => <<"obstacle", a, e>> \in told'
  BY <1>1
<1>4. /\ o # "ok" => told \subseteq told'
      /\ \A n \in told : n[2] # a => n \in told'
  BY <1>1
<1>5. ~(NoFailure.count >= FailuresBeforeNotice)
  BY DEF NoFailure, FailuresBeforeNotice
<1> SUFFICES ASSUME NEW b \in Apps
             PROVE  /\ memory'.blocked[b] # 0 => <<"obstacle", b, memory'.blocked[b]>> \in told'
                    /\ memory'.failures[b].count >= FailuresBeforeNotice =>
                         \E k \in {"failed", "obstacle"} :
                           <<k, b, memory'.failures[b].expires>> \in told'
  BY DEF Explained
<1>6. /\ memory.blocked[b] # 0 => <<"obstacle", b, memory.blocked[b]>> \in told
      /\ memory.failures[b].count >= FailuresBeforeNotice =>
           \E k \in {"failed", "obstacle"} : <<k, b, memory.failures[b].expires>> \in told
  BY DEF Explained
<1> HIDE DEF a, e, res, news, void
<1>7. CASE b # a
  <2>1. /\ memory'.blocked[b] = memory.blocked[b]
        /\ memory'.failures[b] = memory.failures[b]
    BY <1>1, <1>2, <1>7 DEF ResultSays
  <2> QED BY <1>4, <1>6, <1>7, <2>1
<1>8. CASE b = a /\ o = "ok"
  BY <1>1, <1>2, <1>5, <1>8 DEF ResultSays
<1>9. CASE b = a /\ o \in {"cancelled", "deviceNotFound"}
  <2>1. memory'.blocked = memory.blocked /\ memory'.failures = memory.failures
    BY <1>1, <1>2, <1>9 DEF ResultSays
  <2> QED BY <1>4, <1>6, <1>9, <2>1
<1>10. CASE b = a /\ o = "signIn"
  <2>1. /\ memory'.blocked[a] = e /\ memory'.failures[a].expires = e
        /\ res.notify = IF memory.blocked[a] = e THEN "none" ELSE "signIn"
    BY <1>1, <1>2, <1>10 DEF ResultSays
  <2>2. <<"obstacle", a, e>> \in told'
    BY <1>2, <1>3, <1>4, <1>6, <1>10, <2>1
  <2> QED BY <1>10, <2>1, <2>2
<1>11. CASE b = a /\ o \notin {"ok", "cancelled", "deviceNotFound", "signIn"}
  <2>1. /\ memory'.blocked = memory.blocked /\ memory'.failures[a].expires = e
        /\ memory'.failures[a].count >= FailuresBeforeNotice =>
             \/ res.notify = "failed"
             \/ /\ memory.failures[a].expires = e
                /\ memory.failures[a].count >= FailuresBeforeNotice
    BY <1>1, <1>2, <1>11 DEF ResultSays
  <2> QED BY <1>3, <1>4, <1>6, <1>11, <2>1
<1> QED BY <1>7, <1>8, <1>9, <1>10, <1>11

\* So every step keeps what is noted explained.
LEMMA ExplainedStep ==
  ASSUME Inv, AllSound, Explained(memory, told), [Next]_vars
  PROVE  Explained(memory', told')
<1>1. CASE UNCHANGED <<memory, told, twice>>
  BY <1>1 DEF Explained
<1>2. CASE SignedIn
  <2>1. /\ memory'.blocked = EmptyMemory.blocked
        /\ memory'.failures = EmptyMemory.failures
    BY <1>2 DEF SignedIn, ForgetBackoff, Inv, TypeOK, Memory
  <2> QED BY <2>1 DEF Explained, EmptyMemory, NoFailure, FailuresBeforeNotice
<1>3. CASE TickPlans
  <2> DEFINE st == runner[Tick].st
             res == Plan(st, clock, prefs, memory)
  <2>1. /\ memory' = res.memory
        /\ told' = told \cup (Notice("remind", res.remind, st)
                              \cup Notice("obstacle", res.blocked, st))
    BY <1>3 DEF TickPlans, Tell
  <2>2. memory \in Memory /\ st \in Status
    BY DEF Inv, TypeOK, Activation, Runners
  <2> HIDE DEF st
  <2> QED BY <2>1, <2>2, PlanExplains
<1>4. CASE \E r \in Runners : \E o : Settles(r, o)
  BY <1>4, SettleExplains
<1> QED BY <1>1, <1>2, <1>3, <1>4, NoticesStep

\* Dates, activations and notices are right together.
LEMMA InitNotices == Init => Dates /\ AllSound /\ Explained(memory, told)
<1> SUFFICES ASSUME Init
             PROVE  Dates /\ AllSound /\ Explained(memory, told)
  OBVIOUS
<1> Lifetime \in Nat /\ Start \in Nat \ {0}
  BY DaemonAssumption
<1>1. \A a \in Apps : records[a].expires = Start + Lifetime /\ clock = Start
  BY DEF Init, Fresh
<1>2. Dates
  BY <1>1 DEF Dates
<1>3. AllSound
  BY AskSound DEF AllSound, Init, WithStatus, Renewing
<1>4. Explained(memory, told)
  BY DEF Init, Explained, EmptyMemory, NoFailure, FailuresBeforeNotice
<1> QED BY <1>2, <1>3, <1>4

\* The invariant behind both theorems about notices.
LEMMA NoticesInvariant ==
  ASSUME "person" \notin BackendOutcomes
  PROVE  Spec => [](Inv /\ Dates /\ AllSound /\ Explained(memory, told))
<1>1. Inv /\ Dates /\ AllSound /\ Explained(memory, told) /\ [Next]_vars
        => Dates' /\ AllSound' /\ Explained(memory, told)'
  BY RecordsStep, SoundStep, ExplainedStep
<1> QED BY Invariant, InitNotices, <1>1, PTL DEF Spec

\* Whoever's app has failed FAILURES_BEFORE_NOTICE times in a row for one
\* expiry date has been told why, whatever "Renew now", sign-ins, relaunches and
\* a dying backend did in between - as long as no failure is of the kind that is
\* announced at once: those share the counter (run DaemonPerson).
THEOREM RepeatedFailureIsTold ==
  ASSUME "person" \notin BackendOutcomes
  PROVE  Spec => []RepeatedFailureTold
<1>1. Explained(memory, told) => RepeatedFailureTold
  BY DEF Explained, RepeatedFailureTold
<1> QED BY NoticesInvariant, <1>1, PTL

(***************************************************************************)
(* Nobody is told anything twice.  Each notice has a marker in the memory  *)
(* file, which is kept until the app has another expiry date or is gone.   *)
(* With "Renew now" a second activation works with a status of its own,    *)
(* maybe an old one, and a notice can come back for an expiry date the     *)
(* tick has left behind: the theorem is about the tick alone.              *)
(***************************************************************************)

Kinds == {"remind", "obstacle", "failed"}

\* The marker of a notice.
Marked(mem, k, a, e) ==
  CASE k = "remind" -> mem.reminded[a] = e
    [] k = "obstacle" -> mem.blocked[a] = e
    [] OTHER -> /\ mem.failures[a].expires = e
                /\ mem.failures[a].count >= FailuresBeforeNotice

\* The record x of an app will never be renewed for the expiry date e again.
Past(e, x) == e < x.expires \/ (e = x.expires /\ ~x.installed)

\* Seen with these records, each notice is marked or a thing of the past.
Remembered(mem, news, recs) ==
  \A k \in Kinds, a \in Apps, e \in Nat : <<k, a, e>> \in news =>
    e <= recs[a].expires /\ (Marked(mem, k, a, e) \/ Past(e, recs[a]))

Noted ==
  /\ twice = {}
  /\ told \subseteq Kinds \X Apps \X Nat
  /\ Remembered(memory, told, records)
  /\ runner[Tick].pc \in WithStatus =>
       Remembered(memory, told, runner[Tick].st.apps)

\* What is remembered stays so with later records.
LEMMA RememberedOn ==
  ASSUME NEW mem, NEW news, NEW recs \in [Apps -> AppStatus],
         NEW later \in [Apps -> AppStatus], Remembered(mem, news, recs),
         \A a \in Apps : Follows(recs[a], later[a])
  PROVE  Remembered(mem, news, later)
<1> SUFFICES ASSUME NEW k \in Kinds, NEW a \in Apps, NEW e \in Nat, <<k, a, e>> \in news
             PROVE  e <= later[a].expires /\ (Marked(mem, k, a, e) \/ Past(e, later[a]))
  BY DEF Remembered
<1>1. e <= recs[a].expires /\ (Marked(mem, k, a, e) \/ Past(e, recs[a]))
  BY DEF Remembered
<1>2. Follows(recs[a], later[a]) /\ recs[a] \in AppStatus /\ later[a] \in AppStatus
  OBVIOUS
<1> HIDE DEF Marked
<1> QED BY <1>1, <1>2 DEF Follows, Past, AppStatus

\* The plan of a tick announces nothing that is still marked, and marks what
\* it announces.
LEMMA PlanRemembers ==
  ASSUME NEW mem \in Memory, NEW st \in Status, NEW now, NEW p,
         NEW news \in SUBSET (Kinds \X Apps \X Nat), Remembered(mem, news, st.apps)
  PROVE  LET res == Plan(st, now, p, mem)
             more == Notice("remind", res.remind, st)
                     \cup Notice("obstacle", res.blocked, st)
         IN  /\ more \cap news = {}
             /\ news \cup more \in SUBSET (Kinds \X Apps \X Nat)
             /\ Remembered(res.memory, news \cup more, st.apps)
<1> DEFINE res == Plan(st, now, p, mem)
           tidy == Tidy(mem, st)
           more == Notice("remind", res.remind, st)
                   \cup Notice("obstacle", res.blocked, st)
<1>1. /\ res.remind \subseteq Installed(st) /\ res.blocked \subseteq Installed(st)
      /\ \A a \in res.remind : tidy.reminded[a] # st.apps[a].expires
      /\ \A a \in res.blocked : tidy.blocked[a] # st.apps[a].expires
  BY DEF Plan, ToMark, Due
<1>2. \A a \in Apps :
        /\ \/ res.memory.reminded[a] = st.apps[a].expires
           \/ a \notin res.remind /\ res.memory.reminded[a] = tidy.reminded[a]
        /\ res.memory.blocked[a] = IF a \in res.blocked THEN st.apps[a].expires
                                   ELSE tidy.blocked[a]
        /\ res.memory.failures[a] = tidy.failures[a]
  <2>1. /\ tidy \in Memory
        /\ res.remind \subseteq ToMark(tidy, st, now, p)
    BY TidyType DEF Plan
  <2>2. /\ res.memory.reminded = [a \in Apps |->
              IF a \in ToMark(tidy, st, now, p) THEN st.apps[a].expires
              ELSE tidy.reminded[a]]
        /\ res.memory.blocked = [a \in Apps |->
              IF a \in res.blocked THEN st.apps[a].expires ELSE tidy.blocked[a]]
        /\ res.memory.failures = tidy.failures
    BY <2>1 DEF Plan, Memory
  <2> QED BY <2>1, <2>2
<1>3. \A a \in Installed(st) :
        /\ mem.reminded[a] = st.apps[a].expires => tidy.reminded[a] = mem.reminded[a]
        /\ mem.blocked[a] = st.apps[a].expires => tidy.blocked[a] = mem.blocked[a]
        /\ mem.failures[a].expires = st.apps[a].expires =>
             tidy.failures[a] = mem.failures[a]
  BY DEF Tidy, Memory, Installed
<1>4. \A k, a, e : <<k, a, e>> \in more =>
        /\ a \in Installed(st) /\ e = st.apps[a].expires
        /\ \/ k = "remind" /\ a \in res.remind
           \/ k = "obstacle" /\ a \in res.blocked
  BY <1>1 DEF Notice
<1>5. more \in SUBSET (Kinds \X Apps \X Nat)
  BY <1>1 DEF Notice, Kinds, Installed, Status, AppStatus
<1>6. \A k \in Kinds, a \in Installed(st) :
        <<k, a, st.apps[a].expires>> \in news => Marked(mem, k, a, st.apps[a].expires)
  BY DEF Remembered, Past, Installed, Status, AppStatus
<1> HIDE DEF res, tidy, more
<1>7. more \cap news = {}
  <2> SUFFICES ASSUME NEW k \in Kinds, NEW a \in Apps, NEW e \in Nat,
                      <<k, a, e>> \in more, <<k, a, e>> \in news
               PROVE  FALSE
    BY <1>5
  <2>1. Marked(mem, k, a, e) /\ a \in Installed(st) /\ e = st.apps[a].expires
    BY <1>4, <1>6
  <2> QED BY <1>1, <1>3, <1>4, <2>1 DEF Marked
<1>8. Remembered(res.memory, news \cup more, st.apps)
  <2> SUFFICES ASSUME NEW k \in Kinds, NEW a \in Apps, NEW e \in Nat,
                      <<k, a, e>> \in news \cup more
               PROVE  /\ e <= st.apps[a].expires
                      /\ Marked(res.memory, k, a, e) \/ Past(e, st.apps[a])
    BY DEF Remembered
  <2>0. st.apps[a].expires \in Nat /\ st.apps[a] \in AppStatus
    BY DEF Status, AppStatus
  <2>1. CASE <<k, a, e>> \in more
    <3>1. e = st.apps[a].expires /\ a \in Installed(st)
      BY <1>4, <2>1
    <3>2. CASE k = "remind"
      BY <1>2, <1>4, <2>0, <2>1, <3>1, <3>2 DEF Marked
    <3>3. CASE k = "obstacle"
      BY <1>2, <1>4, <2>0, <2>1, <3>1, <3>3 DEF Marked
    <3> QED BY <1>4, <2>1, <3>2, <3>3
  <2>2. CASE <<k, a, e>> \in news
    <3>1. e <= st.apps[a].expires /\ (Marked(mem, k, a, e) \/ Past(e, st.apps[a]))
      BY <2>2 DEF Remembered
    <3>2. CASE e = st.apps[a].expires /\ a \in Installed(st)
      <4>1. Marked(mem, k, a, e)
        BY <1>6, <2>2, <3>2
      <4> QED BY <1>2, <1>3, <3>1, <3>2, <4>1 DEF Marked
    <3>3. CASE e # st.apps[a].expires \/ a \notin Installed(st)
      <4>1. Past(e, st.apps[a])
        BY <2>0, <3>1, <3>3 DEF Past, Installed
      <4> QED BY <3>1, <4>1
    <3> QED BY <3>2, <3>3
  <2> QED BY <2>1, <2>2
<1> QED BY <1>5, <1>7, <1>8 DEF res, more

\* Neither does the end of a refresh, seen with the status it was planned with.
LEMMA SettleRemembers ==
  ASSUME Inv, AllSound, NEW r \in Runners, NEW o, Settles(r, o),
         told \in SUBSET (Kinds \X Apps \X Nat), twice = {},
         Remembered(memory, told, runner[r].st.apps)
  PROVE  /\ twice' = {} /\ told' \in SUBSET (Kinds \X Apps \X Nat)
         /\ Remembered(memory', told', runner[r].st.apps)
<1> DEFINE a == runner[r].app
           recs == runner[r].st.apps
           e == recs[a].expires
           res == OnRefreshResult(memory, a, e, o, clock)
           news == CASE res.notify = "failed" -> {<<"failed", a, e>>}
                     [] res.notify = "signIn" -> {<<"obstacle", a, e>>}
                     [] OTHER -> {}
           void == IF o = "ok" THEN {"failed", "obstacle"} \X {a} \X {e} ELSE {}
<1>1. /\ memory' = res.memory
      /\ told' = (told \ void) \cup news
      /\ twice' = twice \cup (news \cap told)
  BY DEF Settles, Settle
<1>2. /\ a \in Apps /\ e \in Nat /\ recs[a].installed /\ recs \in [Apps -> AppStatus]
      /\ ResultSays(memory, a, e, o, res)
  BY SettlesType, ResultFacts DEF Status
<1>3. /\ \A k \in Kinds : <<k, a, e>> \in told => Marked(memory, k, a, e)
      /\ \A k \in Kinds, b \in Apps, f \in Nat : <<k, b, f>> \in told =>
           f <= recs[b].expires /\ (Marked(memory, k, b, f) \/ Past(f, recs[b]))
  BY <1>2 DEF Remembered, Past, AppStatus
<1>4. /\ \A n \in news : \/ n = <<"failed", a, e>> /\ res.notify = "failed"
                         \/ n = <<"obstacle", a, e>> /\ res.notify = "signIn"
      /\ res.notify = "failed" => <<"failed", a, e>> \in news
      /\ res.notify = "signIn" => <<"obstacle", a, e>> \in news
  OBVIOUS
<1>5. void = IF o = "ok" THEN {"failed", "obstacle"} \X {a} \X {e} ELSE {}
  OBVIOUS
<1> HIDE DEF a, recs, e, res, news, void
<1>6. news \cap told = {}
  <2>1. ~(<<"failed", a, e>> \in told /\ res.notify = "failed")
    <3> SUFFICES ASSUME <<"failed", a, e>> \in told, res.notify = "failed"
                 PROVE  FALSE
      OBVIOUS
    <3>1. Marked(memory, "failed", a, e)
      BY <1>3 DEF Kinds
    <3> QED BY <1>2, <3>1 DEF Marked, ResultSays
  <2>2. ~(<<"obstacle", a, e>> \in told /\ res.notify = "signIn")
    <3> SUFFICES ASSUME <<"obstacle", a, e>> \in told, res.notify = "signIn"
                 PROVE  FALSE
      OBVIOUS
    <3>1. Marked(memory, "obstacle", a, e)
      BY <1>3 DEF Kinds
    <3> QED BY <1>2, <3>1 DEF Marked, ResultSays
  <2> QED BY <1>4, <2>1, <2>2
<1>7. told' \in SUBSET (Kinds \X Apps \X Nat)
  BY <1>1, <1>2, <1>4 DEF Kinds
<1>8. ASSUME NEW k \in Kinds, NEW b \in Apps, NEW f \in Nat, <<k, b, f>> \in told'
      PROVE  f <= recs[b].expires /\ (Marked(memory', k, b, f) \/ Past(f, recs[b]))
  <2>1. CASE <<k, b, f>> \in news
    <3>1. /\ b = a /\ f = e
          /\ \/ k = "failed" /\ res.notify = "failed"
             \/ k = "obstacle" /\ res.notify = "signIn"
      <4>1. \/ <<k, b, f>> = <<"failed", a, e>> /\ res.notify = "failed"
            \/ <<k, b, f>> = <<"obstacle", a, e>> /\ res.notify = "signIn"
        BY <1>4, <2>1
      <4> QED BY <4>1
    <3>2. Marked(memory', k, b, f)
      BY <1>1, <1>2, <3>1 DEF Marked, ResultSays
    <3> QED BY <1>2, <3>1, <3>2 DEF e
  <2>2. CASE <<k, b, f>> \in told /\ <<k, b, f>> \notin void
    <3>1. f <= recs[b].expires /\ (Marked(memory, k, b, f) \/ Past(f, recs[b]))
      BY <1>3, <2>2
    <3>2. CASE b # a
      BY <1>1, <1>2, <3>1, <3>2 DEF Marked, ResultSays
    <3>3. CASE b = a /\ f # e
      BY <1>2, <3>1, <3>3 DEF Past, e, AppStatus
    <3>4. CASE b = a /\ f = e
      <4>1. Marked(memory, k, a, e)
        BY <1>3, <2>2, <3>4
      <4>2. k = "remind" \/ o # "ok"
        BY <1>5, <2>2, <3>4 DEF Kinds
      <4>3. CASE k = "remind"
        BY <1>1, <1>2, <3>1, <3>4, <4>1, <4>3 DEF Marked, ResultSays
      <4>4. CASE k = "obstacle" /\ o # "ok"
        BY <1>1, <1>2, <3>1, <3>4, <4>1, <4>4 DEF Marked, ResultSays
      <4>5. CASE k = "failed" /\ o # "ok"
        BY <1>1, <1>2, <3>1, <3>4, <4>1, <4>5 DEF Marked, ResultSays
      <4> QED BY <4>2, <4>3, <4>4, <4>5 DEF Kinds
    <3> QED BY <3>2, <3>3, <3>4
  <2> QED BY <1>1, <1>8, <2>1, <2>2
<1> QED BY <1>1, <1>6, <1>7, <1>8 DEF Remembered, recs

\* A tick goes on with the status it has, or takes the store's.
LEMMA StatusStep ==
  ASSUME Inv, [Next]_vars, runner'[Tick].pc \in WithStatus
  PROVE  \/ runner[Tick].pc \in WithStatus /\ runner'[Tick].st = runner[Tick].st
         \/ runner'[Tick].st.apps = records /\ UNCHANGED <<memory, told, twice, records>>
<1> USE DEF world, window, notices
<1> DEFINE Kept == /\ runner[Tick].pc \in WithStatus
                   /\ runner'[Tick].st = runner[Tick].st
<1>0. /\ Tick \in Runners /\ runner[Tick] \in Activation
      /\ runner \in [Runners -> Activation]
  BY DEF Runners, Inv, TypeOK
<1>1. ~(Idle.pc \in WithStatus) /\ \A pc : Ask(pc).pc = pc
  BY DEF Idle, Ask, WithStatus, Renewing
<1>2. CASE runner'[Tick] = runner[Tick]
  BY <1>2
<1>3. ASSUME NEW r \in Runners, NEW act, runner' = [runner EXCEPT ![r] = act],
             r = Tick => act.pc \notin WithStatus
      PROVE  Kept
  BY <1>0, <1>3
<1>4. ASSUME NEW r \in Runners, NEW todo, NEW jobs, NEW shown,
             runner[r].pc \in WithStatus,
             NextRefresh(r, todo, runner[r].st, jobs, shown)
      PROVE  Kept
  <2>1. CASE \E a \in todo : runner' = [runner EXCEPT ![r] = Refresh(a, todo, runner[r].st)]
    <3>1. PICK a \in todo : runner' = [runner EXCEPT ![r] = Refresh(a, todo, runner[r].st)]
      BY <2>1
    <3>2. Refresh(a, todo, runner[r].st).st = runner[r].st
      BY DEF Refresh
    <3> HIDE DEF Refresh
    <3> QED BY <1>0, <1>4, <3>1, <3>2
  <2>2. CASE runner' = [runner EXCEPT ![r] = Ask("final")]
    BY <1>1, <1>3, <2>2 DEF WithStatus, Renewing
  <2> QED BY <1>4, <2>1, <2>2 DEF NextRefresh
<1>5. ASSUME NEW r \in Runners, Finish(r)
      PROVE  Kept
  BY <1>1, <1>3, <1>5 DEF Finish
<1>6. CASE TickPlans
  <2>1. runner[Tick].pc \in WithStatus
    BY <1>6 DEF TickPlans, WithStatus
  <2>2. \/ Finish(Tick)
        \/ \E todo : NextRefresh(Tick, todo, runner[Tick].st, rendererJobs, refreshing)
    BY <1>6 DEF TickPlans
  <2> QED BY <1>0, <1>4, <1>5, <2>1, <2>2
<1>7. ASSUME NEW r \in Runners, RenewPlans(r)
      PROVE  Kept
  <2>1. runner[r].pc \in WithStatus
    BY <1>7 DEF RenewPlans, WithStatus
  <2>2. \/ Finish(r)
        \/ \E todo : NextRefresh(r, todo, runner[r].st, rendererJobs, refreshing)
    BY <1>7 DEF RenewPlans
  <2> QED BY <1>4, <1>5, <2>1, <2>2
<1>8. ASSUME NEW r \in Runners, RefreshDelivered(r)
      PROVE  Kept
  <2>1. /\ runner[r].pc \in WithStatus
        /\ NextRefresh(r, runner[r].todo, runner[r].st, rendererJobs, None)
    BY <1>8 DEF RefreshDelivered, WithStatus, Renewing
  <2> QED BY <1>4, <2>1
<1>9. ASSUME NEW r \in Runners, StatusAnswered(r)
      PROVE  \/ Kept
             \/ runner'[Tick].st.apps = records /\ UNCHANGED <<memory, told, twice, records>>
  <2>1. UNCHANGED <<memory, told, twice, records>>
    BY <1>9 DEF StatusAnswered
  <2>2. CASE r = Tick
    <3>1. runner'[Tick].st = CurrentStatus
      BY <1>0, <1>9, <2>2 DEF StatusAnswered, Activation
    <3> QED BY <2>1, <3>1 DEF CurrentStatus
  <2>3. CASE r # Tick
    BY <1>0, <1>9, <2>3 DEF StatusAnswered
  <2> QED BY <2>2, <2>3
<1>10. ASSUME NEW r \in Runners, NEW o, RefreshAnswered(r, o)
       PROVE  Kept
  <2>1. CASE r = Tick
    BY <1>0, <1>10, <2>1 DEF RefreshAnswered, Activation, WithStatus, Renewing
  <2>2. CASE r # Tick
    BY <1>0, <1>10, <2>2 DEF RefreshAnswered
  <2> QED BY <2>1, <2>2
<1>11. CASE BackendDies
  <2>1. runner'[Tick] = [runner[Tick] EXCEPT !.pc = RejectedPc(@)]
    BY <1>0, <1>11 DEF BackendDies
  <2>2. runner'[Tick].pc = RejectedPc(runner[Tick].pc) /\ runner'[Tick].st = runner[Tick].st
    BY <1>0, <2>1 DEF Activation
  <2>3. runner[Tick].pc \in WithStatus
    BY <1>0, <2>2 DEF RejectedPc, InFlight, WithStatus, Renewing, Activation, Pcs
  <2> QED BY <2>2, <2>3
<1>12. CASE SilentInstall \/ Relaunch
  BY <1>0, <1>1, <1>12 DEF SilentInstall, Relaunch, NewProcess
<1>13. CASE UNCHANGED vars
  BY <1>2, <1>13 DEF vars
<1>14. CASE \E r \in Runners : CallRejected(r)
  BY <1>5, <1>14 DEF CallRejected
<1>15. CASE TickFires
  BY <1>0, <1>1, <1>2, <1>3, <1>15 DEF TickFires, WithStatus, Renewing
<1>16. CASE \E r \in Renewals : RenewNow(r)
  BY <1>1, <1>3, <1>16 DEF RenewNow, Runners, WithStatus, Renewing
<1>17. CASE \E r \in Runners : MainStep(r)
  BY <1>5, <1>6, <1>7, <1>8, <1>17 DEF MainStep, FinalDelivered
<1>18. CASE \E r \in Runners : BackendStep(r)
  BY <1>9, <1>10, <1>18 DEF BackendStep
<1>19. CASE BackendReady \/ WindowStep \/ UpdateDownloaded \/ WorldStep
  <2>1. UNCHANGED runner
    BY <1>19
    DEF BackendReady, UpdateDownloaded, WorldStep, TimePasses, DevicesChange,
        ObstacleChanges, SetPrefs, Wake, WindowStep, UiCalls, UiAnswered, UiDelivered,
        UiSees, ShowOrHide, Restart
  <2> QED BY <1>2, <2>1
<1> HIDE DEF Kept
<1>20. Kept \/ (runner'[Tick].st.apps = records /\ UNCHANGED <<memory, told, twice, records>>)
  BY <1>11, <1>12, <1>13, <1>14, <1>15, <1>16, <1>17, <1>18, <1>19 DEF Next, Event, Kept
<1> QED BY <1>20 DEF Kept

\* Memory and notices change so that everything told stays remembered, with
\* the status of the tick and with the store.
LEMMA NotedStep ==
  ASSUME Renewals = {}, Inv, Dates, AllSound, Noted, [Next]_vars
  PROVE  Noted'
<1>0. /\ records \in [Apps -> AppStatus] /\ records' \in [Apps -> AppStatus]
      /\ \A a \in Apps : Follows(records[a], records'[a])
      /\ told \in SUBSET (Kinds \X Apps \X Nat) /\ twice = {}
      /\ Tick \in Runners /\ memory \in Memory
  <2>1. TypeOK'
    BY InvStep DEF Inv
  <2> QED BY <2>1, RecordsStep DEF Inv, TypeOK, Noted, Runners
<1>1. runner[Tick].pc \in WithStatus =>
        /\ runner[Tick].st \in Status /\ runner[Tick].st.apps \in [Apps -> AppStatus]
        /\ \A a \in Apps : Follows(runner[Tick].st.apps[a], records[a])
        /\ Remembered(memory, told, runner[Tick].st.apps)
  BY <1>0 DEF Noted, AllSound, Sound, Inv, TypeOK, Activation, Status
<1> DEFINE Good(recs) == Remembered(memory', told', recs)
<1>2. ASSUME twice' = {}, told' \in SUBSET (Kinds \X Apps \X Nat), Good(records),
             runner[Tick].pc \in WithStatus => Good(runner[Tick].st.apps)
      PROVE  Noted'
  <2>1. Good(records')
    BY <1>0, <1>2, RememberedOn
  <2>2. runner'[Tick].pc \in WithStatus => Good(runner'[Tick].st.apps)
    BY <1>2, StatusStep
  <2> QED BY <1>2, <2>1, <2>2 DEF Noted
<1>3. CASE UNCHANGED <<memory, told, twice>>
  BY <1>0, <1>1, <1>2, <1>3 DEF Noted
<1>4. CASE SignedIn
  <2>1. /\ told' = {n \in told : n[1] = "remind"} /\ twice' = twice
        /\ memory'.reminded = memory.reminded
    BY <1>0, <1>4 DEF SignedIn, ForgetBackoff, Memory
  <2>2. ASSUME NEW recs, Remembered(memory, told, recs)
        PROVE  Good(recs)
    <3> SUFFICES ASSUME NEW k \in Kinds, NEW a \in Apps, NEW e \in Nat,
                        <<k, a, e>> \in told'
                 PROVE  /\ e <= recs[a].expires
                        /\ Marked(memory', k, a, e) \/ Past(e, recs[a])
      BY DEF Remembered
    <3>1. k = "remind" /\ <<k, a, e>> \in told
      BY <2>1
    <3>2. e <= recs[a].expires /\ (Marked(memory, k, a, e) \/ Past(e, recs[a]))
      BY <2>2, <3>1 DEF Remembered
    <3>3. Marked(memory', k, a, e) <=> Marked(memory, k, a, e)
      BY <2>1, <3>1 DEF Marked
    <3> QED BY <3>2, <3>3
  <2> HIDE DEF Good
  <2> QED BY <1>0, <1>1, <1>2, <2>1, <2>2 DEF Noted
<1>5. CASE TickPlans
  <2> DEFINE st == runner[Tick].st
             res == Plan(st, clock, prefs, memory)
             more == Notice("remind", res.remind, st)
                     \cup Notice("obstacle", res.blocked, st)
  <2>1. /\ memory' = res.memory /\ told' = told \cup more
        /\ twice' = twice \cup (more \cap told)
        /\ runner[Tick].pc \in WithStatus
    BY <1>5 DEF TickPlans, Tell, WithStatus
  <2>2. /\ more \cap told = {} /\ told \cup more \in SUBSET (Kinds \X Apps \X Nat)
        /\ Remembered(res.memory, told \cup more, st.apps)
    BY <1>0, <1>1, <2>1, PlanRemembers
  <2> HIDE DEF res, more
  <2>3. Good(st.apps) /\ Good(records)
    BY <1>0, <1>1, <2>1, <2>2, RememberedOn
  <2> QED BY <1>0, <1>2, <2>1, <2>2, <2>3
<1>6. ASSUME NEW r \in Runners, NEW o, Settles(r, o)
      PROVE  Noted'
  <2>1. r = Tick /\ runner[Tick].pc \in WithStatus
    BY <1>6, SettlesType DEF Runners, WithStatus
  <2>2. /\ twice' = {} /\ told' \in SUBSET (Kinds \X Apps \X Nat)
        /\ Good(runner[Tick].st.apps)
    BY <1>0, <1>1, <1>6, <2>1, SettleRemembers
  <2>3. Good(records)
    BY <1>0, <1>1, <2>1, <2>2, RememberedOn
  <2> QED BY <1>2, <2>2, <2>3
<1> QED BY <1>3, <1>4, <1>5, <1>6, NoticesStep

\* Nobody is told the same twice: one reminder, one obstacle and one failure
\* per app and expiry date, however ticks, sign-ins, relaunches, the window's
\* requests and a dying backend interleave.  (Failures that are announced at
\* once are excluded again: the next ordinary one would be told, too.)
THEOREM NothingIsToldTwice ==
  ASSUME Renewals = {}, "person" \notin BackendOutcomes
  PROVE  Spec => []NoNoticeTwice
<1>1. Init => Noted
  BY DEF Init, Noted, Remembered, Idle, WithStatus, Renewing, Runners
<1>2. Inv /\ Dates /\ AllSound /\ Noted /\ [Next]_vars => Noted'
  BY NotedStep
<1>3. Noted => NoNoticeTwice
  BY DEF Noted, NoNoticeTwice
<1> QED BY NoticesInvariant, <1>1, <1>2, <1>3, PTL DEF Spec

(***************************************************************************)
(* No activation goes in circles.                                          *)
(***************************************************************************)

\* What an activation has before it is three numbers: there are finitely many
\* apps in apps.json.
LEMMA LeftType ==
  ASSUME NEW t \in Activation
  PROVE  /\ ActivationStages(t.pc) \in Nat
         /\ IsFiniteSet(t.todo) /\ Cardinality(t.todo) \in Nat
         /\ (IF t.pc = "refresh" THEN 1 ELSE 0) \in Nat
<1>1. t.pc \in Pcs /\ t.todo \subseteq Apps
  BY DEF Activation
<1>2. ActivationStages(t.pc) \in Nat
  BY <1>1 DEF ActivationStages, Rejected, Pcs
<1>3. IsFiniteSet(t.todo)
  BY <1>1, SchedulerAssumption, FS_Subset
<1> QED BY <1>2, <1>3, FS_CardinalityType

\* Nearer by the stage, by the apps still to renew, or by the answer.
LEMMA LeftNearer ==
  ASSUME NEW s \in Activation, NEW t \in Activation,
         \/ ActivationStages(s.pc) < ActivationStages(t.pc)
         \/ /\ ActivationStages(s.pc) = ActivationStages(t.pc)
            /\ Cardinality(s.todo) < Cardinality(t.todo)
         \/ /\ ActivationStages(s.pc) = ActivationStages(t.pc)
            /\ s.todo = t.todo /\ s.pc # "refresh" /\ t.pc = "refresh"
  PROVE  Nearer(ActivationLeft(s), ActivationLeft(t))
<1> DEFINE a == ActivationStages(s.pc)
           b == Cardinality(s.todo)
           c == IF s.pc = "refresh" THEN 1 ELSE 0
           v == ActivationStages(t.pc)
           w == Cardinality(t.todo)
           x == IF t.pc = "refresh" THEN 1 ELSE 0
<1>1. a \in Nat /\ b \in Nat /\ c \in Nat /\ v \in Nat /\ w \in Nat /\ x \in Nat
  BY LeftType
<1>2. \/ a < v
      \/ a = v /\ b < w
      \/ a = v /\ b = w /\ c < x
  OBVIOUS
<1>3. ActivationLeft(s) = <<a, b, c>> /\ ActivationLeft(t) = <<v, w, x>>
  BY DEF ActivationLeft
<1> HIDE DEF a, b, c, v, w, x
<1>4. Nearer(<<a, b, c>>, <<v, w, x>>)
  BY <1>1, <1>2, NearerOfThree
<1> QED BY <1>3, <1>4

\* What a step may do to the activation r.
GetsOn(r) == \/ runner'[r] = runner[r] \/ runner[r].pc = "idle"
             \/ Nearer(ActivationLeft(runner'[r]), ActivationLeft(runner[r]))

\* A step that moves one activation leaves the others as they are.
LEMMA OneGetsOn ==
  ASSUME TypeOK, NEW r \in Runners, NEW act,
         runner' = [runner EXCEPT ![r] = act],
         Nearer(ActivationLeft(act), ActivationLeft(runner[r]))
  PROVE  \A s \in Runners : GetsOn(s)
BY DEF TypeOK, GetsOn

\* Going back to rest is getting on, wherever the activation was.
LEMMA FinishGetsOn ==
  ASSUME TypeOK, NEW r \in Runners, Finish(r), runner[r].pc # "idle"
  PROVE  \A s \in Runners : GetsOn(s)
<1>1. runner[r] \in Activation /\ Idle \in Activation
  BY IdleType DEF TypeOK
<1>2. runner[r].pc \in Pcs \ {"idle"} /\ Idle.pc = "idle"
  BY <1>1 DEF Activation, Idle
<1>3. ActivationStages(Idle.pc) < ActivationStages(runner[r].pc)
  BY <1>2 DEF ActivationStages, Rejected, Pcs
<1>4. Nearer(ActivationLeft(Idle), ActivationLeft(runner[r]))
  BY <1>1, <1>3, LeftNearer
<1> QED BY <1>4, OneGetsOn DEF Finish

\* The loop of runRefreshes takes one app from the list, or ends; it begins
\* behind the status, or goes on with no app it has had before.
LEMMA NextRefreshGetsOn ==
  ASSUME TypeOK, NEW r \in Runners, NEW todo \in SUBSET Apps, NEW st \in Status,
         NEW jobs, NEW shown, NextRefresh(r, todo, st, jobs, shown),
         \/ runner[r].pc = "statusAnswered"
         \/ runner[r].pc = "refreshAnswered" /\ todo = runner[r].todo
  PROVE  \A s \in Runners : GetsOn(s)
<1>1. runner[r] \in Activation
  BY DEF TypeOK
<1>2. CASE todo # {} /\ NoJobs(jobs)
  <2>1. PICK a \in todo : runner' = [runner EXCEPT ![r] = Refresh(a, todo, st)]
    BY <1>2 DEF NextRefresh
  <2> DEFINE act == Refresh(a, todo, st)
  <2>2. act \in Activation /\ act.pc = "refresh" /\ act.todo = todo \ {a}
    BY DEF Refresh, Activation, Pcs, Outcomes
  <2>3. runner' = [runner EXCEPT ![r] = act]
    BY <2>1
  <2> HIDE DEF act
  <2>4. CASE runner[r].pc = "statusAnswered"
    <3>1. ActivationStages(act.pc) < ActivationStages(runner[r].pc)
      BY <2>2, <2>4 DEF ActivationStages, Rejected
    <3> QED BY <1>1, <2>2, <2>3, <3>1, LeftNearer, OneGetsOn
  <2>5. CASE runner[r].pc = "refreshAnswered" /\ todo = runner[r].todo
    <3>1. ActivationStages(act.pc) = ActivationStages(runner[r].pc)
      BY <2>2, <2>5 DEF ActivationStages, Rejected
    <3>2. IsFiniteSet(todo) /\ Cardinality(todo) \in Nat /\ Cardinality(act.todo) \in Nat
      BY <1>1, <2>2, <2>5, LeftType
    <3>3. Cardinality(act.todo) = Cardinality(todo) - 1
      BY <2>2, <3>2, FS_RemoveElement
    <3>4. Cardinality(act.todo) < Cardinality(runner[r].todo)
      BY <2>5, <3>2, <3>3
    <3> QED BY <1>1, <2>2, <2>3, <3>1, <3>4, LeftNearer, OneGetsOn
  <2> QED BY <2>4, <2>5
<1>3. CASE ~(todo # {} /\ NoJobs(jobs))
  <2>1. runner' = [runner EXCEPT ![r] = Ask("final")]
    BY <1>3 DEF NextRefresh
  <2>2. Ask("final") \in Activation /\ Ask("final").pc = "final"
    BY AskType DEF Ask, Idle, Pcs
  <2>3. ActivationStages(Ask("final").pc) < ActivationStages(runner[r].pc)
    BY <2>2 DEF ActivationStages, Rejected
  <2> QED BY <1>1, <2>1, <2>2, <2>3, LeftNearer, OneGetsOn
<1> QED BY <1>2, <1>3

\* Every step takes the activations it moves nearer their end.
LEMMA GetsOnStep ==
  ASSUME TypeOK, TypeOK', [Next]_vars
  PROVE  \A r \in Runners : GetsOn(r)
<1> USE DEF world, window, notices
<1>0. CASE UNCHANGED runner
  BY <1>0 DEF GetsOn
<1>1. ASSUME NEW r \in Runners, CallRejected(r)
      PROVE  \A s \in Runners : GetsOn(s)
  BY <1>1, FinishGetsOn DEF CallRejected, Rejected
<1>2. CASE TickFires
  <2>1. CASE backend = "ready" /\ runner[Tick].pc = "idle"
    BY <1>2, <2>1 DEF TickFires, GetsOn, TypeOK
  <2>2. CASE ~(backend = "ready" /\ runner[Tick].pc = "idle")
    BY <1>0, <1>2, <2>2 DEF TickFires
  <2> QED BY <2>1, <2>2
<1>3. CASE TickPlans
  <2> DEFINE st == runner[Tick].st
             res == Plan(st, clock, prefs, memory)
  <2>1. Tick \in Runners /\ st \in Status
    BY DEF TypeOK, Runners, Activation
  <2>2. res.refresh \in SUBSET Apps
    BY <2>1, PlanType, DaemonAssumption DEF TypeOK
  <2>3. runner[Tick].pc = "statusAnswered"
    BY <1>3 DEF TickPlans
  <2>4. \/ NextRefresh(Tick, res.refresh, st, rendererJobs, refreshing)
        \/ Finish(Tick)
    BY <1>3 DEF TickPlans
  <2> HIDE DEF st, res
  <2> QED BY <2>1, <2>2, <2>3, <2>4, NextRefreshGetsOn, FinishGetsOn
<1>4. ASSUME NEW r \in Renewals, RenewNow(r)
      PROVE  \A s \in Runners : GetsOn(s)
  BY <1>4 DEF RenewNow, GetsOn, TypeOK, Runners
<1>5. ASSUME NEW r \in Runners, RenewPlans(r)
      PROVE  \A s \in Runners : GetsOn(s)
  <2> DEFINE todo == ManualPlan(runner[r].st, clock)
  <2>1. todo \in SUBSET Apps /\ runner[r].st \in Status
    BY DEF ManualPlan, Installed, TypeOK, Activation
  <2>2. runner[r].pc = "statusAnswered"
    BY <1>5 DEF RenewPlans
  <2>3. \/ NextRefresh(r, todo, runner[r].st, rendererJobs, refreshing)
        \/ Finish(r)
    BY <1>5 DEF RenewPlans
  <2> HIDE DEF todo
  <2> QED BY <2>1, <2>2, <2>3, NextRefreshGetsOn, FinishGetsOn
<1>6. ASSUME NEW r \in Runners, RefreshDelivered(r)
      PROVE  \A s \in Runners : GetsOn(s)
  <2>1. runner[r].todo \in SUBSET Apps /\ runner[r].st \in Status
    BY DEF TypeOK, Activation
  <2> QED BY <1>6, <2>1, NextRefreshGetsOn DEF RefreshDelivered
<1>7. ASSUME NEW r \in Runners, FinalDelivered(r)
      PROVE  \A s \in Runners : GetsOn(s)
  BY <1>7, FinishGetsOn DEF FinalDelivered
<1>8. ASSUME NEW r \in Runners, StatusAnswered(r)
      PROVE  \A s \in Runners : GetsOn(s)
  <2> DEFINE pc == IF runner[r].pc = "status" THEN "statusAnswered" ELSE "finalAnswered"
             act == [runner[r] EXCEPT !.pc = pc, !.st = CurrentStatus]
  <2>1. runner' = [runner EXCEPT ![r] = act]
    BY <1>8 DEF StatusAnswered, TypeOK
  <2>2. runner[r] \in Activation /\ act \in Activation
    BY <2>1 DEF TypeOK
  <2>3. act.pc = pc
    BY <2>2 DEF Activation
  <2>4. ActivationStages(act.pc) < ActivationStages(runner[r].pc)
    BY <1>8, <2>3 DEF StatusAnswered, ActivationStages, Rejected
  <2> HIDE DEF act, pc
  <2> QED BY <2>1, <2>2, <2>4, LeftNearer, OneGetsOn
<1>9. ASSUME NEW r \in Runners, NEW o \in BackendOutcomes, RefreshAnswered(r, o)
      PROVE  \A s \in Runners : GetsOn(s)
  <2> DEFINE act == [runner[r] EXCEPT !.pc = "refreshAnswered", !.outcome = o]
  <2>1. runner' = [runner EXCEPT ![r] = act]
    BY <1>9 DEF RefreshAnswered, TypeOK
  <2>2. runner[r] \in Activation /\ act \in Activation
    BY <2>1 DEF TypeOK
  <2>3. act.pc = "refreshAnswered" /\ act.todo = runner[r].todo
    BY <2>2 DEF Activation
  <2>4. runner[r].pc = "refresh"
    BY <1>9 DEF RefreshAnswered
  <2>5. ActivationStages(act.pc) = ActivationStages(runner[r].pc)
    BY <2>3, <2>4 DEF ActivationStages, Rejected
  <2> HIDE DEF act
  <2> QED BY <2>1, <2>2, <2>3, <2>4, <2>5, LeftNearer, OneGetsOn
<1>10. CASE Settled /\ BackendDies
  <2> SUFFICES ASSUME NEW s \in Runners
               PROVE  GetsOn(s)
    OBVIOUS
  <2>1. runner[s] \in Activation /\ runner'[s] \in Activation
    BY DEF TypeOK
  <2>2. runner'[s].pc = RejectedPc(runner[s].pc)
    BY <1>10, <2>1 DEF BackendDies, Activation
  <2>3. runner[s].pc \in Pcs \ Rejected
    BY <1>10, <2>1 DEF Settled, Activation
  <2>4. CASE runner[s].pc = "idle"
    BY <2>4 DEF GetsOn
  <2>5. CASE runner[s].pc # "idle"
    <3>1. ActivationStages(runner'[s].pc) < ActivationStages(runner[s].pc)
      BY <2>2, <2>3, <2>5 DEF ActivationStages, RejectedPc, Rejected, InFlight, Pcs
    <3> QED BY <2>1, <3>1, LeftNearer DEF GetsOn
  <2> QED BY <2>4, <2>5
<1>11. CASE SilentInstall \/ Relaunch
  <2> SUFFICES ASSUME NEW s \in Runners
               PROVE  GetsOn(s)
    OBVIOUS
  <2>1. runner' = [r \in Runners |-> Idle]
    BY <1>11 DEF SilentInstall, Relaunch, NewProcess
  <2>2. runner[s] \in Activation /\ Idle \in Activation
    BY IdleType DEF TypeOK
  <2>3. CASE runner[s].pc = "idle"
    BY <2>3 DEF GetsOn
  <2>4. CASE runner[s].pc # "idle"
    <3>1. runner[s].pc \in Pcs \ {"idle"} /\ Idle.pc = "idle"
      BY <2>2, <2>4 DEF Activation, Idle
    <3>2. ActivationStages(Idle.pc) < ActivationStages(runner[s].pc)
      BY <3>1 DEF ActivationStages, Rejected, Pcs
    <3> QED BY <2>1, <2>2, <3>2, LeftNearer DEF GetsOn
  <2> QED BY <2>3, <2>4
<1>12. CASE BackendReady \/ WindowStep \/ UpdateDownloaded \/ WorldStep
  BY <1>0, <1>12
  DEF BackendReady, WindowStep, UiCalls, UiAnswered, UiDelivered, UiSees, ShowOrHide,
      Restart, UpdateDownloaded, WorldStep, TimePasses, DevicesChange, ObstacleChanges,
      SetPrefs, Wake
<1>13. UNCHANGED vars => \A r \in Runners : GetsOn(r)
  BY <1>0 DEF vars
<1> QED
  BY <1>1, <1>2, <1>3, <1>4, <1>5, <1>6, <1>7, <1>8, <1>9, <1>10, <1>11, <1>12, <1>13
  DEF Next, Event, MainStep, BackendStep

\* No activation of tick or renewNow goes in circles: whatever a step does to
\* one - an answer, a rejection, a dying backend, a relaunch - takes it nearer
\* its end, by a stage or by an app it will not try again.
THEOREM ActivationsGetOn == Spec => ActivationGetsOn
<1>1. Inv /\ Inv' /\ [Next]_vars =>
        [\A r \in Runners : \/ runner'[r] = runner[r] \/ runner[r].pc = "idle"
                            \/ Nearer(ActivationLeft(runner'[r]), ActivationLeft(runner[r]))]_vars
  BY GetsOnStep DEF Inv, GetsOn
<1> QED BY Invariant, <1>1, PTL DEF Spec, ActivationGetsOn
=============================================================================
