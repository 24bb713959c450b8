------------------------------ MODULE Scheduler ------------------------------
(***************************************************************************)
(* The decisions of the background operation, gui/electron/scheduler.cjs:  *)
(* whom to remind, what to renew, when to try again and when a downloaded  *)
(* update may be installed.  The file is pure logic, so this module has no *)
(* variables; Daemon.tla runs it inside the Electron main process.         *)
(*                                                                         *)
(* Times are natural numbers in an abstract unit.  The memory file keeps a *)
(* value per bundle ID only while there is something to remember; here a   *)
(* missing value is 0, which is never an expiry date and which the code's  *)
(* `?? 0` already equates with "no waiting time".                          *)
(***************************************************************************)
EXTENDS Naturals, FiniteSets

CONSTANTS
  Apps,           \* bundle IDs
  Devices,        \* UDIDs
  AnyDevice,      \* the "UDID" of an old record that names none
  DeviceOf,       \* [Apps -> Devices \cup {AnyDevice}]
  StaleAfter,     \* STALE_AFTER
  NagEvery,       \* DEVICE_NAG_EVERY
  DeviceRetry,    \* 5 min: the device vanished
  Retry,          \* 1 h:   an ordinary failure
  RateRetry,      \* 2 h:   AppleRateLimited
  SignInRetry,    \* 6 h:   NEEDS_SIGN_IN
  UpdateIdle,     \* UPDATE_IDLE_SECONDS
  RefreshMargin   \* UPDATE_REFRESH_MARGIN

ASSUME SchedulerAssumption ==
  /\ IsFiniteSet(Apps)
  /\ AnyDevice \notin Devices
  /\ DeviceOf \in [Apps -> Devices \cup {AnyDevice}]
  /\ {StaleAfter, NagEvery, DeviceRetry, Retry, RateRetry, SignInRetry,
      UpdateIdle, RefreshMargin} \subseteq Nat \ {0}

\* FAILURES_BEFORE_NOTICE
FailuresBeforeNotice == 2
CountCap == FailuresBeforeNotice + 1

\* What a refresh can end with, by how onRefreshResult tells them apart:
\* NEEDS_SIGN_IN and NEEDS_PERSON are the two sets of error kinds.
Errors == {"cancelled", "deviceNotFound", "signIn", "rateLimited", "person", "other"}
Outcomes == Errors \cup {"ok"}

\* The part of an app's status the scheduler looks at, and a whole status.
AppStatus == [installed : BOOLEAN, expires : Nat, sourceMissing : BOOLEAN,
              accountReady : BOOLEAN]
Status == [apps : [Apps -> AppStatus], attached : SUBSET Devices]

Prefs == [remind : BOOLEAN, autoRefresh : BOOLEAN, autoUpdate : BOOLEAN,
          remindWindow : Nat, refreshWindow : Nat]

Failure == [expires : Nat, count : Nat]
NoFailure == [expires |-> 0, count |-> 0]

Memory == [reminded : [Apps -> Nat], blocked : [Apps -> Nat],
           nextTryAt : [Apps -> Nat], failures : [Apps -> Failure],
           naggedAt : Nat]

EmptyMemory ==
  [reminded |-> [a \in Apps |-> 0], blocked |-> [a \in Apps |-> 0],
   nextTryAt |-> [a \in Apps |-> 0], failures |-> [a \in Apps |-> NoFailure],
   naggedAt |-> 0]

-----------------------------------------------------------------------------
Installed(st) == {a \in Apps : st.apps[a].installed}

\* "Longer expired than this: probably long gone from the device."
Stale(app, now) == app.expires + StaleAfter < now

DeviceAttached(a, attached) ==
  IF DeviceOf[a] = AnyDevice THEN attached # {} ELSE DeviceOf[a] \in attached

\* Why the app cannot be renewed without the user.
Blocked(app) == app.sourceMissing \/ ~app.accountReady

InWindow(app, now, window) == app.expires <= now + window

\* The clean-up at the head of plan: markers of another expiry date and
\* everything about apps that are gone fall away.
Tidy(mem, st) ==
  LET here == Installed(st)
      keep(marks) == [a \in Apps |->
          IF a \in here /\ marks[a] = st.apps[a].expires THEN marks[a] ELSE 0]
  IN  [mem EXCEPT
         !.reminded = keep(mem.reminded),
         !.blocked = keep(mem.blocked),
         !.nextTryAt = [a \in Apps |-> IF a \in here THEN mem.nextTryAt[a] ELSE 0],
         !.failures = [a \in Apps |->
             IF a \in here /\ mem.failures[a].expires = st.apps[a].expires
             THEN mem.failures[a] ELSE NoFailure]]

\* MUTANT: reminds without looking at the marker.
ToMarkAlways(tidy, st, now, prefs) ==
  {a \in Installed(st) :
     /\ prefs.remind
     /\ now < st.apps[a].expires
     /\ InWindow(st.apps[a], now, prefs.remindWindow)}

\* Apps whose reminder is due: still valid, in the window, not yet marked.
ToMark(tidy, st, now, prefs) ==
  {a \in Installed(st) :
     /\ prefs.remind
     /\ now < st.apps[a].expires
     /\ InWindow(st.apps[a], now, prefs.remindWindow)
     /\ tidy.reminded[a] # st.apps[a].expires}

\* Apps inside the refresh window.
Due(st, now, prefs) ==
  {a \in Installed(st) :
     /\ prefs.autoRefresh
     /\ ~Stale(st.apps[a], now)
     /\ InWindow(st.apps[a], now, prefs.refreshWindow)}

Waiting(st, now, prefs) ==
  {a \in Due(st, now, prefs) :
     ~Blocked(st.apps[a]) /\ ~DeviceAttached(a, st.attached)}

(***************************************************************************)
(* plan: what is to be done now, and the memory that results if the        *)
(* notifications are shown.                                                *)
(***************************************************************************)
Plan(st, now, prefs, mem) ==
  LET tidy    == Tidy(mem, st)
      mark    == ToMark(tidy, st, now, prefs)
      due     == Due(st, now, prefs)
      waiting == Waiting(st, now, prefs)
      blocked == {a \in due : /\ Blocked(st.apps[a])
                              /\ tidy.blocked[a] # st.apps[a].expires}
      nag     == waiting # {} /\ now >= tidy.naggedAt + NagEvery
  IN  [ \* in the refresh window already: the refresh speaks for itself
        remind |-> mark \ due,
        blocked |-> blocked,
        refresh |-> {a \in due : /\ ~Blocked(st.apps[a])
                                 /\ DeviceAttached(a, st.attached)
                                 /\ tidy.nextTryAt[a] <= now},
        waiting |-> waiting,
        notifyDevice |-> nag,
        memory |-> [tidy EXCEPT
          !.reminded = [a \in Apps |->
              IF a \in mark THEN st.apps[a].expires ELSE tidy.reminded[a]],
          !.blocked = [a \in Apps |->
              IF a \in blocked THEN st.apps[a].expires ELSE tidy.blocked[a]],
          !.naggedAt = IF waiting = {} THEN 0 ELSE IF nag THEN now ELSE @]]

\* "Renew now" from the tray: no window, no waiting times.
ManualPlan(st, now) ==
  {a \in Installed(st) :
     /\ now < st.apps[a].expires + StaleAfter
     /\ ~Blocked(st.apps[a])
     /\ DeviceAttached(a, st.attached)}

-----------------------------------------------------------------------------
\* MUTANT: one failure later.
AnnouncedLate(count, error) ==
  count = 1 + IF error = "person" THEN 1 ELSE FailuresBeforeNotice

\* A failure is announced once, when the counter reaches its threshold.
Announced(count, error) ==
  count = IF error = "person" THEN 1 ELSE FailuresBeforeNotice

\* A failure that counts, with its notification.  The counter is compared with
\* 1 and FailuresBeforeNotice only, so it stops at the bound CountCap.
Counted(mem, a, expires, error, now) ==
  LET prev == IF mem.failures[a].expires = expires THEN mem.failures[a].count ELSE 0
      count == IF prev < CountCap THEN prev + 1 ELSE CountCap
      failed == [mem EXCEPT !.failures[a] = [expires |-> expires, count |-> count]]
  IN  IF error = "signIn"
      THEN [memory |-> [failed EXCEPT !.nextTryAt[a] = now + SignInRetry,
                                      !.blocked[a] = expires],
            notify |-> IF mem.blocked[a] = expires THEN "none" ELSE "signIn"]
      ELSE [memory |-> [failed EXCEPT !.nextTryAt[a] =
                          now + IF error = "rateLimited" THEN RateRetry ELSE Retry],
            notify |-> IF Announced(count, error) THEN "failed" ELSE "none"]

(***************************************************************************)
(* onRefreshResult: waiting times and failure counters after a refresh of  *)
(* app a, whose status at planning time said `expires`.                    *)
(***************************************************************************)
OnRefreshResult(mem, a, expires, outcome, now) ==
  CASE outcome = "ok" ->
         [memory |-> [mem EXCEPT !.nextTryAt[a] = 0, !.failures[a] = NoFailure,
                                 !.blocked[a] = 0],
          notify |-> "none"]
    [] outcome = "cancelled" -> [memory |-> mem, notify |-> "none"]
    [] outcome = "deviceNotFound" ->
         [memory |-> [mem EXCEPT !.nextTryAt[a] = now + DeviceRetry],
          notify |-> "none"]
    [] OTHER -> Counted(mem, a, expires, outcome, now)

\* After a new sign-in every waiting time is forgotten.
ForgetBackoff(mem) ==
  [mem EXCEPT !.nextTryAt = EmptyMemory.nextTryAt,
              !.failures = EmptyMemory.failures,
              !.blocked = EmptyMemory.blocked]

\* The apps nextRefreshAt looks at; each becomes due at expires - refreshWindow.
Upcoming(st, now) ==
  {a \in Installed(st) : ~Stale(st.apps[a], now) /\ ~Blocked(st.apps[a])}

(***************************************************************************)
(* The second half of idleForUpdate, with nextRefreshAt: no refresh is     *)
(* about to become due.  One that is due already runs (then ModStaller is  *)
(* busy) or waits for its device, which may take days.                     *)
(***************************************************************************)
RefreshImminent(st, prefs, now) ==
  /\ prefs.autoRefresh
  /\ LET soonest == {a \in Upcoming(st, now) : \A b \in Upcoming(st, now) :
                       st.apps[a].expires <= st.apps[b].expires}
     IN  \E a \in soonest :
           /\ st.apps[a].expires > now + prefs.refreshWindow
           /\ st.apps[a].expires < now + prefs.refreshWindow + RefreshMargin
=============================================================================
