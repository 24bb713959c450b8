------------------------------ MODULE MCDaemon -------------------------------
(* Instances of Daemon for TLC. *)
EXTENDS Daemon, TLC

CONSTANTS a1, a2, d1

TwoApps == {a1, a2}
OneApp == {a1}
OneDevice == {d1}
\* a1 names its device, a2 is an old record without one
MCDeviceOf == [a \in Apps |-> IF a = a1 THEN d1 ELSE AnyDevice]

AllOn == [remind |-> TRUE, autoRefresh |-> TRUE, autoUpdate |-> TRUE,
          remindWindow |-> 3, refreshWindow |-> 2]

RefreshOnly == {[AllOn EXCEPT !.remind = FALSE]}
OnlyAllOn == {AllOn}
\* lastStatus decides nothing but the moment of a silent update
WithoutLastStatus ==
  <<world, memory, backend, timer, runner, refreshing, rendererJobs, window, notices>>
=============================================================================
