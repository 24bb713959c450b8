------------------------------- MODULE Tunnel --------------------------------
(***************************************************************************)
(* The way of a job to the device (modstaller/device/connection.py,        *)
(* tunnel.py): find the device, open lockdown or stand the RSD tunnel in   *)
(* for it, and open the tunnel later when a service needs it.              *)
(*                                                                         *)
(* pymobiledevice3 allows one userspace tunnel per process and guards that *)
(* per event loop only.  Every job has a thread and a loop of its own, so  *)
(* a threading.Lock of the process sits on top.  It is acquired in a       *)
(* helper thread (asyncio.to_thread): cancelling the job abandons that     *)
(* thread, it does not stop it.  The device and its ways are the           *)
(* environment: a way answers, refuses or stays silent.                    *)
(***************************************************************************)
EXTENDS Progress

CONSTANTS
  TunnelJobs,       \* jobs of the server that talk to a device
  NetworkAttempts,  \* NETWORK_TUNNEL_ATTEMPTS
  MaxCandidates,    \* bound: tunnel ways over the network (the code knows two)
  MaxServices       \* bound: services a job asks the tunnel for

ASSUME TunnelAssumption ==
  /\ NetworkAttempts \in Nat \ {0}
  /\ MaxCandidates \in Nat /\ MaxServices \in Nat

VARIABLES
  lock,        \* _LOCK is taken
  sp,          \* [TunnelJobs -> the job's ServiceProvider]
  abandoned    \* jobs cancelled while their helper thread waits for _LOCK

tunnelVars == <<lock, sp, abandoned>>

Ways == {"usb", "usbmux", "wifi", "remote"}
TunnelPcs == {"new", "enter", "ready", "acquire", "granted", "opening", "building",
              "failed", "closing", "over"}

\* way: ref.transport;  entering: rsd() is called from __aenter__;
\* ways, tries: candidates left and attempts left for the first of them;
\* services: how often it will still ask;  held: Tunnel._held;  open: its
\* tunnel stands (and is pymobiledevice3's _active_tunnel).
TunnelTypeOK ==
  /\ lock \in BOOLEAN
  /\ abandoned \subseteq TunnelJobs
  /\ sp \in [TunnelJobs -> [pc : TunnelPcs, way : Ways, entering : BOOLEAN,
                            ways : 0 .. MaxCandidates + 1, tries : 0 .. NetworkAttempts,
                            held : BOOLEAN, open : BOOLEAN, services : 0 .. MaxServices]]

TunnelInit ==
  /\ lock = FALSE
  /\ abandoned = {}
  /\ sp = [j \in TunnelJobs |-> [pc |-> "new", way |-> "usb", entering |-> FALSE,
                                 ways |-> 0, tries |-> 0, held |-> FALSE, open |-> FALSE,
                                 services |-> MaxServices]]

ActiveTunnel == \E j \in TunnelJobs : sp[j].open

Proceeds(j, s) == sp' = [sp EXCEPT ![j] = s] /\ UNCHANGED abandoned

\* Attempts per candidate: a dozing device answers one moment and not the
\* next; the cable either works or it does not.
Attempts(way) == IF way = "usb" THEN 1 ELSE NetworkAttempts

\* _tunnel_candidates: one for the cable and for a RemotePairing device, up
\* to two over Wi-Fi or usbmuxd's network, or none.
Candidates(way) == IF way \in {"usb", "remote"} THEN {1} ELSE 0 .. MaxCandidates

-----------------------------------------------------------------------------

\* An exception leaves the job's `async with`: __aexit__ runs, unless it came
\* out of __aenter__.
Leave(s) == [s EXCEPT !.pc = IF s.entering THEN "over" ELSE "closing"]

\* rsd() raises: the job ends, or _providers does without the tunnel.
Raised(s) == {Leave(s)} \cup IF s.entering THEN {} ELSE {[s EXCEPT !.pc = "ready"]}

\* rsd(): the tunnel is cached; otherwise the first candidate is tried, and
\* without any the job fails.
StartRsd(j, s) ==
  \E n \in Candidates(s.way) :
    IF n = 0 THEN \E t \in Raised(s) : Proceeds(j, t)
    ELSE Proceeds(j, [s EXCEPT !.pc = "acquire", !.ways = n, !.tries = Attempts(s.way)])

\* resolve: the best way to the device right now, from usbmuxd and from what
\* the search saw - or a search of its own.
Resolve(j) ==
  /\ sp[j].pc = "new"
  /\ \/ \E w \in Ways : Proceeds(j, [sp[j] EXCEPT !.pc = "enter", !.way = w])
     \/ Proceeds(j, [sp[j] EXCEPT !.pc = "over"])
  /\ UNCHANGED lock

\* connect, _open_lockdown: the connection stands; refused - not paired,
\* locked, no longer accepted - or silent, which ends the waiting.
Lockdown == {"open", "refused", "silent"}

\* _remote_ref: the device's RemotePairing side, seen or found now, if it has one.
RemoteSides == BOOLEAN

\* __aenter__: a RemotePairing device has nothing but the tunnel, which over
\* Wi-Fi also stands in for a lockdown that is silent.
Enter(j) ==
  /\ sp[j].pc = "enter"
  /\ LET tunnel == StartRsd(j, [sp[j] EXCEPT !.way = "remote", !.entering = TRUE]) IN
     IF sp[j].way = "remote" THEN tunnel
     ELSE \E answer \in Lockdown, remote \in RemoteSides :
            CASE answer = "open" -> Proceeds(j, [sp[j] EXCEPT !.pc = "ready"])
              [] answer = "silent" /\ sp[j].way = "wifi" /\ remote -> tunnel
              [] OTHER -> Proceeds(j, [sp[j] EXCEPT !.pc = "over"])
  /\ UNCHANGED lock

\* _providers: a service is asked for over lockdown and over the tunnel,
\* unless that stands already; or the job's work is over.
Works(j) ==
  /\ sp[j].pc = "ready"
  /\ \/ /\ sp[j].services > 0 /\ ~sp[j].open
        /\ StartRsd(j, [sp[j] EXCEPT !.services = @ - 1])
     \/ Proceeds(j, [sp[j] EXCEPT !.pc = "closing"])
  /\ UNCHANGED lock

\* The helper thread gets the lock.
Acquire(j) ==
  /\ sp[j].pc = "acquire" /\ ~lock
  /\ lock' = TRUE
  /\ Proceeds(j, [sp[j] EXCEPT !.pc = "granted"])

\* ... or has waited TUNNEL_WAIT: DeviceError, which rsd() passes on.
AcquireFails(j) ==
  /\ sp[j].pc = "acquire" /\ lock
  /\ \E t \in Raised(sp[j]) : Proceeds(j, t)
  /\ UNCHANGED lock

\* open: the coroutine goes on and notes that the lock is its own.
Granted(j) ==
  /\ sp[j].pc = "granted"
  /\ Proceeds(j, [sp[j] EXCEPT !.pc = "opening", !.held = TRUE])
  /\ UNCHANGED lock

\* MUTANT: release without looking at _held.
ReleasedAnyway(s) == FALSE

\* Tunnel._release: the lock after a release by s, which does nothing unless
\* s holds the lock.
Released(s) == lock /\ ~s.held

\* MUTANT: an attempt that failed is not counted.
NextAttemptAnyway(s) == {[s EXCEPT !.pc = "acquire"]}

\* The next attempt with this candidate, the next candidate, or the error.
NextAttempt(s) ==
  CASE s.tries > 1 -> {[s EXCEPT !.pc = "acquire", !.tries = @ - 1]}
    [] s.tries <= 1 /\ s.ways > 1 -> {[s EXCEPT !.pc = "acquire", !.ways = @ - 1, !.tries = Attempts(s.way)]}
    [] OTHER -> Raised(s)

\* Tunnel.open, _aopen_locked: refused while another tunnel is active.
Open(j) ==
  /\ sp[j].pc = "opening"
  /\ \/ ~ActiveTunnel /\ Proceeds(j, [sp[j] EXCEPT !.pc = "building"]) /\ UNCHANGED lock
     \/ /\ ActiveTunnel
        /\ lock' = Released(sp[j])
        /\ \E t \in Raised([sp[j] EXCEPT !.held = FALSE]) : Proceeds(j, t)

\* ... the tunnel stands after a conversation with the device and becomes the
\* active one, or something failed and the lock is released.
Build(j) ==
  /\ sp[j].pc = "building"
  /\ \/ /\ Proceeds(j, [sp[j] EXCEPT !.pc = "ready", !.entering = FALSE, !.open = TRUE])
        /\ UNCHANGED lock
     \/ /\ lock' = Released(sp[j])
        /\ Proceeds(j, [sp[j] EXCEPT !.pc = "failed", !.held = FALSE])

\* rsd() after a failure: the candidate is closed, which must not release a
\* lock it no longer holds, and the next attempt follows after a pause.
Retry(j) ==
  /\ sp[j].pc = "failed"
  /\ lock' = Released(sp[j])
  /\ \E t \in NextAttempt(sp[j]) : Proceeds(j, t)

\* __aexit__: the tunnel and lockdown are closed.
Close(j) ==
  /\ sp[j].pc = "closing"
  /\ lock' = IF sp[j].open THEN Released(sp[j]) ELSE lock
  /\ Proceeds(j, [sp[j] EXCEPT !.pc = "over", !.open = FALSE, !.held = FALSE])

\* __aexit__ is cancelled meanwhile: the lock is released all the same, but the
\* teardown may have been cut short.  What it leaves standing keeps every later
\* tunnel from being opened.
CloseCancelled(j) ==
  /\ sp[j].pc = "closing"
  /\ lock' = IF sp[j].open THEN Released(sp[j]) ELSE lock
  /\ \E left \in {FALSE, sp[j].open} :
       Proceeds(j, [sp[j] EXCEPT !.pc = "over", !.open = left, !.held = FALSE])

Establishing(s) == s.pc \in {"opening", "building"}

\* Where the exception takes a cancelled job: open() releases the lock it has
\* noted.
JobCancelled(s) ==
  IF s.pc \in {"new", "enter"} THEN [s EXCEPT !.pc = "over"]
  ELSE Leave([s EXCEPT !.held = s.held /\ ~Establishing(s)])

\* The job is cancelled at one of its other awaits.  In _acquire only the awaiting
\* ends: the helper thread goes on waiting, or already has the lock.
CancelJob(j) ==
  /\ sp[j].pc \in TunnelPcs \ {"closing", "over"}
  /\ lock' = IF Establishing(sp[j]) THEN Released(sp[j]) ELSE lock
  /\ abandoned' = IF sp[j].pc = "acquire" THEN abandoned \cup {j} ELSE abandoned
  /\ sp' = [sp EXCEPT ![j] = JobCancelled(sp[j])]

\* The abandoned helper thread gets the lock, or gives up after TUNNEL_WAIT.
AbandonedThread(j) ==
  /\ j \in abandoned
  /\ abandoned' = abandoned \ {j}
  /\ lock' = TRUE
  /\ UNCHANGED sp

TunnelStep(j) ==
  \/ Resolve(j) \/ Enter(j) \/ Works(j) \/ Acquire(j) \/ AcquireFails(j)
  \/ Granted(j) \/ Open(j) \/ Build(j) \/ Retry(j) \/ Close(j) \/ AbandonedThread(j)

TunnelNext == \E j \in TunnelJobs : TunnelStep(j) \/ CancelJob(j) \/ CloseCancelled(j)

TunnelSpec == TunnelInit /\ [][TunnelNext]_tunnelVars

\* Threads are scheduled, a blocking call on the device returns or times out,
\* and the lock's timeout passes.
TunnelFairness == \A j \in TunnelJobs : WF_tunnelVars(TunnelStep(j))

-----------------------------------------------------------------------------

\* pymobiledevice3's TCP stack exists once in the process: two tunnels are
\* never open at once, whatever fails, is retried or is cancelled.
OneTunnel == \A i, j \in TunnelJobs : sp[i].open /\ sp[j].open => i = j

\* What a job has before it: services to ask for, stages of the way, candidates
\* for the tunnel, attempts with one of them, phases of an attempt.
StagesLeft(pc) ==
  CASE pc = "new" -> 5 [] pc = "enter" -> 4 [] pc = "ready" -> 2 [] pc = "closing" -> 1
    [] pc = "over" -> 0 [] OTHER -> 3
AttemptLeft(pc) ==
  CASE pc = "acquire" -> 4 [] pc = "granted" -> 3 [] pc = "opening" -> 2 [] pc = "building" -> 1
    [] OTHER -> 0
JobLeft(s) == <<s.services, StagesLeft(s.pc), s.ways, s.tries, AttemptLeft(s.pc)>>

\* No job goes in circles: whatever is refused, fails, times out or is
\* cancelled, every step of a job takes it nearer its end.
TunnelJobGetsOn ==
  [][\A j \in TunnelJobs : sp'[j] = sp[j] \/ Nearer(JobLeft(sp'[j]), JobLeft(sp[j]))]_tunnelVars

\* A job that has begun ends: no retry and no waiting for the tunnel goes on
\* for ever, not even when the lock is lost.
TunnelJobEnds == \A j \in TunnelJobs : sp[j].pc # "new" ~> sp[j].pc = "over"
=============================================================================
