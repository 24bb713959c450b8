------------------------- MODULE ConversationsProofs --------------------------
(***************************************************************************)
(* Theorems about the backend's conversations.  One tunnel at a time       *)
(* (OneTunnel), for any number of jobs, candidates, attempts and services; *)
(* an app is told the truth about the memory released to it (TellsTruth),  *)
(* for any region and any limit; a fix that reported success is not        *)
(* offered again (FixHelps), for any version of iOS; and a discarded       *)
(* device identity stays gone (IdentityGone).  A job on its way to the     *)
(* device, the debugger's conversation and a sign-in do not go in circles, *)
(* for any limits.  And side by side they are what they are alone.         *)
(***************************************************************************)
EXTENDS MCConversations, ServerProofs, ProgressProofs, TLAPS

(***************************************************************************)
(* The way to the device.                                                  *)
(***************************************************************************)

\* The job has the lock: its helper thread got it, or the tunnel noted so.
Holds(j) == sp[j].pc = "granted" \/ sp[j].held

\* What place and flags of a job say about each other: whoever establishes a
\* tunnel has noted the lock, an open one is under work or being closed or was
\* left standing by a job that is over, and nobody else has noted the lock.
Fits(s) ==
  /\ s.pc \in {"opening", "building"} => s.held /\ ~s.open
  /\ s.pc \notin {"opening", "building", "over"} => (s.held <=> s.open)
  /\ s.pc = "over" => ~s.held
  /\ s.open => s.pc \in {"ready", "closing", "over"} /\ ~s.entering

\* The lock is taken while somebody has it, and one job has it at a time.  (It
\* may be taken with nobody having it: an abandoned helper thread.)
LockRight ==
  /\ \A j \in TunnelJobs : Holds(j) => lock
  /\ \A i, j \in TunnelJobs : Holds(i) /\ Holds(j) => i = j

\* While a tunnel is being built none stands.
Alone == \A j \in TunnelJobs : sp[j].pc = "building" => ~ActiveTunnel

\* What job j becomes has a tunnel only if it had one or was building it, and
\* builds one only if none stands.
Sound(j, s) ==
  /\ s.open => sp[j].open \/ sp[j].pc = "building"
  /\ s.pc = "building" => ~ActiveTunnel

\* A job by its fields, and what it still has to spend.
Job == [pc : TunnelPcs, way : Ways, entering : BOOLEAN,
        ways : 0 .. MaxCandidates + 1, tries : 0 .. NetworkAttempts,
        held : BOOLEAN, open : BOOLEAN, services : 0 .. MaxServices]

LEMMA TriesBounded ==
  ASSUME NEW way
  PROVE  /\ Attempts(way) \in 0 .. NetworkAttempts
         /\ Candidates(way) \subseteq 0 .. MaxCandidates + 1
BY TunnelAssumption DEF Attempts, Candidates

TunnelInv ==
  /\ lock \in BOOLEAN
  /\ sp \in [TunnelJobs -> Job]
  /\ \A j \in TunnelJobs : Fits(sp[j])
  /\ LockRight
  /\ Alone
  /\ OneTunnel

-----------------------------------------------------------------------------
(* A step of one job, seen from the others.                                *)

\* If job j ends up as s with the lock as it was or better, and holds it only
\* if it held it before, the invariant is kept.
LEMMA StepWithoutLock ==
  ASSUME TunnelInv, NEW j \in TunnelJobs, NEW s \in Job,
         sp' = [sp EXCEPT ![j] = s], Fits(s), Sound(j, s),
         Holds(j) \/ (s.pc # "granted" /\ ~s.held),
         lock' = lock \/ (lock' \in BOOLEAN /\ Holds(j) /\ s.pc # "granted" /\ ~s.held)
  PROVE  TunnelInv'
<1>1. sp' \in [TunnelJobs -> Job] /\ \A i \in TunnelJobs : Fits(sp[i])'
  BY DEF TunnelInv, Fits
<1>2. sp'[j] = s /\ \A i \in TunnelJobs \ {j} : sp'[i] = sp[i]
  BY DEF TunnelInv
<1>3. Holds(j)' => Holds(j) /\ (s.pc = "granted" \/ s.held)
  BY <1>2 DEF Holds
<1>4. \A i \in TunnelJobs \ {j} : Holds(i)' <=> Holds(i)
  BY <1>2 DEF Holds
<1>5. ASSUME NEW i \in TunnelJobs, Holds(i)' PROVE lock'
  <2>1. Holds(i)
    BY <1>3, <1>4, <1>5
  <2>2. CASE i = j
    BY <2>1, <2>2, <1>3, <1>5 DEF TunnelInv, LockRight
  <2>3. CASE i # j
    BY <2>1, <2>3 DEF TunnelInv, LockRight
  <2> QED BY <2>2, <2>3
<1>6. ASSUME NEW i \in TunnelJobs, NEW k \in TunnelJobs, Holds(i)', Holds(k)' PROVE i = k
  BY <1>3, <1>4, <1>6 DEF TunnelInv, LockRight
<1>7. LockRight'
  BY <1>5, <1>6 DEF LockRight
<1>8. OneTunnel'
  <2> SUFFICES ASSUME NEW i \in TunnelJobs, NEW k \in TunnelJobs, sp'[i].open, sp'[k].open, i # k
               PROVE  FALSE
    BY DEF OneTunnel
  <2>1. CASE i # j /\ k # j
    BY <1>2, <2>1 DEF TunnelInv, OneTunnel
  <2>2. CASE i = j \/ k = j
    BY <1>2, <2>2 DEF TunnelInv, OneTunnel, Alone, ActiveTunnel, Sound
  <2> QED BY <2>1, <2>2
<1>9. Alone'
  <2> SUFFICES ASSUME NEW i \in TunnelJobs, NEW k \in TunnelJobs, sp'[i].pc = "building", sp'[k].open
               PROVE  FALSE
    BY DEF Alone, ActiveTunnel
  <2>1. CASE i = j
    BY <1>2, <2>1 DEF Fits, Sound, ActiveTunnel
  <2>2. CASE i # j
    <3>1. sp[i].pc = "building" /\ Holds(i)
      BY <1>2, <2>2 DEF TunnelInv, Fits, Holds
    <3>2. k = j /\ sp[j].pc = "building"
      BY <1>2, <3>1 DEF TunnelInv, Alone, ActiveTunnel, Sound
    <3>3. Holds(j)
      BY <3>2 DEF TunnelInv, Fits, Holds
    <3> QED BY <2>2, <3>1, <3>3 DEF TunnelInv, LockRight
  <2> QED BY <2>1, <2>2
<1> QED BY <1>1, <1>7, <1>8, <1>9 DEF TunnelInv

\* What an exception makes of a job that has no tunnel and no lock.
LEMMA RaisedFits ==
  ASSUME NEW s \in Job, ~s.held, ~s.open, NEW t \in Raised(s)
  PROVE  t \in Job /\ Fits(t) /\ t.pc \notin {"granted", "building"} /\ ~t.held /\ ~t.open
BY DEF Raised, Leave, Job, Fits, TunnelPcs

\* The beginning of rsd, with any number of candidates.
LEMMA StartRsdFits ==
  ASSUME TunnelInv, TunnelAssumption, NEW j \in TunnelJobs, NEW s \in Job, ~s.held, ~s.open,
         StartRsd(j, s), UNCHANGED lock
  PROVE  TunnelInv'
<1>1. PICK n \in Candidates(s.way) :
        IF n = 0 THEN \E t \in Raised(s) : Proceeds(j, t)
        ELSE Proceeds(j, [s EXCEPT !.pc = "acquire", !.ways = n, !.tries = Attempts(s.way)])
  BY DEF StartRsd
<1>2. n \in 0 .. MaxCandidates + 1 /\ Attempts(s.way) \in 0 .. NetworkAttempts
  BY TriesBounded
<1>3. CASE n = 0
  <2>1. PICK t \in Raised(s) : Proceeds(j, t)
    BY <1>1, <1>3
  <2>2. t \in Job /\ Fits(t) /\ Sound(j, t) /\ t.pc # "granted" /\ ~t.held
    BY RaisedFits DEF Sound
  <2>3. sp' = [sp EXCEPT ![j] = t] /\ lock' \in BOOLEAN /\ lock' = lock
    BY <2>1 DEF Proceeds, TunnelInv
  <2> QED BY <2>2, <2>3, StepWithoutLock
<1>4. CASE n # 0
  <2> DEFINE t == [s EXCEPT !.pc = "acquire", !.ways = n, !.tries = Attempts(s.way)]
  <2>1. t \in Job /\ Fits(t) /\ Sound(j, t) /\ t.pc # "granted" /\ ~t.held
    BY <1>2 DEF Job, Fits, TunnelPcs, Sound
  <2>2. sp' = [sp EXCEPT ![j] = t] /\ lock' \in BOOLEAN /\ lock' = lock
    BY <1>1, <1>4 DEF Proceeds, TunnelInv
  <2> HIDE DEF t
  <2> QED BY <2>1, <2>2, StepWithoutLock
<1> QED BY <1>3, <1>4

-----------------------------------------------------------------------------
(* The actions.                                                            *)

\* Until the tunnel is asked for.
LEMMA BeforeTunnel ==
  ASSUME TunnelInv, TunnelAssumption, NEW j \in TunnelJobs, Resolve(j) \/ Enter(j) \/ Works(j)
  PROVE  TunnelInv'
<1>1. sp[j] \in Job /\ Fits(sp[j]) /\ lock \in BOOLEAN
  BY DEF TunnelInv
<1>2. CASE Resolve(j)
  <2>0. ~sp[j].held /\ ~sp[j].open
    BY <1>1, <1>2 DEF Resolve, Fits, Job
  <2>1. ASSUME NEW w \in Ways, Proceeds(j, [sp[j] EXCEPT !.pc = "enter", !.way = w]) PROVE TunnelInv'
    <3> DEFINE t == [sp[j] EXCEPT !.pc = "enter", !.way = w]
    <3>1. t \in Job /\ Fits(t) /\ Sound(j, t) /\ t.pc # "granted" /\ ~t.held
      BY <1>1, <2>0 DEF Job, Fits, TunnelPcs, Sound
    <3>2. sp' = [sp EXCEPT ![j] = t] /\ lock' = lock
      BY <1>2, <2>1 DEF Resolve, Proceeds
    <3> HIDE DEF t
    <3> QED BY <3>1, <3>2, StepWithoutLock
  <2>2. CASE Proceeds(j, [sp[j] EXCEPT !.pc = "over"])
    <3> DEFINE t == [sp[j] EXCEPT !.pc = "over"]
    <3>1. t \in Job /\ Fits(t) /\ Sound(j, t) /\ t.pc # "granted" /\ ~t.held
      BY <1>1, <2>0 DEF Job, Fits, TunnelPcs, Sound
    <3>2. sp' = [sp EXCEPT ![j] = t] /\ lock' = lock
      BY <1>2, <2>2 DEF Resolve, Proceeds
    <3> HIDE DEF t
    <3> QED BY <3>1, <3>2, StepWithoutLock
  <2> QED BY <1>2, <2>1, <2>2 DEF Resolve
<1>3. CASE Enter(j)
  <2> DEFINE s == [sp[j] EXCEPT !.way = "remote", !.entering = TRUE]
  <2>1. s \in Job /\ ~s.held /\ ~s.open
    BY <1>1, <1>3 DEF Enter, Job, Fits, Ways
  <2>2. CASE StartRsd(j, s)
    BY <2>1, <2>2, <1>3, StartRsdFits DEF Enter
  <2>3. CASE ~StartRsd(j, s)
    <3>1. PICK t \in {[sp[j] EXCEPT !.pc = "ready"], [sp[j] EXCEPT !.pc = "over"]} : Proceeds(j, t)
      BY <1>3, <2>3 DEF Enter, Lockdown
    <3>2. /\ t \in Job /\ Fits(t) /\ Sound(j, t) /\ t.pc # "granted" /\ ~t.held
          /\ sp' = [sp EXCEPT ![j] = t] /\ lock' = lock
      BY <1>1, <1>3, <3>1 DEF Enter, Proceeds, Job, Fits, TunnelPcs, Sound
    <3> QED BY <1>1, <3>2, StepWithoutLock
  <2> QED BY <2>2, <2>3
<1>4. CASE Works(j)
  <2>1. CASE Proceeds(j, [sp[j] EXCEPT !.pc = "closing"])
    <3> DEFINE t == [sp[j] EXCEPT !.pc = "closing"]
    <3>1. t \in Job /\ Fits(t) /\ Sound(j, t) /\ t.pc # "granted" /\ t.held = sp[j].held
      BY <1>1, <1>4 DEF Works, Job, Fits, TunnelPcs, Sound
    <3>2. sp' = [sp EXCEPT ![j] = t] /\ lock' = lock
      BY <1>4, <2>1 DEF Works, Proceeds
    <3>3. Holds(j) \/ (t.pc # "granted" /\ ~t.held)
      BY <3>1 DEF Holds
    <3> HIDE DEF t
    <3> QED BY <1>1, <3>1, <3>2, <3>3, StepWithoutLock
  <2>2. CASE /\ sp[j].services > 0 /\ ~sp[j].open
             /\ StartRsd(j, [sp[j] EXCEPT !.services = @ - 1])
    <3> DEFINE s == [sp[j] EXCEPT !.services = @ - 1]
    <3>1. s \in Job /\ ~s.held /\ ~s.open
      <4>1. sp[j].services - 1 \in 0 .. MaxServices
        BY <1>1, <2>2, TunnelAssumption DEF Job
      <4> QED BY <1>1, <1>4, <2>2, <4>1 DEF Works, Job, Fits
    <3>2. StartRsd(j, s) /\ UNCHANGED lock
      BY <1>4, <2>2 DEF Works
    <3> HIDE DEF s
    <3> QED BY <3>1, <3>2, StartRsdFits
  <2> QED BY <1>4, <2>1, <2>2 DEF Works
<1> QED BY <1>2, <1>3, <1>4

\* The lock is granted: nobody had it.
LEMMA AcquireStep ==
  ASSUME TunnelInv, NEW j \in TunnelJobs, Acquire(j)
  PROVE  TunnelInv'
<1>1. sp'[j] = [sp[j] EXCEPT !.pc = "granted"] /\ \A i \in TunnelJobs \ {j} : sp'[i] = sp[i]
  BY DEF Acquire, Proceeds, TunnelInv
<1>2. \A i \in TunnelJobs : ~Holds(i)
  BY DEF Acquire, TunnelInv, LockRight
<1>3. \A i \in TunnelJobs : Holds(i)' => i = j
  BY <1>1, <1>2 DEF Holds
<1>4. LockRight'
  BY <1>3 DEF LockRight, Acquire
<1>5. sp' \in [TunnelJobs -> Job]
  BY DEF Acquire, Proceeds, TunnelInv, Job, TunnelPcs
<1>6. Fits([sp[j] EXCEPT !.pc = "granted"])
  BY DEF Acquire, TunnelInv, Fits, Job
<1>7. \A i \in TunnelJobs : Fits(sp'[i])
  BY <1>1, <1>6 DEF TunnelInv
<1>8. \A i \in TunnelJobs : Fits(sp[i])'
  BY <1>7 DEF Fits
<1>9. lock' \in BOOLEAN
  BY DEF Acquire
<1>10. \A i \in TunnelJobs : /\ sp'[i].open = sp[i].open
                             /\ sp'[i].pc = "building" => sp[i].pc = "building"
  BY <1>1 DEF TunnelInv, Job
<1>11. Alone' /\ OneTunnel'
  BY <1>10 DEF TunnelInv, Alone, ActiveTunnel, OneTunnel
<1> QED BY <1>4, <1>5, <1>8, <1>9, <1>11 DEF TunnelInv

\* From the lock to the tunnel, and all the failures in between.
LEMMA TunnelStepKeeps ==
  ASSUME TunnelInv, TunnelAssumption, NEW j \in TunnelJobs,
         \/ AcquireFails(j) \/ Granted(j) \/ Open(j) \/ Build(j) \/ Retry(j)
         \/ Close(j) \/ CloseCancelled(j)
  PROVE  TunnelInv'
<1>1. sp[j] \in Job /\ Fits(sp[j]) /\ lock \in BOOLEAN
  BY DEF TunnelInv
<1>2. CASE AcquireFails(j)
  <2>1. PICK t \in Raised(sp[j]) : Proceeds(j, t)
    BY <1>2 DEF AcquireFails
  <2>2. ~sp[j].held /\ ~sp[j].open
    BY <1>1, <1>2 DEF AcquireFails, Fits, Job
  <2>3. t \in Job /\ Fits(t) /\ Sound(j, t) /\ t.pc # "granted" /\ ~t.held
    BY <1>1, <2>2, RaisedFits DEF Sound
  <2>4. sp' = [sp EXCEPT ![j] = t] /\ lock' = lock
    BY <1>2, <2>1 DEF AcquireFails, Proceeds
  <2> QED BY <1>1, <2>3, <2>4, StepWithoutLock
<1>3. CASE Granted(j)
  <2> DEFINE t == [sp[j] EXCEPT !.pc = "opening", !.held = TRUE]
  <2>1. t \in Job /\ Fits(t) /\ Sound(j, t)
    BY <1>1, <1>3 DEF Granted, Job, Fits, TunnelPcs, Sound
  <2>2. sp' = [sp EXCEPT ![j] = t] /\ lock' = lock /\ Holds(j)
    BY <1>3 DEF Granted, Proceeds, Holds
  <2> HIDE DEF t
  <2> QED BY <1>1, <2>1, <2>2, StepWithoutLock
<1>4. CASE Open(j)
  <2>0. Holds(j) /\ sp[j].held /\ ~sp[j].open
    BY <1>1, <1>4 DEF Open, Fits, Holds
  <2>1. CASE ~ActiveTunnel /\ Proceeds(j, [sp[j] EXCEPT !.pc = "building"]) /\ UNCHANGED lock
    <3> DEFINE t == [sp[j] EXCEPT !.pc = "building"]
    <3>1. t \in Job /\ Fits(t) /\ Sound(j, t)
      BY <1>1, <2>0, <2>1 DEF Job, Fits, TunnelPcs, Sound
    <3>2. sp' = [sp EXCEPT ![j] = t] /\ lock' = lock
      BY <2>1 DEF Proceeds
    <3> HIDE DEF t
    <3> QED BY <1>1, <2>0, <3>1, <3>2, StepWithoutLock
  <2>2. CASE /\ lock' = Released(sp[j])
             /\ \E t \in Raised([sp[j] EXCEPT !.held = FALSE]) : Proceeds(j, t)
    <3> DEFINE s == [sp[j] EXCEPT !.held = FALSE]
    <3>1. s \in Job /\ ~s.held /\ ~s.open
      BY <1>1, <2>0 DEF Job
    <3>2. PICK t \in Raised(s) : Proceeds(j, t)
      BY <2>2
    <3> HIDE DEF s
    <3>3. t \in Job /\ Fits(t) /\ Sound(j, t) /\ t.pc # "granted" /\ ~t.held
      BY <3>1, RaisedFits DEF Sound
    <3>4. sp' = [sp EXCEPT ![j] = t] /\ lock' \in BOOLEAN
      BY <1>1, <2>2, <3>2 DEF Proceeds, Released
    <3> QED BY <2>0, <3>3, <3>4, StepWithoutLock
  <2> QED BY <1>4, <2>1, <2>2 DEF Open
<1>5. CASE Build(j)
  <2>0. Holds(j) /\ sp[j].held /\ ~sp[j].open
    BY <1>1, <1>5 DEF Build, Fits, Holds
  <2>1. CASE /\ Proceeds(j, [sp[j] EXCEPT !.pc = "ready", !.entering = FALSE, !.open = TRUE])
             /\ UNCHANGED lock
    <3> DEFINE t == [sp[j] EXCEPT !.pc = "ready", !.entering = FALSE, !.open = TRUE]
    <3>1. t \in Job /\ Fits(t) /\ Sound(j, t)
      BY <1>1, <1>5, <2>0 DEF Build, Job, Fits, TunnelPcs, Sound
    <3>2. sp' = [sp EXCEPT ![j] = t] /\ lock' = lock
      BY <2>1 DEF Proceeds
    <3> HIDE DEF t
    <3> QED BY <1>1, <2>0, <3>1, <3>2, StepWithoutLock
  <2>2. CASE /\ lock' = Released(sp[j])
             /\ Proceeds(j, [sp[j] EXCEPT !.pc = "failed", !.held = FALSE])
    <3> DEFINE t == [sp[j] EXCEPT !.pc = "failed", !.held = FALSE]
    <3>1. t \in Job /\ Fits(t) /\ Sound(j, t) /\ t.pc # "granted" /\ ~t.held
      BY <1>1, <2>0 DEF Job, Fits, TunnelPcs, Sound
    <3>2. sp' = [sp EXCEPT ![j] = t] /\ lock' \in BOOLEAN
      BY <1>1, <2>2 DEF Proceeds, Released
    <3> HIDE DEF t
    <3> QED BY <2>0, <3>1, <3>2, StepWithoutLock
  <2> QED BY <1>5, <2>1, <2>2 DEF Build
<1>6. CASE Retry(j)
  <2>0. ~sp[j].held /\ ~sp[j].open
    BY <1>1, <1>6 DEF Retry, Fits, Job
  <2>1. PICK t \in NextAttempt(sp[j]) : Proceeds(j, t)
    BY <1>6 DEF Retry
  <2>2. sp' = [sp EXCEPT ![j] = t] /\ lock' = lock
    BY <1>1, <1>6, <2>0, <2>1 DEF Retry, Proceeds, Released
  <2>3. t \in Raised(sp[j]) \/ (t \in Job /\ Fits(t) /\ Sound(j, t) /\ t.pc # "granted" /\ ~t.held)
    <3>1. Attempts(sp[j].way) \in 0 .. NetworkAttempts
      BY TriesBounded
    <3>2. CASE sp[j].tries > 1
      <4>1. t = [sp[j] EXCEPT !.pc = "acquire", !.tries = @ - 1] /\ sp[j].tries - 1 \in 0 .. NetworkAttempts
        BY <1>1, <2>1, <3>2, TunnelAssumption DEF NextAttempt, Job
      <4> QED BY <1>1, <2>0, <4>1 DEF Job, Fits, TunnelPcs, Sound
    <3>3. CASE ~(sp[j].tries > 1) /\ sp[j].tries <= 1 /\ sp[j].ways > 1
      <4>1. /\ t = [sp[j] EXCEPT !.pc = "acquire", !.ways = @ - 1, !.tries = Attempts(sp[j].way)]
            /\ sp[j].ways - 1 \in 0 .. MaxCandidates + 1
        BY <1>1, <2>1, <3>3, TunnelAssumption DEF NextAttempt, Job
      <4> QED BY <1>1, <2>0, <3>1, <4>1 DEF Job, Fits, TunnelPcs, Sound
    <3>4. CASE ~(sp[j].tries > 1) /\ ~(sp[j].tries <= 1 /\ sp[j].ways > 1)
      BY <2>1, <3>4 DEF NextAttempt
    <3> QED BY <3>2, <3>3, <3>4
  <2>4. t \in Job /\ Fits(t) /\ Sound(j, t) /\ t.pc # "granted" /\ ~t.held
    BY <1>1, <2>0, <2>3, RaisedFits DEF Sound
  <2> QED BY <1>1, <2>2, <2>4, StepWithoutLock
<1>7. CASE Close(j) \/ CloseCancelled(j)
  <2>0. PICK left \in BOOLEAN : /\ left => sp[j].open
                                /\ Proceeds(j, [sp[j] EXCEPT !.pc = "over", !.open = left, !.held = FALSE])
    <3>1. sp[j].open \in BOOLEAN
      BY <1>1 DEF Job
    <3> QED BY <1>7, <3>1 DEF Close, CloseCancelled
  <2> DEFINE t == [sp[j] EXCEPT !.pc = "over", !.open = left, !.held = FALSE]
  <2>1. t \in Job /\ Fits(t) /\ Sound(j, t) /\ t.pc # "granted" /\ ~t.held
    <3>1. ~(sp[j].open /\ sp[j].entering)
      BY <1>1 DEF Fits
    <3> QED BY <1>1, <2>0, <3>1 DEF Job, Fits, TunnelPcs, Sound
  <2>2. sp' = [sp EXCEPT ![j] = t] /\ lock' = IF sp[j].open THEN Released(sp[j]) ELSE lock
    BY <1>7, <2>0 DEF Close, CloseCancelled, Proceeds
  <2>3. lock' = lock \/ (lock' \in BOOLEAN /\ Holds(j))
    <3>1. sp[j].open => sp[j].held
      BY <1>1, <1>7 DEF Close, CloseCancelled, Fits
    <3> QED BY <1>1, <2>2, <3>1 DEF Released, Holds
  <2> HIDE DEF t
  <2> QED BY <2>1, <2>2, <2>3, StepWithoutLock
<1> QED BY <1>2, <1>3, <1>4, <1>5, <1>6, <1>7

\* Cancelled: whoever is establishing a tunnel releases the lock, and whoever
\* has just been granted it loses it.
LEMMA CancelKeeps ==
  ASSUME TunnelInv, NEW j \in TunnelJobs, CancelJob(j)
  PROVE  TunnelInv'
<1>1. sp[j] \in Job /\ Fits(sp[j]) /\ lock \in BOOLEAN
  BY DEF TunnelInv
<1> DEFINE s == [sp[j] EXCEPT !.held = sp[j].held /\ ~Establishing(sp[j])]
           t == JobCancelled(sp[j])
<1>2. sp' = [sp EXCEPT ![j] = t] /\ lock' = IF Establishing(sp[j]) THEN Released(sp[j]) ELSE lock
  BY DEF CancelJob
<1>3. Establishing(sp[j]) \in BOOLEAN
  BY DEF Establishing
<1>4. s \in Job /\ s.open = sp[j].open /\ s.entering = sp[j].entering /\ s.pc = sp[j].pc
  BY <1>1, <1>3 DEF Job
<1>5. /\ Establishing(sp[j]) => ~s.held /\ ~s.open
      /\ ~Establishing(sp[j]) => (s.held <=> sp[j].held) /\ (s.held <=> s.open)
  BY <1>1, <1>3, <1>4 DEF Job, Fits, Establishing, CancelJob
<1> HIDE DEF s
<1>6. t \in Job /\ t.pc \in {"over", "closing"}
  BY <1>1, <1>4 DEF Job, JobCancelled, Leave, TunnelPcs
<1>7. (t.held <=> t.open) /\ (t.held => sp[j].held)
  BY <1>1, <1>3, <1>4, <1>5, <1>6 DEF Job, JobCancelled, Leave, Fits
<1>8. t.open => t.pc = "closing" /\ ~t.entering
  BY <1>1, <1>4 DEF Job, JobCancelled, Leave, Fits
<1>9. Fits(t) /\ Sound(j, t) /\ (Holds(j) \/ (t.pc # "granted" /\ ~t.held))
  <2>1. t.open => sp[j].open
    BY <1>1, <1>4 DEF Job, JobCancelled, Leave
  <2> QED BY <1>6, <1>7, <1>8, <2>1 DEF Fits, Holds, Sound
<1>10. lock' = lock \/ (lock' \in BOOLEAN /\ Holds(j) /\ t.pc # "granted" /\ ~t.held)
  BY <1>1, <1>2, <1>3, <1>4, <1>5, <1>6 DEF Released, Holds, JobCancelled, Leave, Establishing, Job
<1> HIDE DEF t
<1> QED BY <1>2, <1>6, <1>9, <1>10, StepWithoutLock

\* An abandoned thread that takes the lock takes it from nobody.
LEMMA AbandonedKeeps ==
  ASSUME TunnelInv, NEW j \in TunnelJobs, AbandonedThread(j)
  PROVE  TunnelInv'
<1>1. lock' = TRUE /\ sp' = sp
  BY DEF AbandonedThread
<1>2. \A i \in TunnelJobs : Holds(i)' <=> Holds(i)
  BY <1>1 DEF Holds
<1> QED BY <1>1, <1>2 DEF TunnelInv, LockRight, Fits, Alone, ActiveTunnel, OneTunnel

LEMMA TunnelInvStep == TunnelAssumption /\ TunnelInv /\ [TunnelNext]_tunnelVars => TunnelInv'
<1> SUFFICES ASSUME TunnelAssumption, TunnelInv, [TunnelNext]_tunnelVars PROVE TunnelInv'
  OBVIOUS
<1>1. CASE TunnelNext
  <2>1. PICK j \in TunnelJobs : TunnelStep(j) \/ CancelJob(j) \/ CloseCancelled(j)
    BY <1>1 DEF TunnelNext
  <2> QED BY <2>1, BeforeTunnel, AcquireStep, TunnelStepKeeps, CancelKeeps, AbandonedKeeps
          DEF TunnelStep
<1>2. CASE UNCHANGED tunnelVars
  BY <1>2 DEF tunnelVars, TunnelInv, LockRight, Holds, Fits, Alone, ActiveTunnel, OneTunnel
<1> QED BY <1>1, <1>2

LEMMA TunnelInvInit == TunnelAssumption /\ TunnelInit => TunnelInv
<1> SUFFICES ASSUME TunnelAssumption, TunnelInit PROVE TunnelInv
  OBVIOUS
<1> DEFINE s == [pc |-> "new", way |-> "usb", entering |-> FALSE, ways |-> 0, tries |-> 0,
                 held |-> FALSE, open |-> FALSE, services |-> MaxServices]
<1>1. s \in Job
  BY DEF TunnelAssumption, Job, TunnelPcs, Ways
<1>2. sp = [j \in TunnelJobs |-> s] /\ lock = FALSE
  BY DEF TunnelInit
<1>3. Fits(s) /\ s.pc # "granted" /\ ~s.held /\ s.pc # "building" /\ ~s.open
  BY DEF Fits
<1> HIDE DEF s
<1>4. \A j \in TunnelJobs : ~Holds(j)
  BY <1>2, <1>3 DEF Holds
<1>5. lock \in BOOLEAN /\ sp \in [TunnelJobs -> Job]
  BY <1>1, <1>2
<1>6. \A j \in TunnelJobs : Fits(sp[j])
  BY <1>2, <1>3
<1>7. Alone /\ OneTunnel
  BY <1>2, <1>3 DEF Alone, OneTunnel
<1> QED BY <1>4, <1>5, <1>6, <1>7 DEF TunnelInv, LockRight

\* pymobiledevice3's userspace TCP stack exists once: however many jobs talk
\* to devices, retry, fail or are cancelled, two tunnels are never open.
THEOREM NeverTwoTunnels == TunnelSpec => []OneTunnel
<1>1. TunnelInv => OneTunnel
  BY DEF TunnelInv
<1> QED BY <1>1, TunnelAssumption, TunnelInvInit, TunnelInvStep, PTL DEF TunnelSpec

\* What the lock, the jobs and the abandoned helper threads are in every state:
\* no job ever has more attempts, candidates or services left than there are.
THEOREM TunnelTypes == TunnelSpec => []TunnelTypeOK
<1>1. TunnelInit => abandoned \subseteq TunnelJobs
  BY DEF TunnelInit
<1>2. abandoned \subseteq TunnelJobs /\ [TunnelNext]_tunnelVars => (abandoned \subseteq TunnelJobs)'
  BY DEF TunnelNext, TunnelStep, Resolve, Enter, Works, StartRsd, Acquire, AcquireFails, Granted, Open,
         Build, Retry, Close, CloseCancelled, CancelJob, AbandonedThread, Proceeds, tunnelVars
<1>3. TunnelInv /\ abandoned \subseteq TunnelJobs => TunnelTypeOK
  BY DEF TunnelInv, TunnelTypeOK, Job
<1> QED BY <1>1, <1>2, <1>3, TunnelAssumption, TunnelInvInit, TunnelInvStep, PTL DEF TunnelSpec

-----------------------------------------------------------------------------
(* Getting on.                                                             *)

LEMMA JobLeftTyped ==
  ASSUME NEW s \in Job
  PROVE  /\ s.services \in Nat /\ StagesLeft(s.pc) \in Nat /\ s.ways \in Nat /\ s.tries \in Nat
         /\ AttemptLeft(s.pc) \in Nat
BY TunnelAssumption DEF Job, StagesLeft, AttemptLeft

\* One of the job's numbers is less, and those before it are the same.
JobOnward(s, t) ==
  \/ t.services < s.services
  \/ t.services = s.services /\ StagesLeft(t.pc) < StagesLeft(s.pc)
  \/ t.services = s.services /\ StagesLeft(t.pc) = StagesLeft(s.pc) /\ t.ways < s.ways
  \/ t.services = s.services /\ StagesLeft(t.pc) = StagesLeft(s.pc) /\ t.ways = s.ways /\ t.tries < s.tries
  \/ /\ t.services = s.services /\ StagesLeft(t.pc) = StagesLeft(s.pc) /\ t.ways = s.ways
     /\ t.tries = s.tries /\ AttemptLeft(t.pc) < AttemptLeft(s.pc)

LEMMA JobNearer ==
  ASSUME NEW s \in Job, NEW t \in Job, JobOnward(s, t)
  PROVE  Nearer(JobLeft(t), JobLeft(s))
BY JobLeftTyped, NearerOfFive DEF JobOnward, JobLeft

\* What an exception makes of a job that is asking.
LEMMA RaisedOnward ==
  ASSUME NEW s \in Job, StagesLeft(s.pc) >= 3, NEW t \in Raised(s)
  PROVE  t \in Job /\ JobOnward(s, t)
BY DEF Raised, Leave, Job, JobOnward, StagesLeft, TunnelPcs

\* rsd() begins: for a job that has just come here, or has just asked.
LEMMA StartRsdOnward ==
  ASSUME TunnelInv, NEW j \in TunnelJobs, NEW s \in Job, StartRsd(j, s),
         \/ sp[j].pc = "enter" /\ s.pc = "enter" /\ s.services = sp[j].services
         \/ sp[j].pc = "ready" /\ s.pc = "ready" /\ s.services < sp[j].services
  PROVE  sp' = [sp EXCEPT ![j] = sp'[j]] /\ JobOnward(sp[j], sp'[j])
<1>1. PICK n \in Candidates(s.way) :
        IF n = 0 THEN \E t \in Raised(s) : Proceeds(j, t)
        ELSE Proceeds(j, [s EXCEPT !.pc = "acquire", !.ways = n, !.tries = Attempts(s.way)])
  BY DEF StartRsd
<1>2. PICK t : Proceeds(j, t) /\ t.services = s.services
               /\ (t.pc \in {"acquire", "over", "closing"} \/ (t.pc = "ready" /\ ~s.entering))
  <2>1. CASE n = 0
    BY <1>1, <2>1 DEF Raised, Leave, Job
  <2>2. CASE n # 0
    <3> DEFINE t == [s EXCEPT !.pc = "acquire", !.ways = n, !.tries = Attempts(s.way)]
    <3>1. Proceeds(j, t)
      BY <1>1, <2>2
    <3>2. t.services = s.services /\ t.pc = "acquire"
      BY DEF Job
    <3> HIDE DEF t
    <3> QED BY <3>1, <3>2
  <2> QED BY <2>1, <2>2
<1>3. sp[j] \in Job /\ sp' = [sp EXCEPT ![j] = t] /\ sp'[j] = t
  BY <1>2 DEF TunnelInv, Proceeds
<1>4. JobOnward(sp[j], t)
  BY <1>2, <1>3 DEF JobOnward, StagesLeft, Job
<1> QED BY <1>3, <1>4

\* A job is found its way, or none.
LEMMA LeavesNew ==
  ASSUME NEW s \in Job, s.pc = "new"
  PROVE  /\ \A w \in Ways : JobOnward(s, [s EXCEPT !.pc = "enter", !.way = w])
         /\ JobOnward(s, [s EXCEPT !.pc = "over"])
<1>1. ASSUME NEW t, t.services = s.services, t.pc \in {"enter", "over"} PROVE JobOnward(s, t)
  BY <1>1 DEF JobOnward, StagesLeft
<1>2. ASSUME NEW w \in Ways PROVE JobOnward(s, [s EXCEPT !.pc = "enter", !.way = w])
  <2> DEFINE t == [s EXCEPT !.pc = "enter", !.way = w]
  <2>1. t.services = s.services /\ t.pc = "enter"
    BY DEF Job
  <2> HIDE DEF t
  <2> QED BY <1>1, <2>1 DEF t
<1>3. JobOnward(s, [s EXCEPT !.pc = "over"])
  <2> DEFINE t == [s EXCEPT !.pc = "over"]
  <2>1. t.services = s.services /\ t.pc = "over"
    BY DEF Job
  <2> HIDE DEF t
  <2> QED BY <1>1, <2>1 DEF t
<1> QED BY <1>2, <1>3

\* Steps that change one field or two of the job.
LEMMA TunnelStepOnward ==
  ASSUME TunnelInv, TunnelInv', NEW j \in TunnelJobs,
         TunnelStep(j) \/ CancelJob(j) \/ CloseCancelled(j), sp' # sp
  PROVE  sp' = [sp EXCEPT ![j] = sp'[j]] /\ JobOnward(sp[j], sp'[j])
<1> DEFINE s == sp[j]
<1>0. s \in Job /\ Fits(s) /\ sp \in [TunnelJobs -> Job]
  BY DEF TunnelInv
<1>f. ASSUME NEW t, Proceeds(j, t) \/ sp' = [sp EXCEPT ![j] = t], JobOnward(s, t)
      PROVE  sp' = [sp EXCEPT ![j] = sp'[j]] /\ JobOnward(s, sp'[j])
  BY <1>0, <1>f DEF Proceeds
<1>1. CASE Resolve(j)
  <2>0. s.pc = "new"
    BY <1>1 DEF Resolve
  <2>1. ASSUME NEW w \in Ways, Proceeds(j, [s EXCEPT !.pc = "enter", !.way = w])
        PROVE  sp' = [sp EXCEPT ![j] = sp'[j]] /\ JobOnward(s, sp'[j])
    BY <1>0, <1>f, <2>0, <2>1, LeavesNew
  <2>2. CASE Proceeds(j, [s EXCEPT !.pc = "over"])
    BY <1>0, <1>f, <2>0, <2>2, LeavesNew
  <2> QED BY <1>1, <2>1, <2>2 DEF Resolve
<1>2. CASE Enter(j)
  <2> DEFINE r == [s EXCEPT !.way = "remote", !.entering = TRUE]
  <2>1. r \in Job /\ r.pc = "enter" /\ s.pc = "enter" /\ r.services = s.services
    BY <1>0, <1>2 DEF Enter, Job, Ways
  <2>2. CASE StartRsd(j, r)
    <3> HIDE DEF r
    <3> QED BY <2>1, <2>2, StartRsdOnward
  <2>3. CASE ~StartRsd(j, r)
    <3>1. PICK t \in {[s EXCEPT !.pc = "ready"], [s EXCEPT !.pc = "over"]} : Proceeds(j, t)
      BY <1>2, <2>3 DEF Enter, Lockdown
    <3>2. t.services = s.services /\ t.pc \in {"ready", "over"}
      BY <1>0, <3>1 DEF Job
    <3> QED BY <1>0, <1>f, <2>1, <3>1, <3>2 DEF JobOnward, StagesLeft, Job
  <2> QED BY <2>2, <2>3
<1>3. CASE Works(j)
  <2>1. CASE Proceeds(j, [s EXCEPT !.pc = "closing"])
    <3>1. s.pc = "ready" /\ JobOnward(s, [s EXCEPT !.pc = "closing"])
      BY <1>0, <1>3 DEF Works, JobOnward, StagesLeft, Job
    <3> QED BY <1>f, <2>1, <3>1
  <2>2. CASE s.services > 0 /\ StartRsd(j, [s EXCEPT !.services = @ - 1])
    <3> DEFINE r == [s EXCEPT !.services = @ - 1]
    <3>1. s.services - 1 \in 0 .. MaxServices /\ s.services \in Nat
      BY <1>0, <2>2, TunnelAssumption DEF Job
    <3>2. r \in Job /\ r.pc = "ready" /\ s.pc = "ready" /\ r.services < s.services
      BY <1>0, <1>3, <3>1 DEF Works, Job
    <3>3. StartRsd(j, r)
      BY <2>2
    <3> HIDE DEF r
    <3> QED BY <3>2, <3>3, StartRsdOnward
  <2> QED BY <1>3, <2>1, <2>2 DEF Works
<1>4. CASE Acquire(j) \/ Granted(j)
  <2>1. CASE Acquire(j)
    <3> DEFINE t == [s EXCEPT !.pc = "granted"]
    <3>1. Proceeds(j, t) /\ JobOnward(s, t)
      BY <1>0, <2>1 DEF Acquire, JobOnward, StagesLeft, AttemptLeft, Job
    <3> HIDE DEF t
    <3> QED BY <1>f, <3>1
  <2>2. CASE Granted(j)
    <3> DEFINE t == [s EXCEPT !.pc = "opening", !.held = TRUE]
    <3>1. Proceeds(j, t) /\ JobOnward(s, t)
      BY <1>0, <2>2 DEF Granted, JobOnward, StagesLeft, AttemptLeft, Job
    <3> HIDE DEF t
    <3> QED BY <1>f, <3>1
  <2> QED BY <1>4, <2>1, <2>2
<1>5. CASE AcquireFails(j)
  <2>1. PICK t \in Raised(s) : Proceeds(j, t)
    BY <1>5 DEF AcquireFails
  <2>2. StagesLeft(s.pc) >= 3
    BY <1>5 DEF AcquireFails, StagesLeft
  <2> QED BY <1>0, <1>f, <2>1, <2>2, RaisedOnward
<1>6. CASE Open(j)
  <2>1. CASE Proceeds(j, [s EXCEPT !.pc = "building"])
    <3> DEFINE t == [s EXCEPT !.pc = "building"]
    <3>1. JobOnward(s, t)
      BY <1>0, <1>6 DEF Open, JobOnward, StagesLeft, AttemptLeft, Job
    <3> HIDE DEF t
    <3> QED BY <1>f, <2>1, <3>1 DEF t
  <2>2. ASSUME NEW t \in Raised([s EXCEPT !.held = FALSE]), Proceeds(j, t)
        PROVE  sp' = [sp EXCEPT ![j] = sp'[j]] /\ JobOnward(s, sp'[j])
    <3> DEFINE r == [s EXCEPT !.held = FALSE]
    <3>1. r \in Job /\ r.pc = s.pc /\ r.services = s.services /\ r.ways = s.ways /\ r.tries = s.tries
      BY <1>0 DEF Job
    <3>2. StagesLeft(r.pc) >= 3
      BY <1>6, <3>1 DEF Open, StagesLeft
    <3>3. t \in Raised(r)
      BY <2>2
    <3> HIDE DEF r
    <3>4. JobOnward(r, t)
      BY <3>1, <3>2, <3>3, RaisedOnward
    <3>5. JobOnward(s, t)
      BY <3>1, <3>4 DEF JobOnward
    <3> QED BY <1>f, <2>2, <3>5
  <2> QED BY <1>6, <2>1, <2>2 DEF Open
<1>7. CASE Build(j)
  <2>1. PICK t \in {[s EXCEPT !.pc = "ready", !.entering = FALSE, !.open = TRUE],
                    [s EXCEPT !.pc = "failed", !.held = FALSE]} : Proceeds(j, t)
    BY <1>7 DEF Build
  <2>2. /\ t.services = s.services /\ t.ways = s.ways /\ t.tries = s.tries
        /\ t.pc \in {"ready", "failed"} /\ s.pc = "building"
    BY <1>0, <1>7, <2>1 DEF Build, Job
  <2> QED BY <1>f, <2>1, <2>2 DEF JobOnward, StagesLeft, AttemptLeft
<1>8. CASE Retry(j)
  <2>0. PICK t \in NextAttempt(s) : Proceeds(j, t)
    BY <1>8 DEF Retry
  <2>1. s.pc = "failed" /\ StagesLeft(s.pc) = 3
    BY <1>8 DEF Retry, StagesLeft
  <2>2. CASE s.tries > 1
    <3>1. t = [s EXCEPT !.pc = "acquire", !.tries = @ - 1]
      BY <1>0, <2>0, <2>2, TunnelAssumption DEF NextAttempt, Job
    <3>2. JobOnward(s, t)
      BY <1>0, <2>1, <3>1, TunnelAssumption DEF JobOnward, StagesLeft, Job
    <3> QED BY <1>f, <2>0, <3>2
  <2>3. CASE ~(s.tries > 1) /\ s.tries <= 1 /\ s.ways > 1
    <3>1. t = [s EXCEPT !.pc = "acquire", !.ways = @ - 1, !.tries = Attempts(s.way)]
      BY <2>0, <2>3 DEF NextAttempt
    <3>2. JobOnward(s, t)
      BY <1>0, <2>1, <3>1, TunnelAssumption DEF JobOnward, StagesLeft, Job
    <3> QED BY <1>f, <2>0, <3>2
  <2>4. CASE ~(s.tries > 1) /\ ~(s.tries <= 1 /\ s.ways > 1)
    <3>1. t \in Raised(s)
      BY <2>0, <2>4 DEF NextAttempt
    <3> QED BY <1>0, <1>f, <2>0, <2>1, <3>1, RaisedOnward
  <2> QED BY <2>2, <2>3, <2>4
<1>9. CASE Close(j) \/ CloseCancelled(j)
  <2>0. PICK left \in BOOLEAN : Proceeds(j, [s EXCEPT !.pc = "over", !.open = left, !.held = FALSE])
    <3>1. s.open \in BOOLEAN
      BY <1>0 DEF Job
    <3> QED BY <1>9, <3>1 DEF Close, CloseCancelled
  <2> DEFINE t == [s EXCEPT !.pc = "over", !.open = left, !.held = FALSE]
  <2>1. JobOnward(s, t)
    BY <1>0, <1>9 DEF Close, CloseCancelled, JobOnward, StagesLeft, Job
  <2>2. Proceeds(j, t)
    BY <2>0
  <2> HIDE DEF t
  <2> QED BY <1>f, <2>1, <2>2
<1>10. CASE CancelJob(j)
  <2> DEFINE t == JobCancelled(s)
  <2>1. t.services = s.services /\ t.pc \in {"over", "closing"}
    BY <1>0 DEF JobCancelled, Leave, Job
  <2>2. s.pc \in TunnelPcs \ {"closing", "over"} /\ sp' = [sp EXCEPT ![j] = t]
    BY <1>10 DEF CancelJob
  <2> HIDE DEF t
  <2>3. JobOnward(s, t)
    BY <2>1, <2>2 DEF JobOnward, StagesLeft, TunnelPcs
  <2> QED BY <1>f, <2>2, <2>3
<1>11. CASE AbandonedThread(j)
  BY <1>11 DEF AbandonedThread
<1> QED BY <1>1, <1>2, <1>3, <1>4, <1>5, <1>6, <1>7, <1>8, <1>9, <1>10, <1>11 DEF TunnelStep

\* No job goes in circles on its way to the device: a refusal, a failure, a
\* time limit, a lock that is lost or a cancellation takes it nearer its end,
\* for any number of jobs, candidates, attempts and services.
THEOREM TunnelJobsGetOn == TunnelSpec => TunnelJobGetsOn
<1>1. TunnelInv /\ TunnelInv' /\ [TunnelNext]_tunnelVars
      => [\A j \in TunnelJobs : sp'[j] = sp[j] \/ Nearer(JobLeft(sp'[j]), JobLeft(sp[j]))]_tunnelVars
  <2> SUFFICES ASSUME TunnelInv, TunnelInv', TunnelNext, sp' # sp, NEW i \in TunnelJobs, sp'[i] # sp[i]
               PROVE  Nearer(JobLeft(sp'[i]), JobLeft(sp[i]))
    OBVIOUS
  <2>1. PICK j \in TunnelJobs : TunnelStep(j) \/ CancelJob(j) \/ CloseCancelled(j)
    BY DEF TunnelNext
  <2>2. sp' = [sp EXCEPT ![j] = sp'[j]] /\ JobOnward(sp[j], sp'[j])
    BY <2>1, TunnelStepOnward
  <2>3. i = j /\ sp[j] \in Job /\ sp'[j] \in Job
    BY <2>2 DEF TunnelInv
  <2> QED BY <2>2, <2>3, JobNearer
<1> QED BY <1>1, TunnelAssumption, TunnelInvInit, TunnelInvStep, PTL DEF TunnelSpec, TunnelJobGetsOn

-------------------------------------------------------------------------------
(* The debugger.                                                           *)

\* The app and the conversation, by their fields.
App == [st : {"none", "suspended", "stopped", "running", "free", "dead"},
        why : Stops, exec : SUBSET (1 .. Pages)]
Host == [pc : HostPcs, why : Stops, stops : 0 .. MaxBreakpoints, page : 1 .. Pages,
         ok : BOOLEAN, txm : BOOLEAN, detached : BOOLEAN]

\* While the host exchanges commands and answers nothing else is on the wire
\* and the app does not run; while it waits for the app, at most what the app
\* has stopped for.
Quiet(h, a, w) ==
  /\ h.pc \notin {"await", "finally", "over"} => w = << >> /\ a.st # "running"
  /\ h.pc = "await" /\ w # << >> => Tail(w) = << >> /\ a.st # "running"

\* As long as debugger and app answer: in the second pass, with no write
\* refused so far, the pages before the present one are released; when the app
\* is told, all of them are.
RegionReleased(h, a, b) ==
  ~b /\ a.st = "stopped" =>
    /\ h.pc = "write" /\ h.ok => 1 .. (h.page - 1) \subseteq a.exec
    /\ h.pc = "tell" => a.exec = 1 .. Pages

ReleaseInv ==
  /\ DebuggerTypeOK
  /\ late = 0 => Quiet(host, app, wire) /\ RegionReleased(host, app, broken) /\ ~misled

LEMMA Types ==
  ASSUME ReleaseInv
  PROVE  /\ app \in App /\ host \in Host /\ wire \in Seq(Answers)
         /\ broken \in BOOLEAN /\ misled \in BOOLEAN /\ late \in 0 .. LateAnswers /\ late \in Nat
<1>1. late \in 0 .. LateAnswers
  BY DEF ReleaseInv, DebuggerTypeOK
<1> QED BY <1>1, DebuggerAssumption DEF ReleaseInv, DebuggerTypeOK, App, Host

\* An exchange: an answer may only be missing, or be another one than that to
\* the command, when the connection is gone or an answer came late.
LEMMA Exchanged ==
  ASSUME wire \in Seq(Answers), broken \in BOOLEAN, late \in 0 .. LateAnswers,
         NEW answer \in Answers, NEW x \in Exchange(answer)
  PROVE  /\ x.wire \in Seq(Answers) /\ x.late \in 0 .. LateAnswers
         /\ x.late = 0 => late = 0
         /\ x.late = 0 /\ wire = << >> => x.wire = << >>
         /\ x.late = 0 /\ wire = << >> /\ ~broken => x.reply = answer
<1> DEFINE queue == IF broken THEN wire ELSE Append(wire, answer)
<1>1. queue \in Seq(Answers)
  OBVIOUS
<1>2. wire = << >> /\ ~broken => queue = <<answer>>
  OBVIOUS
<1>3. wire = << >> /\ broken => queue = << >>
  OBVIOUS
<1>4. \/ queue # << >> /\ x = [reply |-> Head(queue), wire |-> Tail(queue), late |-> late]
      \/ queue = << >> /\ x = [reply |-> "", wire |-> << >>, late |-> late]
      \/ late < LateAnswers /\ x = [reply |-> "", wire |-> queue, late |-> late + 1]
  BY DEF Exchange
<1> HIDE DEF queue
<1>5. CASE queue # << >> /\ x = [reply |-> Head(queue), wire |-> Tail(queue), late |-> late]
  BY <1>1, <1>2, <1>3, <1>5
<1>6. CASE queue = << >> /\ x = [reply |-> "", wire |-> << >>, late |-> late]
  BY <1>1, <1>2, <1>3, <1>6
<1>7. CASE late < LateAnswers /\ x = [reply |-> "", wire |-> queue, late |-> late + 1]
  <2>0. late < LateAnswers
    BY <1>7
  <2>1. late + 1 \in 0 .. LateAnswers /\ late + 1 # 0
    BY <2>0, DebuggerAssumption
  <2> QED BY <1>1, <1>7, <2>1
<1> QED BY <1>4, <1>5, <1>6, <1>7

LEMMA Gone ==
  ASSUME host \in Host, NEW p \in HostPcs
  PROVE  Goto(p) \in Host /\ Goto(p).pc = p
BY DEF Goto, Host

\* Where a batch of pages goes on: at the next page, at the pass after it with
\* its first page if all went well so far, or to the end of the conversation.
LEMMA Batched ==
  ASSUME host \in Host, NEW ok \in BOOLEAN, NEW then \in {"write", "tell"}
  PROVE  /\ Batch(ok, then) \in Host
         /\ \/ /\ host.page < Pages /\ Batch(ok, then).pc = host.pc
               /\ Batch(ok, then).page = host.page + 1 /\ Batch(ok, then).ok = ok
            \/ /\ host.page = Pages /\ ok /\ Batch(ok, then).pc = then
               /\ Batch(ok, then).page = 1
            \/ Batch(ok, then).pc = "finally"
<1> USE DebuggerAssumption
<1>1. 1 \in 1 .. Pages /\ host.page \in 1 .. Pages /\ TRUE \in BOOLEAN
  BY DEF Host
<1>2. CASE host.page < Pages
  <2>1. host.page + 1 \in 1 .. Pages
    BY <1>1, <1>2
  <2>2. Batch(ok, then) = [host EXCEPT !.page = host.page + 1, !.ok = ok]
    BY <1>2 DEF Batch
  <2>3. [host EXCEPT !.page = host.page + 1, !.ok = ok] \in Host
    BY <2>1, Zenon DEF Host
  <2>4. [host EXCEPT !.page = host.page + 1, !.ok = ok].pc = host.pc
    BY Zenon DEF Host
  <2>5. [host EXCEPT !.page = host.page + 1, !.ok = ok].page = host.page + 1
    BY Zenon DEF Host
  <2>6. [host EXCEPT !.page = host.page + 1, !.ok = ok].ok = ok
    BY Zenon DEF Host
  <2> QED BY <1>2, <2>2, <2>3, <2>4, <2>5, <2>6
<1>3. CASE ~(host.page < Pages)
  <2> DEFINE g == IF ok THEN Goto(then) ELSE ScriptOver
  <2>1. g \in Host /\ g.pc = (IF ok THEN then ELSE "finally")
    BY Gone DEF HostPcs, ScriptOver
  <2>2. Batch(ok, then) = [g EXCEPT !.page = 1, !.ok = TRUE]
    BY <1>3 DEF Batch
  <2> HIDE DEF g
  <2>3. [g EXCEPT !.page = 1, !.ok = TRUE] \in Host
    BY <1>1, <2>1, Zenon DEF Host
  <2>4. [g EXCEPT !.page = 1, !.ok = TRUE].pc = g.pc
    BY <2>1, Zenon DEF Host
  <2>5. [g EXCEPT !.page = 1, !.ok = TRUE].page = 1
    BY <2>1, Zenon DEF Host
  <2>6. host.page = Pages
    BY <1>1, <1>3
  <2> QED BY <2>1, <2>2, <2>3, <2>4, <2>5, <2>6
<1> QED BY <1>2, <1>3

\* A command whose answer decides where the host goes on, but for the writes
\* and for telling the app.
LEMMA Talks ==
  ASSUME ReleaseInv, host.pc \notin {"await", "finally", "over"},
         NEW answer \in Answers, NEW x \in Exchange(answer), NEW h \in Host, Continues(x, h),
         h.pc \notin {"await", "tell"}, h.pc = "write" => h.page = 1,
         app' \in App, late' = 0 => app'.st # "running", UNCHANGED <<broken, misled>>
  PROVE  ReleaseInv'
<1>1. /\ x.wire \in Seq(Answers) /\ x.late \in 0 .. LateAnswers
      /\ x.late = 0 => late = 0 /\ (wire = << >> => x.wire = << >>)
  BY Types, Exchanged
<1>2. host' = h /\ wire' = x.wire /\ late' = x.late
  BY DEF Continues
<1>3. DebuggerTypeOK'
  BY <1>1, <1>2, Types DEF DebuggerTypeOK, App, Host
<1>4. late' = 0 => late = 0 /\ wire = << >>
  BY <1>1, <1>2 DEF ReleaseInv, Quiet
<1>5. late' = 0 => Quiet(h, app', wire') /\ ~misled'
  BY <1>1, <1>2, <1>4 DEF ReleaseInv, Quiet
<1>6. RegionReleased(h, app', broken')
  BY DEF RegionReleased, App
<1> QED BY <1>2, <1>3, <1>5, <1>6 DEF ReleaseInv

\* The host goes on without a command that is answered.
LEMMA GoesOn ==
  ASSUME ReleaseInv, host.pc \notin {"await", "finally", "over"},
         NEW h \in Host, host' = h, app' \in App,
         late = 0 => h.pc \in {"await", "finally", "over"} \/ app'.st # "running",
         h.pc \notin {"write", "tell"}, UNCHANGED <<wire, broken, late, misled>>
  PROVE  ReleaseInv'
<1>1. DebuggerTypeOK'
  BY Types DEF DebuggerTypeOK, App, Host
<1>2. late' = 0 => Quiet(h, app', wire') /\ ~misled'
  BY DEF ReleaseInv, Quiet
<1>3. RegionReleased(h, app', broken')
  BY DEF RegionReleased
<1> QED BY <1>1, <1>2, <1>3 DEF ReleaseInv

LEMMA LaunchKeeps == ASSUME ReleaseInv, Launch PROVE ReleaseInv'
<1>1. CASE app' = [app EXCEPT !.st = "suspended"] /\ host' = Goto("launched")
  <2>1. app' \in App /\ app'.st # "running"
    BY <1>1, Types DEF App
  <2>2. Goto("launched") \in Host /\ Goto("launched").pc = "launched"
    BY Types, Gone DEF HostPcs
  <2> QED BY <1>1, <2>1, <2>2, GoesOn DEF Launch
<1>2. CASE UNCHANGED app /\ host' = Goto("over")
  <2>1. Goto("over") \in Host /\ Goto("over").pc = "over"
    BY Types, Gone DEF HostPcs
  <2> QED BY <1>2, <2>1, Types, GoesOn DEF Launch
<1> QED BY <1>1, <1>2 DEF Launch

LEMMA ConnectKeeps == ASSUME ReleaseInv, Connect PROVE ReleaseInv'
<1>1. \A p \in {"noack", "over"} : Goto(p) \in Host /\ Goto(p).pc = p
  BY Types, Gone DEF HostPcs
<1>2. PICK p \in {"noack", "over"} : host' = Goto(p)
  BY DEF Connect
<1>3. DebuggerTypeOK'
  BY <1>1, <1>2, Types DEF Connect, DebuggerTypeOK, Host, App
<1> QED BY <1>1, <1>2, <1>3 DEF Connect, ReleaseInv, Quiet, RegionReleased

\* The commands after which the host goes on the same way whatever is answered,
\* or as the answer says; the app stays where it is.
LEMMA CommandsKeep ==
  ASSUME ReleaseInv, StartNoAckMode \/ Inspect \/ StepOver \/ PrepareRegion \/ Serve
  PROVE  ReleaseInv'
<1>0. app \in App /\ host \in Host /\ \A p \in HostPcs : Goto(p) \in Host /\ Goto(p).pc = p
  BY Types, Gone
<1>1. ASSUME NEW a \in Answers PROVE Stopped(a) \in Answers
  BY DEF Stopped, Answers
<1>2. ASSUME host.pc \notin {"await", "finally", "over"} PROVE late = 0 => app.st # "running"
  BY <1>2 DEF ReleaseInv, Quiet
<1>3. ASSUME host.pc \notin {"await", "finally", "over"}, NEW a \in Answers, NEW x \in Exchange(a),
             NEW h \in Host, Continues(x, h), h.pc \notin {"await", "tell"},
             h.pc = "write" => h.page = 1, UNCHANGED <<app, broken, misled>>
      PROVE  ReleaseInv'
  <2>1. late' = 0 => late = 0
    BY <1>3, Exchanged, Types DEF Continues
  <2> QED BY <1>0, <1>2, <1>3, <2>1, Talks
<1>4. CASE StartNoAckMode
  <2>1. PICK x \in Exchange("OK") : Continues(x, Goto("attach"))
    BY <1>4 DEF StartNoAckMode
  <2> QED BY <1>0, <1>3, <1>4, <2>1 DEF StartNoAckMode, Answers, HostPcs
<1>5. CASE Inspect
  <2> DEFINE a == Stopped(IF app.why = "signal" THEN "other" ELSE "brk")
  <2>1. a \in Answers
    BY <1>1 DEF Answers
  <2>2. PICK x \in Exchange(a) : Continues(x, IF x.reply = "brk" THEN Goto("step") ELSE Goto("signal"))
    BY <1>5 DEF Inspect
  <2> HIDE DEF a
  <2> QED BY <1>0, <1>3, <1>5, <2>1, <2>2 DEF Inspect, HostPcs
<1>6. CASE StepOver
  <2>1. CASE host.why = "unknown"
    BY <1>0, <1>6, <2>1, <1>2, GoesOn DEF StepOver, HostPcs, ReleaseInv
  <2>2. CASE host.why # "unknown"
    <3>1. Stopped("OK") \in Answers
      BY <1>1 DEF Answers
    <3>2. PICK x \in Exchange(Stopped("OK")) : Continues(x, Goto("handle"))
      BY <1>6, <2>2 DEF StepOver
    <3> QED BY <1>0, <1>3, <1>6, <3>1, <3>2 DEF StepOver, HostPcs
  <2> QED BY <2>1, <2>2
<1>7. CASE PrepareRegion
  <2> DEFINE begin == [Goto("read") EXCEPT !.page = 1, !.ok = TRUE]
  <2>1. begin \in Host /\ begin.pc = "read"
    <3>1. Goto("read") \in Host /\ Goto("read").pc = "read"
      BY <1>0 DEF HostPcs
    <3>2. 1 \in 1 .. Pages
      BY DebuggerAssumption
    <3>3. \A g \in Host : [g EXCEPT !.page = 1, !.ok = TRUE] \in Host
      BY <3>2, Zenon DEF Host
    <3>4. \A g \in Host : [g EXCEPT !.page = 1, !.ok = TRUE].pc = g.pc
      BY Zenon DEF Host
    <3> QED BY <3>1, <3>3, <3>4
  <2>2. CASE host.why = "prepare"
    <3>1. host' = begin /\ UNCHANGED <<app, wire, broken, late, misled>>
      BY <1>7, <2>2 DEF PrepareRegion
    <3>2. host.pc = "handle"
      BY <1>7 DEF PrepareRegion
    <3> HIDE DEF begin
    <3> QED BY <1>0, <1>2, <2>1, <3>1, <3>2, GoesOn
  <2>3. CASE host.why # "prepare"
    <3>1. PICK answer \in {"address", "E"} : \E x \in Exchange(Stopped(answer)) :
            Continues(x, IF x.reply \in {"", "E"} THEN Goto("resume") ELSE begin)
      BY <1>7, <2>3 DEF PrepareRegion
    <3>2. PICK x \in Exchange(Stopped(answer)) :
            Continues(x, IF x.reply \in {"", "E"} THEN Goto("resume") ELSE begin)
      BY <3>1
    <3>3. Stopped(answer) \in Answers
      BY <1>1 DEF Answers
    <3> HIDE DEF begin
    <3> QED BY <1>0, <1>3, <1>7, <2>1, <3>2, <3>3 DEF PrepareRegion, HostPcs
  <2> QED BY <2>2, <2>3
<1>8. CASE Serve
  <2>1. Stopped("OK") \in Answers
    BY <1>1 DEF Answers
  <2>2. PICK x \in Exchange(Stopped("OK")) : Continues(x, Goto("resume"))
    BY <1>8 DEF Serve
  <2> QED BY <1>0, <1>3, <1>8, <2>1, <2>2 DEF Serve, HostPcs
<1> QED BY <1>4, <1>5, <1>6, <1>7, <1>8

LEMMA AttachKeeps == ASSUME ReleaseInv, Attach PROVE ReleaseInv'
<1>0. app \in App /\ host \in Host /\ \A p \in HostPcs : Goto(p) \in Host /\ Goto(p).pc = p
  BY Types, Gone
<1>1. PICK x \in Exchange("launch") :
        Continues(x, IF x.reply \in Stops /\ host.txm THEN Goto("resume") ELSE Goto("finally"))
  BY DEF Attach
<1>2. late' = 0 => late = 0
  BY <1>1, Exchanged, Types DEF Continues, Answers, Stops
<1>3. app' \in App
  BY <1>0 DEF Attach, App
<1>4. late' = 0 => app'.st # "running"
  BY <1>0, <1>2 DEF Attach, App, ReleaseInv, Quiet
<1> QED BY <1>0, <1>1, <1>3, <1>4, Talks DEF Attach, Answers, Stops, HostPcs

\* The loop goes on: the app runs, and the host waits for it.
LEMMA RunsKeep ==
  ASSUME ReleaseInv, Resume \/ PassSignalOn
  PROVE  ReleaseInv'
<1>0. app \in App /\ host \in Host /\ \A p \in HostPcs : Goto(p) \in Host /\ Goto(p).pc = p
  BY Types, Gone
<1>1. CASE host' = ScriptOver /\ app' \in App
  BY <1>0, <1>1, GoesOn DEF Resume, PassSignalOn, ScriptOver, HostPcs
<1>2. CASE host' = [Goto("await") EXCEPT !.stops = Counted(host)] /\ host.stops < MaxBreakpoints /\ app' \in App
  <2>1. Counted(host) \in 0 .. MaxBreakpoints
    BY <1>0, <1>2, DebuggerAssumption DEF Counted, Host
  <2>2. Goto("await") \in Host /\ Goto("await").pc = "await"
    BY <1>0 DEF HostPcs
  <2>3. host' \in Host /\ host'.pc = "await"
    BY <1>2, <2>1, <2>2 DEF Host
  <2> QED BY <1>2, <2>3, GoesOn DEF Resume, PassSignalOn
<1>3. app' \in App
  BY <1>0 DEF Resume, PassSignalOn, App
<1> QED BY <1>0, <1>1, <1>2, <1>3, DebuggerAssumption DEF Resume, PassSignalOn, Host

LEMMA EndsKeep ==
  ASSUME ReleaseInv, Detach \/ NothingAsked \/ Finally \/ SendRaises \/ Cancelled
  PROVE  ReleaseInv'
<1>0. app \in App /\ host \in Host /\ \A p \in HostPcs : Goto(p) \in Host /\ Goto(p).pc = p
  BY Types, Gone
<1>1. CASE Detach
  <2>1. host' \in Host /\ host'.pc = "finally"
    BY <1>0, <1>1 DEF Detach, ScriptOver, HostPcs, Host
  <2>2. app' \in App
    BY <1>0, <1>1 DEF Detach, App
  <2> QED BY <1>1, <2>1, <2>2, GoesOn DEF Detach
<1>2. CASE NothingAsked
  BY <1>0, <1>2, GoesOn DEF NothingAsked, HostPcs, ReleaseInv, Quiet
<1>3. CASE Finally
  <2>1. app' \in App /\ host' \in Host /\ host'.pc = "over"
    BY <1>0, <1>3 DEF Finally, App, HostPcs
  <2> QED BY <1>3, <2>1, Types DEF Finally, ReleaseInv, DebuggerTypeOK, Quiet, RegionReleased, App, Host
<1>4. CASE SendRaises \/ Cancelled
  <2>1. Goto("finally") \in Host /\ Goto("finally").pc = "finally"
    BY <1>0 DEF HostPcs
  <2>2. host' = Goto("finally") /\ UNCHANGED <<app, wire, broken, late, misled>>
    BY <1>4 DEF SendRaises, Cancelled
  <2> QED BY <2>1, <2>2, Types DEF ReleaseInv, DebuggerTypeOK, Quiet, RegionReleased, App, Host
<1> QED BY <1>1, <1>2, <1>3, <1>4

LEMMA AwaitKeeps == ASSUME ReleaseInv, AwaitStop PROVE ReleaseInv'
<1>0. /\ app \in App /\ host \in Host /\ wire \in Seq(Answers)
      /\ \A p \in HostPcs : Goto(p) \in Host /\ Goto(p).pc = p
  BY Types, Gone
<1>1. CASE wire # << >> /\ wire' = Tail(wire)
           /\ host' = CASE Head(wire) \in Stops -> [Goto("inspect") EXCEPT !.why = Head(wire)]
                        [] Head(wire) = "exit" -> ScriptOver
                        [] OTHER -> Goto("resume")
  <2>1. wire' \in Seq(Answers)
    BY <1>0, <1>1
  <2>2. host' \in Host /\ host'.pc \in {"inspect", "finally", "resume"}
    <3>1. \A w \in Stops : [Goto("inspect") EXCEPT !.why = w] \in Host
                           /\ [Goto("inspect") EXCEPT !.why = w].pc = "inspect"
      <4>1. Goto("inspect") \in Host /\ Goto("inspect").pc = "inspect"
        BY <1>0 DEF HostPcs
      <4> QED BY <4>1 DEF Host
    <3>2. \A p \in {"finally", "resume"} : Goto(p) \in Host /\ Goto(p).pc = p
      BY <1>0 DEF HostPcs
    <3> QED BY <1>1, <3>1, <3>2 DEF ScriptOver
  <2>3. late = 0 => wire' = << >> /\ app.st # "running"
    BY <1>1 DEF AwaitStop, ReleaseInv, Quiet
  <2>4. DebuggerTypeOK'
    BY <2>1, <2>2, Types DEF AwaitStop, DebuggerTypeOK, App, Host
  <2> QED BY <2>2, <2>3, <2>4 DEF AwaitStop, ReleaseInv, Quiet, RegionReleased
<1>2. CASE wire = << >> /\ host' = ScriptOver /\ UNCHANGED wire
  <2>1. host' \in Host /\ host'.pc = "finally"
    BY <1>0, <1>2 DEF ScriptOver, HostPcs
  <2> QED BY <1>2, <2>1, Types DEF AwaitStop, ReleaseInv, DebuggerTypeOK, Quiet, RegionReleased, App, Host
<1> QED BY <1>1, <1>2 DEF AwaitStop

LEMMA ReadKeeps == ASSUME ReleaseInv, ReadPage PROVE ReleaseInv'
<1>1. PICK answer \in {"byte", "E"} : \E x \in Exchange(Stopped(answer)) :
        Continues(x, Batch(host.ok /\ x.reply \in {"byte", "OK"}, "write"))
  BY DEF ReadPage
<1>2. PICK x \in Exchange(Stopped(answer)) :
        Continues(x, Batch(host.ok /\ x.reply \in {"byte", "OK"}, "write"))
  BY <1>1
<1> DEFINE ok == host.ok /\ x.reply \in {"byte", "OK"}
<1>3. ok \in BOOLEAN
  BY Types DEF Host
<1>4. Stopped(answer) \in Answers
  BY DEF Stopped, Answers
<1>5. Continues(x, Batch(ok, "write"))
  BY <1>2
<1>6. Batch(ok, "write") \in Host /\ Batch(ok, "write").pc \in {"read", "write", "finally"}
      /\ (Batch(ok, "write").pc = "write" => Batch(ok, "write").page = 1)
  <2> HIDE DEF ok
  <2> QED BY <1>3, Batched, Types DEF ReadPage
<1>7. late' = 0 => app'.st # "running"
  <2>1. late' = 0 => late = 0
    BY <1>4, <1>5, Exchanged, Types DEF Continues
  <2> QED BY <2>1 DEF ReadPage, ReleaseInv, Quiet
<1> HIDE DEF ok
<1> QED BY <1>4, <1>5, <1>6, <1>7, Talks, Types DEF ReadPage

\* A write that is refused ends the batch's good record; one that is accepted
\* has released its page.
LEMMA WriteKeeps == ASSUME ReleaseInv, WritePage PROVE ReleaseInv'
<1>0. app \in App /\ host \in Host
  BY Types
<1>1. PICK answer \in {"OK", "E"} :
        /\ \E x \in Exchange(Stopped(answer)) : Continues(x, Batch(host.ok /\ Accepted(x.reply), "tell"))
        /\ app' = IF Stopped(answer) = "OK" /\ ~broken
                  THEN [app EXCEPT !.exec = @ \cup {host.page}] ELSE app
  BY DEF WritePage
<1>2. PICK x \in Exchange(Stopped(answer)) : Continues(x, Batch(host.ok /\ Accepted(x.reply), "tell"))
  BY <1>1
<1> DEFINE ok == host.ok /\ Accepted(x.reply)
           h == Batch(ok, "tell")
<1>3. ok \in BOOLEAN
  BY <1>0 DEF Host, Accepted
<1>4. Stopped(answer) \in Answers
  BY DEF Stopped, Answers
<1>5. host' = h /\ wire' = x.wire /\ late' = x.late
  BY <1>2 DEF Continues
<1>6. h \in Host
      /\ \/ host.page < Pages /\ h.pc = "write" /\ h.page = host.page + 1 /\ h.ok = ok
         \/ host.page = Pages /\ ok /\ h.pc = "tell"
         \/ h.pc = "finally"
  <2> HIDE DEF ok
  <2> QED BY <1>0, <1>3, Batched DEF WritePage
<1>7. /\ x.wire \in Seq(Answers) /\ x.late \in 0 .. LateAnswers
      /\ x.late = 0 => late = 0
      /\ x.late = 0 /\ wire = << >> => x.wire = << >> /\ (~broken => x.reply = Stopped(answer))
  BY <1>4, Types, Exchanged
<1>8. app' \in App /\ app'.st = app.st /\ app.exec \subseteq app'.exec
      /\ (Stopped(answer) = "OK" /\ ~broken => host.page \in app'.exec)
  BY <1>0, <1>1 DEF App, Host
<1>9. ASSUME late' = 0
      PROVE  late = 0 /\ wire = << >> /\ app.st # "running" /\ RegionReleased(host, app, broken) /\ ~misled
  BY <1>5, <1>7, <1>9 DEF ReleaseInv, Quiet, WritePage
<1>10. DebuggerTypeOK'
  <2> HIDE DEF h
  <2> QED BY <1>5, <1>6, <1>7, <1>8, Types DEF WritePage, DebuggerTypeOK, App, Host
<1>11. ASSUME late' = 0, ~broken, app'.st = "stopped", ok
       PROVE  1 .. host.page \subseteq app'.exec
  <2>1. x.reply = answer /\ Stopped(answer) = answer
    BY <1>5, <1>7, <1>8, <1>9, <1>11 DEF Stopped
  <2>2. host.page \in app'.exec
    BY <1>1, <1>8, <1>11, <2>1 DEF Accepted
  <2>3. 1 .. (host.page - 1) \subseteq app.exec
    BY <1>8, <1>9, <1>11 DEF RegionReleased, WritePage
  <2>4. host.page \in Nat
    BY <1>0 DEF Host
  <2> QED BY <1>8, <2>2, <2>3, <2>4
<1>12. late' = 0 => RegionReleased(h, app', broken')
  <2> HIDE DEF ok, h
  <2> SUFFICES ASSUME late' = 0, ~broken, app'.st = "stopped"
               PROVE  /\ h.pc = "write" /\ h.ok => 1 .. (h.page - 1) \subseteq app'.exec
                      /\ h.pc = "tell" => app'.exec = 1 .. Pages
    BY DEF RegionReleased, WritePage
  <2>1. ASSUME h.pc = "write", h.ok PROVE 1 .. (h.page - 1) \subseteq app'.exec
    <3>1. ok /\ h.page = host.page + 1
      BY <1>6, <2>1
    <3>2. h.page - 1 = host.page
      BY <1>0, <3>1 DEF Host
    <3> QED BY <1>11, <3>1, <3>2
  <2>2. ASSUME h.pc = "tell" PROVE app'.exec = 1 .. Pages
    <3>1. ok /\ host.page = Pages
      BY <1>6, <2>2
    <3>2. app'.exec \subseteq 1 .. Pages
      BY <1>8 DEF App
    <3> QED BY <1>11, <3>1, <3>2
  <2> QED BY <2>1, <2>2
<1> HIDE DEF ok, h
<1> QED BY <1>5, <1>6, <1>7, <1>8, <1>9, <1>10, <1>12 DEF WritePage, ReleaseInv, Quiet

LEMMA TellKeeps == ASSUME ReleaseInv, TellApp PROVE ReleaseInv'
<1>1. PICK x \in Exchange(Stopped("OK")) : Continues(x, Goto("resume"))
  BY DEF TellApp
<1>2. Stopped("OK") \in Answers
  BY DEF Stopped, Answers
<1>3. /\ x.wire \in Seq(Answers) /\ x.late \in 0 .. LateAnswers
      /\ x.late = 0 => late = 0 /\ (wire = << >> => x.wire = << >>)
  BY <1>2, Types, Exchanged
<1>4. host' \in Host /\ host'.pc = "resume" /\ wire' = x.wire /\ late' = x.late
  BY <1>1, Types, Gone DEF Continues, HostPcs
<1>5. misled' \in BOOLEAN
  BY DEF TellApp
<1>6. late' = 0 => ~misled' /\ wire' = << >> /\ app.st # "running"
  BY <1>3, <1>4 DEF TellApp, ReleaseInv, Quiet, RegionReleased
<1>7. DebuggerTypeOK'
  BY <1>3, <1>4, <1>5, Types DEF TellApp, DebuggerTypeOK, App, Host
<1> QED BY <1>4, <1>6, <1>7 DEF TellApp, ReleaseInv, Quiet, RegionReleased

\* The app and the connection.
LEMMA SurroundingsKeep == ASSUME ReleaseInv, AppStops \/ Breaks PROVE ReleaseInv'
<1>0. app \in App /\ host \in Host /\ wire \in Seq(Answers) /\ broken \in BOOLEAN
  BY Types
<1>1. CASE AppStops
  <2>1. PICK a \in Answers : wire' = IF broken THEN wire ELSE Append(wire, a)
    BY <1>1 DEF AppStops, Answers, Stops
  <2>2. wire' \in Seq(Answers)
    BY <1>0, <2>1
  <2>3. app' \in App /\ app'.st # "running"
    BY <1>0, <1>1 DEF AppStops, App, Stops
  <2>4. late = 0 => host.pc \in {"await", "finally"}
    BY <1>1 DEF AppStops, ReleaseInv, Quiet
  <2>5. late = 0 /\ host.pc = "await" => wire' = << >> \/ Tail(wire') = << >>
    <3>1. late = 0 /\ host.pc = "await" => wire = << >>
      BY <1>1 DEF AppStops, ReleaseInv, Quiet
    <3> QED BY <2>1, <3>1
  <2>6. DebuggerTypeOK'
    BY <1>1, <2>2, <2>3, Types DEF AppStops, DebuggerTypeOK, App, Host
  <2> QED BY <1>1, <2>3, <2>4, <2>5, <2>6 DEF AppStops, ReleaseInv, Quiet, RegionReleased
<1>2. CASE Breaks
  BY <1>2, Types DEF Breaks, ReleaseInv, DebuggerTypeOK, Quiet, RegionReleased, App, Host
<1> QED BY <1>1, <1>2

LEMMA ReleaseInvInit == DebuggerInit => ReleaseInv
<1> SUFFICES ASSUME DebuggerInit PROVE ReleaseInv
  OBVIOUS
<1>1. 1 \in 1 .. Pages /\ 0 \in 0 .. MaxBreakpoints /\ 0 \in 0 .. LateAnswers
  BY DebuggerAssumption
<1>2. host \in Host /\ host.pc = "new"
  BY <1>1 DEF DebuggerInit, Host, HostPcs, Stops
<1>3. app \in App /\ app.st = "none"
  BY DEF DebuggerInit, App, Stops
<1>4. wire = << >> /\ broken = FALSE /\ late = 0 /\ misled = FALSE
  BY DEF DebuggerInit
<1>5. wire \in Seq(Answers)
  BY <1>4
<1>6. DebuggerTypeOK
  BY <1>1, <1>2, <1>3, <1>4, <1>5 DEF DebuggerTypeOK, App, Host
<1> QED BY <1>2, <1>3, <1>4, <1>6 DEF ReleaseInv, Quiet, RegionReleased

LEMMA ReleaseInvStep == ReleaseInv /\ [DebuggerNext]_debuggerVars => ReleaseInv'
<1> SUFFICES ASSUME ReleaseInv, [DebuggerNext]_debuggerVars PROVE ReleaseInv'
  OBVIOUS
<1>1. CASE UNCHANGED debuggerVars
  BY <1>1 DEF debuggerVars, ReleaseInv, DebuggerTypeOK, Quiet, RegionReleased
<1> QED BY <1>1, LaunchKeeps, ConnectKeeps, CommandsKeep, AttachKeeps, RunsKeep, EndsKeep, AwaitKeeps,
           ReadKeeps, WriteKeeps, TellKeeps, SurroundingsKeep DEF DebuggerNext, HostStep

\* TellsTruth: as long as no answer comes late, the app is told of a region
\* only when every page of it is released, however commands are refused, the
\* connection breaks, or the job is cancelled; and nothing leaves its type.
THEOREM AppIsToldTheTruth == DebuggerSpec => [](DebuggerTypeOK /\ TellsTruth)
<1>1. ReleaseInv => DebuggerTypeOK /\ TellsTruth
  BY DEF ReleaseInv, TellsTruth
<1> QED BY <1>1, ReleaseInvInit, ReleaseInvStep, PTL DEF DebuggerSpec

\* One of the conversation's numbers is less, and those before it are the same.
JitOnward(h, g) ==
  \/ PartsLeft(g.pc) < PartsLeft(h.pc)
  \/ PartsLeft(g.pc) = PartsLeft(h.pc) /\ g.stops > h.stops
  \/ PartsLeft(g.pc) = PartsLeft(h.pc) /\ g.stops = h.stops /\ StopLeft(g.pc) < StopLeft(h.pc)
  \/ g.pc = h.pc /\ g.stops = h.stops /\ g.page > h.page

LEMMA JitLeftTyped ==
  ASSUME NEW h \in Host
  PROVE  /\ PartsLeft(h.pc) \in Nat /\ MaxBreakpoints - h.stops \in Nat
         /\ StopLeft(h.pc) \in Nat /\ Pages - h.page \in Nat
<1>1. h.stops \in 0 .. MaxBreakpoints /\ h.page \in 1 .. Pages
  BY DEF Host
<1>2. PartsLeft(h.pc) \in Nat /\ StopLeft(h.pc) \in Nat
  BY DEF PartsLeft, StopLeft
<1> QED BY <1>1, <1>2, DebuggerAssumption

LEMMA JitNearer ==
  ASSUME NEW h \in Host, NEW g \in Host, JitOnward(h, g)
  PROVE  Nearer(JitLeft(g), JitLeft(h))
<1> DEFINE stops(n) == MaxBreakpoints - n.stops
           pages(n) == Pages - n.page
<1>1. ASSUME NEW n \in Host
      PROVE  PartsLeft(n.pc) \in Nat /\ stops(n) \in Nat /\ StopLeft(n.pc) \in Nat /\ pages(n) \in Nat
  BY JitLeftTyped
<1>2. {h.stops, g.stops} \subseteq 0 .. MaxBreakpoints /\ {h.page, g.page} \subseteq 1 .. Pages
  BY DEF Host
<1>3. /\ g.stops > h.stops => stops(g) < stops(h)
      /\ g.stops = h.stops => stops(g) = stops(h)
      /\ g.page > h.page => pages(g) < pages(h)
  BY <1>2, DebuggerAssumption
<1>4. /\ JitLeft(h) = <<PartsLeft(h.pc), stops(h), StopLeft(h.pc), pages(h)>>
      /\ JitLeft(g) = <<PartsLeft(g.pc), stops(g), StopLeft(g.pc), pages(g)>>
  BY DEF JitLeft
<1> HIDE DEF stops, pages
<1>5. \/ PartsLeft(g.pc) < PartsLeft(h.pc)
      \/ PartsLeft(g.pc) = PartsLeft(h.pc) /\ stops(g) < stops(h)
      \/ PartsLeft(g.pc) = PartsLeft(h.pc) /\ stops(g) = stops(h) /\ StopLeft(g.pc) < StopLeft(h.pc)
      \/ PartsLeft(g.pc) = PartsLeft(h.pc) /\ stops(g) = stops(h) /\ StopLeft(g.pc) = StopLeft(h.pc)
         /\ pages(g) < pages(h)
  BY <1>3 DEF JitOnward
<1>6. /\ PartsLeft(h.pc) \in Nat /\ stops(h) \in Nat /\ StopLeft(h.pc) \in Nat /\ pages(h) \in Nat
      /\ PartsLeft(g.pc) \in Nat /\ stops(g) \in Nat /\ StopLeft(g.pc) \in Nat /\ pages(g) \in Nat
  BY <1>1
<1>7. Nearer(<<PartsLeft(g.pc), stops(g), StopLeft(g.pc), pages(g)>>,
             <<PartsLeft(h.pc), stops(h), StopLeft(h.pc), pages(h)>>)
  BY <1>5, <1>6, NearerOfFour
<1> QED BY <1>4, <1>7

LEMMA WhereTo ==
  ASSUME host \in Host, NEW p \in HostPcs
  PROVE  Goto(p).pc = p /\ Goto(p).stops = host.stops /\ Goto(p).page = host.page
BY DEF Goto, Host

\* Before the loop, after it, and where something is raised.
LEMMA PartsOnward ==
  ASSUME host \in Host, host' \in Host,
         Launch \/ Connect \/ StartNoAckMode \/ Attach \/ Detach \/ Finally \/ SendRaises \/ Cancelled,
         host' # host
  PROVE  JitOnward(host, host')
<1>1. \A p \in HostPcs : Goto(p).pc = p
  BY WhereTo
<1>2. CASE Launch
  <2>1. host.pc = "new" /\ host'.pc \in {"launched", "over"}
    BY <1>1, <1>2 DEF Launch, HostPcs
  <2> QED BY <2>1 DEF JitOnward, PartsLeft
<1>3. CASE Connect
  <2>1. host.pc = "launched" /\ host'.pc \in {"noack", "over"}
    BY <1>1, <1>3 DEF Connect, HostPcs
  <2> QED BY <2>1 DEF JitOnward, PartsLeft
<1>4. CASE StartNoAckMode
  <2>1. host.pc = "noack" /\ host'.pc = "attach"
    BY <1>1, <1>4 DEF StartNoAckMode, Continues, HostPcs
  <2> QED BY <2>1 DEF JitOnward, PartsLeft
<1>5. CASE Attach
  <2>1. host.pc = "attach" /\ host'.pc \in {"resume", "finally"}
    BY <1>1, <1>5 DEF Attach, Continues, HostPcs
  <2> QED BY <2>1 DEF JitOnward, PartsLeft
<1>6. CASE Detach
  <2>1. host.pc = "handle" /\ host'.pc = "finally"
    BY <1>1, <1>6, Gone DEF Detach, ScriptOver, HostPcs, Host
  <2> QED BY <2>1 DEF JitOnward, PartsLeft
<1>7. CASE Finally
  <2>1. host.pc = "finally" /\ host'.pc = "over"
    BY <1>1, <1>7 DEF Finally, HostPcs
  <2> QED BY <2>1 DEF JitOnward, PartsLeft
<1>8. CASE SendRaises \/ Cancelled
  <2>1. host.pc \in HostPcs \ {"new", "launched", "finally", "over"} /\ host'.pc = "finally"
    BY <1>1, <1>8 DEF SendRaises, Cancelled, HostPcs, Host
  <2> QED BY <2>1 DEF JitOnward, PartsLeft, HostPcs
<1> QED BY <1>2, <1>3, <1>4, <1>5, <1>6, <1>7, <1>8

\* A round of the loop: every one but the head uses up a phase.
LEMMA RoundOnward ==
  ASSUME host \in Host, host' \in Host,
         Resume \/ AwaitStop \/ Inspect \/ PassSignalOn \/ StepOver \/ PrepareRegion \/ Serve \/ NothingAsked \/ TellApp
  PROVE  JitOnward(host, host')
<1>1. \A p \in HostPcs : Goto(p) \in Host /\ Goto(p).pc = p /\ Goto(p).stops = host.stops
  BY WhereTo, Gone
<1>2. CASE Resume \/ PassSignalOn
  <2>1. host.pc \in {"resume", "signal"}
    BY <1>2 DEF Resume, PassSignalOn
  <2>2. CASE host' = ScriptOver
    <3>1. host'.pc = "finally"
      BY <1>1, <2>2 DEF ScriptOver, HostPcs
    <3> QED BY <2>1, <3>1 DEF JitOnward, PartsLeft
  <2>3. CASE host' = [Goto("await") EXCEPT !.stops = Counted(host)]
    <3>1. host'.pc = "await" /\ host'.stops = host.stops + 1
      BY <1>1, <2>3 DEF Counted, HostPcs, Host
    <3>2. host.stops \in Int
      BY DebuggerAssumption DEF Host
    <3> QED BY <2>1, <3>1, <3>2 DEF JitOnward, PartsLeft
  <2> QED BY <1>2, <2>2, <2>3 DEF Resume, PassSignalOn
<1>3. CASE AwaitStop
  <2>0. host.pc = "await"
    BY <1>3 DEF AwaitStop
  <2>1. \/ host' = [Goto("inspect") EXCEPT !.why = Head(wire)]
        \/ host' = ScriptOver \/ host' = Goto("resume")
    BY <1>3 DEF AwaitStop
  <2>2. CASE host' = [Goto("inspect") EXCEPT !.why = Head(wire)]
    <3>1. host'.pc = "inspect" /\ host'.stops = host.stops
      BY <1>1, <2>2 DEF HostPcs, Host
    <3> QED BY <2>0, <3>1 DEF JitOnward, PartsLeft, StopLeft
  <2>3. CASE host' = ScriptOver \/ host' = Goto("resume")
    <3>1. host'.pc \in {"finally", "resume"} /\ (host'.pc = "resume" => host'.stops = host.stops)
      BY <1>1, <2>3 DEF ScriptOver, HostPcs
    <3> QED BY <2>0, <3>1 DEF JitOnward, PartsLeft, StopLeft
  <2> QED BY <2>1, <2>2, <2>3
<1>4. CASE Inspect
  <2>1. host.pc = "inspect" /\ host'.pc \in {"step", "signal"} /\ host'.stops = host.stops
    BY <1>1, <1>4 DEF Inspect, Continues, HostPcs
  <2> QED BY <2>1 DEF JitOnward, PartsLeft, StopLeft
<1>5. CASE StepOver
  <2>1. host.pc = "step" /\ host'.pc \in {"resume", "handle"} /\ host'.stops = host.stops
    BY <1>1, <1>5 DEF StepOver, Continues, HostPcs
  <2> QED BY <2>1 DEF JitOnward, PartsLeft, StopLeft
<1>6. CASE PrepareRegion
  <2> DEFINE begin == [Goto("read") EXCEPT !.page = 1, !.ok = TRUE]
  <2>1. begin.pc = "read" /\ begin.stops = host.stops
    BY <1>1 DEF HostPcs, Host
  <2>2. host.pc = "handle" /\ host' \in {begin, Goto("resume")}
    BY <1>6 DEF PrepareRegion, Continues
  <2> HIDE DEF begin
  <2>3. host'.pc \in {"read", "resume"} /\ host'.stops = host.stops
    BY <1>1, <2>1, <2>2 DEF HostPcs
  <2> QED BY <2>2, <2>3 DEF JitOnward, PartsLeft, StopLeft
<1>7. CASE Serve \/ NothingAsked \/ TellApp
  <2>1. host.pc \in {"handle", "tell"} /\ host'.pc = "resume" /\ host'.stops = host.stops
    BY <1>1, <1>7 DEF Serve, NothingAsked, TellApp, Continues, HostPcs
  <2> QED BY <2>1 DEF JitOnward, PartsLeft, StopLeft
<1> QED BY <1>2, <1>3, <1>4, <1>5, <1>6, <1>7

\* A page of a batch, or the end of a pass.
LEMMA PagesOnward ==
  ASSUME host \in Host, host' \in Host, ReadPage \/ WritePage
  PROVE  JitOnward(host, host')
<1>1. ASSUME NEW ok \in BOOLEAN, NEW then \in {"write", "tell"}
      PROVE  Batch(ok, then).stops = host.stops \/ Batch(ok, then).pc = "finally"
  <2>1. Goto(then).stops = host.stops /\ Goto(then) \in Host
    BY WhereTo, Gone DEF HostPcs
  <2>2. [host EXCEPT !.page = @ + 1, !.ok = ok].stops = host.stops
    BY DEF Host
  <2>3. [Goto(then) EXCEPT !.page = 1, !.ok = TRUE].stops = Goto(then).stops
    BY <2>1 DEF Host
  <2>4. CASE host.page < Pages
    BY <2>2, <2>4 DEF Batch
  <2>5. CASE ~(host.page < Pages) /\ ok
    BY <2>1, <2>3, <2>5 DEF Batch
  <2>6. CASE ~(host.page < Pages) /\ ~ok
    BY <2>6, Batched, DebuggerAssumption DEF Host
  <2> QED BY <2>4, <2>5, <2>6
<1>2. CASE ReadPage
  <2>1. PICK ok \in BOOLEAN : host' = Batch(ok, "write")
    BY <1>2 DEF ReadPage, Continues, Host
  <2>2. host.pc = "read"
    BY <1>2 DEF ReadPage
  <2>3. \/ host'.pc = "read" /\ host'.page = host.page + 1 /\ host'.stops = host.stops
        \/ host'.pc = "write" /\ host'.stops = host.stops
        \/ host'.pc = "finally"
    BY <1>1, <2>1, <2>2, Batched
  <2>4. host.page \in Int
    BY DebuggerAssumption DEF Host
  <2> QED BY <2>2, <2>3, <2>4 DEF JitOnward, PartsLeft, StopLeft
<1>3. CASE WritePage
  <2>1. PICK ok \in BOOLEAN : host' = Batch(ok, "tell")
    BY <1>3 DEF WritePage, Continues, Host, Accepted
  <2>2. host.pc = "write"
    BY <1>3 DEF WritePage
  <2>3. \/ host'.pc = "write" /\ host'.page = host.page + 1 /\ host'.stops = host.stops
        \/ host'.pc = "tell" /\ host'.stops = host.stops
        \/ host'.pc = "finally"
    BY <1>1, <2>1, <2>2, Batched
  <2>4. host.page \in Int
    BY DebuggerAssumption DEF Host
  <2> QED BY <2>2, <2>3, <2>4 DEF JitOnward, PartsLeft, StopLeft
<1> QED BY <1>2, <1>3

\* However the app stops, asks or answers, and however many pages it asks for:
\* the conversation with the debugger does not go in circles.
THEOREM JitsGetOn == DebuggerSpec => JitGetsOn
<1>1. ReleaseInv /\ ReleaseInv' /\ [DebuggerNext]_debuggerVars
      => [host' = host \/ Nearer(JitLeft(host'), JitLeft(host))]_debuggerVars
  <2> SUFFICES ASSUME ReleaseInv, ReleaseInv', DebuggerNext, host' # host
               PROVE  Nearer(JitLeft(host'), JitLeft(host))
    OBVIOUS
  <2>1. host \in Host /\ host' \in Host
    BY DEF ReleaseInv, DebuggerTypeOK, Host
  <2>2. JitOnward(host, host')
    BY <2>1, PartsOnward, RoundOnward, PagesOnward DEF DebuggerNext, HostStep, AppStops, Breaks
  <2> QED BY <2>1, <2>2, JitNearer
<1> QED BY <1>1, ReleaseInvInit, ReleaseInvStep, PTL DEF DebuggerSpec, JitGetsOn

-------------------------------------------------------------------------------
(* Readiness.                                                              *)

Work == [pc : {"idle", "asking", "pairing", "enabling", "talking", "mounting", "restarting"},
         fix : Fixes \cup {"none"}, polls : 0 .. UnlockPolls, dev : BOOLEAN]

\* What a fix that reported success has left behind still is so.
Lasting ==
  /\ "pair" \in settled => phone.trusts
  /\ "wifi" \in settled => wifiOn
  /\ "developer-mode" \in settled => phone.devmode
  /\ "ddi" \in settled => phone.image /\ (NeedsDevMode => phone.devmode)
  /\ "expired-profiles" \notin settled

\* What is being done, and what has been seen: Developer Mode, once on, stays
\* on where it is needed, so an image is neither offered nor mounted before,
\* and the restart that would unmount it comes no later.
Underway ==
  /\ work.pc = "pairing" => work.fix = "pair"
  /\ work.pc = "enabling" => work.fix = "wifi"
  /\ work.pc = "mounting" => work.fix = "ddi"
  /\ work.pc = "restarting" => work.fix = "developer-mode"
  /\ work.fix = "developer-mode" => NeedsDevMode /\ "ddi" \notin settled
  /\ work.fix = "ddi" => (NeedsDevMode => phone.devmode)
  /\ work.pc = "asking" /\ NeedsDevMode /\ work.dev => phone.devmode
  /\ work.pc = "asking" /\ NeedsDevMode /\ settled \cap {"developer-mode", "ddi"} # {} => work.dev

\* The report on the screen offers nothing that is settled.
Shown ==
  /\ Offered \cap settled = {}
  /\ "developer-mode" \in Offered => NeedsDevMode /\ "ddi" \notin settled
  /\ "ddi" \in Offered => (NeedsDevMode => phone.devmode)

HelpInv == ReadinessTypeOK /\ Lasting /\ Underway /\ Shown

LEMMA NothingWork == Idle \in Work
BY ReadinessAssumption DEF Idle, Work

\* No report.
LEMMA NothingOffered ==
  ASSUME report' = << >>
  PROVE  /\ Offered' = {}
         /\ DOMAIN report' \subseteq CheckIds /\ \A c \in DOMAIN report' : report'[c] \in Check
<1>1. DOMAIN report' = {}
  OBVIOUS
<1> QED BY <1>1 DEF Offered

\* A fix ends, with whatever it has done to phone and registry.
LEMMA OverKeeps ==
  ASSUME HelpInv, NEW how, FixOver(how), phone' \in Phone, wifiOn' \in BOOLEAN, UNCHANGED meddled,
         work.fix \in Fixes, Lasting'
  PROVE  HelpInv'
<1>1. Offered' = {} /\ DOMAIN report' \subseteq CheckIds /\ \A c \in DOMAIN report' : report'[c] \in Check
  BY NothingOffered DEF FixOver
<1>2. work' = Idle /\ work' \in Work
  BY NothingWork DEF FixOver
<1>3. settled' \subseteq Fixes
  BY DEF FixOver, HelpInv, ReadinessTypeOK
<1>4. ReadinessTypeOK'
  BY <1>1, <1>2, <1>3 DEF HelpInv, ReadinessTypeOK, Work
<1>5. Underway'
  BY <1>2 DEF Underway, Idle
<1>6. Shown'
  BY <1>1 DEF Shown
<1> QED BY <1>4, <1>5, <1>6 DEF HelpInv

LEMMA PairKeeps == ASSUME HelpInv, Pair PROVE HelpInv'
<1>1. phone' \in Phone /\ work.fix = "pair" /\ UNCHANGED <<wifiOn, meddled>> /\ wifiOn' \in BOOLEAN
  BY DEF Pair, HelpInv, ReadinessTypeOK, Underway, Phone
<1>2. Lasting'
  BY <1>1 DEF Pair, FixOver, HelpInv, ReadinessTypeOK, Lasting, NeedsDevMode, Phone
<1>3. \E how : FixOver(how)
  BY DEF Pair
<1> QED BY <1>1, <1>2, <1>3, OverKeeps DEF Fixes

LEMMA EnableKeeps == ASSUME HelpInv, EnableWifi PROVE HelpInv'
<1>1. phone' \in Phone /\ work.fix = "wifi" /\ UNCHANGED <<phone, meddled>> /\ wifiOn' \in BOOLEAN
  BY DEF EnableWifi, HelpInv, ReadinessTypeOK, Underway
<1>2. Lasting'
  BY <1>1 DEF EnableWifi, FixOver, HelpInv, Lasting, NeedsDevMode
<1>3. \E how : FixOver(how)
  BY DEF EnableWifi
<1> QED BY <1>1, <1>2, <1>3, OverKeeps DEF Fixes

LEMMA RemoveKeeps == ASSUME HelpInv, RemoveExpired PROVE HelpInv'
<1>1. FixOver("raised") /\ UNCHANGED <<phone, wifiOn, meddled>> /\ work.fix = "expired-profiles"
  BY DEF RemoveExpired
<1>2. Lasting'
  BY <1>1 DEF FixOver, HelpInv, Lasting, NeedsDevMode
<1> QED BY <1>1, <1>2, OverKeeps DEF Fixes, HelpInv, ReadinessTypeOK

LEMMA RestartedKeeps == ASSUME HelpInv, Restarted PROVE HelpInv'
<1>1. phone' \in Phone /\ work.fix = "developer-mode" /\ UNCHANGED <<wifiOn, meddled>> /\ wifiOn' \in BOOLEAN
  BY DEF Restarted, HelpInv, ReadinessTypeOK, Underway, Phone
<1>2. "ddi" \notin settled
  BY <1>1 DEF HelpInv, Underway
<1>3. Lasting'
  BY <1>1, <1>2 DEF Restarted, FixOver, HelpInv, ReadinessTypeOK, Lasting, NeedsDevMode, Phone
<1>4. \E how : FixOver(how)
  BY DEF Restarted
<1> QED BY <1>1, <1>3, <1>4, OverKeeps DEF Fixes

LEMMA DeveloperModeKeeps == ASSUME HelpInv, DeveloperMode PROVE HelpInv'
<1>1. work.fix = "developer-mode" /\ work.fix \in Fixes /\ UNCHANGED <<wifiOn, meddled>> /\ wifiOn' \in BOOLEAN
  BY DEF DeveloperMode, HelpInv, ReadinessTypeOK, Fixes
<1>2. CASE UNCHANGED phone /\ (FixOver("manual") \/ FixOver("refused"))
  <2>1. Lasting' /\ phone' \in Phone
    BY <1>1, <1>2 DEF FixOver, HelpInv, ReadinessTypeOK, Lasting, NeedsDevMode
  <2> QED BY <1>1, <1>2, <2>1, OverKeeps
<1>3. CASE /\ work' = [work EXCEPT !.pc = "restarting"]
           /\ phone' = [phone EXCEPT !.image = FALSE]
           /\ UNCHANGED <<report, settled>>
  <2>1. phone \in Phone /\ work \in Work
    BY DEF HelpInv, ReadinessTypeOK, Work
  <2>2. /\ phone' \in Phone /\ phone'.major = phone.major /\ phone'.trusts = phone.trusts
        /\ phone'.devmode = phone.devmode
    BY <1>3, <2>1 DEF Phone
  <2>3. work' \in Work /\ work'.pc = "restarting" /\ work'.fix = work.fix
    BY <1>3, <2>1 DEF Work
  <2>4. Offered' = Offered
    BY <1>3 DEF Offered
  <2>5. ReadinessTypeOK'
    BY <1>1, <1>3, <2>2, <2>3 DEF HelpInv, ReadinessTypeOK, Work
  <2>6. Lasting'
    BY <1>1, <1>3, <2>2 DEF HelpInv, Lasting, Underway, NeedsDevMode
  <2>7. Underway'
    BY <1>1, <1>3, <2>2, <2>3 DEF HelpInv, Underway, NeedsDevMode
  <2>8. Shown'
    BY <1>3, <2>2, <2>4 DEF HelpInv, Shown, NeedsDevMode
  <2> QED BY <2>5, <2>6, <2>7, <2>8 DEF HelpInv
<1> QED BY <1>2, <1>3 DEF DeveloperMode

LEMMA MountKeeps == ASSUME HelpInv, Mount PROVE HelpInv'
<1>1. /\ work.fix = "ddi" /\ work.fix \in Fixes /\ UNCHANGED <<wifiOn, meddled>> /\ wifiOn' \in BOOLEAN
      /\ phone \in Phone /\ work \in Work
  BY DEF Mount, HelpInv, Underway, ReadinessTypeOK, Fixes, Work
<1>2. CASE phone' = [phone EXCEPT !.image = TRUE] /\ FixOver("done")
  <2>1. /\ phone' \in Phone /\ phone'.major = phone.major /\ phone'.trusts = phone.trusts
        /\ phone'.devmode = phone.devmode /\ phone'.image = TRUE
    BY <1>1, <1>2 DEF Phone
  <2>2. Lasting'
    BY <1>1, <1>2, <2>1 DEF FixOver, HelpInv, Lasting, Underway, NeedsDevMode
  <2> QED BY <1>1, <1>2, <2>1, <2>2, OverKeeps
<1>3. CASE FixOver("refused") /\ UNCHANGED phone
  <2>1. Lasting'
    BY <1>1, <1>3 DEF FixOver, HelpInv, Lasting, NeedsDevMode
  <2> QED BY <1>1, <1>3, <2>1, OverKeeps
<1>4. CASE /\ work' = [work EXCEPT !.polls = IF @ = 0 THEN 0 ELSE @ - 1]
           /\ UNCHANGED <<phone, report, settled>>
  <2>1. (IF work.polls = 0 THEN 0 ELSE work.polls - 1) \in 0 .. UnlockPolls
    BY <1>1, ReadinessAssumption DEF Work
  <2>2. work' \in Work /\ work'.pc = work.pc /\ work'.fix = work.fix /\ work'.dev = work.dev
    BY <1>1, <1>4, <2>1 DEF Work
  <2>3. Offered' = Offered
    BY <1>4 DEF Offered
  <2> QED BY <1>1, <1>4, <2>2, <2>3 DEF HelpInv, ReadinessTypeOK, Lasting, Underway, Shown, NeedsDevMode, Work
<1> QED BY <1>2, <1>3, <1>4 DEF Mount

LEMMA BeginsKeeps == ASSUME HelpInv, NEW f \in Fixes, FixBegins(f) PROVE HelpInv'
<1>1. work' \in Work /\ work'.fix = f /\ work'.pc = Opening(f)
  <2>1. Idle \in Work /\ Opening(f) \in {"pairing", "enabling", "talking", "mounting"}
        /\ UnlockPolls \in 0 .. UnlockPolls
    BY NothingWork, ReadinessAssumption DEF Opening
  <2>2. work' = [Idle EXCEPT !.pc = Opening(f), !.fix = f, !.polls = UnlockPolls]
    BY DEF FixBegins
  <2>3. \A w \in Work : [w EXCEPT !.pc = Opening(f), !.fix = f, !.polls = UnlockPolls] \in Work
    BY <2>1, Zenon DEF Work
  <2>4. \A w \in Work : [w EXCEPT !.pc = Opening(f), !.fix = f, !.polls = UnlockPolls].fix = f
    BY Zenon DEF Work
  <2>5. \A w \in Work : [w EXCEPT !.pc = Opening(f), !.fix = f, !.polls = UnlockPolls].pc = Opening(f)
    BY Zenon DEF Work
  <2> QED BY <2>1, <2>2, <2>3, <2>4, <2>5
<1>2. Offered' = Offered /\ f \in Offered
  BY DEF FixBegins, Offered
<1>3. ReadinessTypeOK'
  BY <1>1 DEF FixBegins, HelpInv, ReadinessTypeOK, Work
<1>4. Underway'
  BY <1>1, <1>2 DEF FixBegins, HelpInv, Underway, Shown, NeedsDevMode, Opening
<1> QED BY <1>2, <1>3, <1>4 DEF FixBegins, HelpInv, Lasting, Shown, NeedsDevMode

LEMMA CheckBeginsKeeps == ASSUME HelpInv, CheckBegins PROVE HelpInv'
<1>1. CASE Reachable /\ phone.trusts
  <2>1. work' \in Work /\ work'.fix = "none" /\ work'.pc = "asking" /\ work'.dev = phone.devmode
    BY <1>1, NothingWork DEF CheckBegins, HelpInv, ReadinessTypeOK, Phone, Work, Idle
  <2>2. Offered' = Offered
    BY <1>1 DEF CheckBegins, Offered
  <2>3. ReadinessTypeOK'
    BY <1>1, <2>1 DEF CheckBegins, HelpInv, ReadinessTypeOK, Work
  <2>4. Underway'
    BY <1>1, <2>1 DEF CheckBegins, HelpInv, Underway, Lasting, NeedsDevMode
  <2> QED BY <1>1, <2>2, <2>3, <2>4 DEF CheckBegins, HelpInv, Lasting, Shown, NeedsDevMode
<1>2. CASE ~(Reachable /\ phone.trusts)
  <2>1. UNCHANGED <<phone, wifiOn, work, settled, meddled>>
    BY <1>2 DEF CheckBegins
  <2>2. CASE report' = << >>
    BY <2>1, <2>2, NothingOffered DEF HelpInv, ReadinessTypeOK, Lasting, Underway, Shown, NeedsDevMode
  <2>3. CASE report' = [c \in {"pairing"} |-> Says("bad")]
    <3>1. Offered' = {} /\ DOMAIN report' \subseteq CheckIds /\ \A c \in DOMAIN report' : report'[c] \in Check
      BY <2>3 DEF Offered, Says, CheckIds, Check, States
    <3> QED BY <2>1, <3>1 DEF HelpInv, ReadinessTypeOK, Lasting, Underway, Shown, NeedsDevMode
  <2>4. CASE report' = [c \in {"pairing"} |-> Offers("bad", "pair")] /\ ~phone.trusts
    <3>1. Offered' = {"pair"} /\ DOMAIN report' \subseteq CheckIds /\ \A c \in DOMAIN report' : report'[c] \in Check
      BY <2>4 DEF Offered, Offers, CheckIds, Check, States, Fixes
    <3>2. "pair" \notin settled
      BY <2>4 DEF HelpInv, Lasting
    <3> QED BY <2>1, <3>1, <3>2 DEF HelpInv, ReadinessTypeOK, Lasting, Underway, Shown, NeedsDevMode
  <2>5. \/ report' = << >>
        \/ report' = [c \in {"pairing"} |-> Says("bad")]
        \/ report' = [c \in {"pairing"} |-> Offers("bad", "pair")] /\ ~phone.trusts
    <3>1. CASE ~Reachable
      BY <1>2, <3>1 DEF CheckBegins
    <3>2. CASE Reachable /\ phone.locked
      BY <1>2, <3>2 DEF CheckBegins
    <3>3. CASE Reachable /\ ~phone.locked
      BY <1>2, <3>3 DEF CheckBegins
    <3> QED BY <3>1, <3>2, <3>3
  <2> QED BY <2>2, <2>3, <2>4, <2>5
<1> QED BY <1>1, <1>2

\* What each check may offer, and when.
LEMMA ChecksOffer ==
  ASSUME HelpInv, work.pc = "asking"
  PROVE  /\ WifiCheck \in Check /\ WifiCheck.fix \in {"none", "wifi"}
         /\ WifiCheck.fix = "wifi" => ~wifiOn
         /\ DevModeCheck \in Check /\ DevModeCheck.fix \in {"none", "developer-mode"}
         /\ DevModeCheck.fix = "developer-mode" => NeedsDevMode /\ ~work.dev
         /\ DdiCheck \in Check /\ DdiCheck.fix \in {"none", "ddi"}
         /\ DdiCheck.fix = "ddi" => ~phone.image /\ (NeedsDevMode => work.dev)
         /\ ProfilesCheck \in Check /\ ProfilesCheck.fix \in {"none", "expired-profiles"}
<1>0. phone \in Phone /\ work \in Work
  BY DEF HelpInv, ReadinessTypeOK, Work
<1>1. \A s \in States, f \in Fixes : /\ Says(s) \in Check /\ Says(s).fix = "none"
                                   /\ Offers(s, f) \in Check /\ Offers(s, f).fix = f
  BY DEF Says, Offers, Check
<1>2. \A s \in {"ok", "bad", "warn", "info", "na"} : s \in States
  BY DEF States
<1>3. \A f \in {"pair", "wifi", "developer-mode", "ddi", "expired-profiles"} : f \in Fixes /\ f # "none"
  BY DEF Fixes
<1>4. /\ WifiCheck \in Check /\ WifiCheck.fix \in {"none", "wifi"}
      /\ WifiCheck.fix = "wifi" => ~wifiOn
  BY <1>1, <1>2, <1>3 DEF WifiCheck
<1>5. /\ DevModeCheck \in Check /\ DevModeCheck.fix \in {"none", "developer-mode"}
      /\ DevModeCheck.fix = "developer-mode" => NeedsDevMode /\ ~work.dev
  <2>1. CASE ~NeedsDevMode
    BY <1>1, <1>2, <1>3, <2>1 DEF DevModeCheck
  <2>2. CASE NeedsDevMode
    BY <1>1, <1>2, <1>3, <2>2 DEF DevModeCheck
  <2> QED BY <2>1, <2>2
<1>6. /\ DdiCheck \in Check /\ DdiCheck.fix \in {"none", "ddi"}
      /\ DdiCheck.fix = "ddi" => ~phone.image /\ (NeedsDevMode => work.dev)
  <2>1. CASE NeedsDevMode /\ ~work.dev
    BY <1>1, <1>2, <1>3, <2>1 DEF DdiCheck
  <2>2. CASE ~(NeedsDevMode /\ ~work.dev) /\ (phone.locked \/ ~Reachable)
    BY <1>1, <1>2, <1>3, <2>2 DEF DdiCheck
  <2>3. CASE ~(NeedsDevMode /\ ~work.dev) /\ ~(phone.locked \/ ~Reachable) /\ (MounterLists \/ CryptexListed)
    BY <1>1, <1>2, <1>3, <2>3 DEF DdiCheck
  <2>4. CASE ~(NeedsDevMode /\ ~work.dev) /\ ~(phone.locked \/ ~Reachable) /\ ~(MounterLists \/ CryptexListed)
    <3>1. ~phone.image
      <4>1. phone.major \in Nat /\ phone.image \in BOOLEAN
        BY <1>0, ReadinessAssumption DEF Phone
      <4>2. phone.major < 27 \/ phone.major >= 27
        BY <4>1
      <4> QED BY <2>4, <4>1, <4>2 DEF MounterLists, CryptexListed
    <3>2. DdiCheck = Offers("info", "ddi")
      BY <2>4 DEF DdiCheck
    <3> QED BY <1>1, <1>2, <1>3, <2>4, <3>1, <3>2
  <2> QED BY <2>1, <2>2, <2>3, <2>4
<1>7. ProfilesCheck \in Check /\ ProfilesCheck.fix \in {"none", "expired-profiles"}
  <2>1. CASE ~Reachable
    BY <1>1, <1>2, <1>3, <2>1 DEF ProfilesCheck
  <2>2. CASE Reachable /\ phone.expired
    BY <1>1, <1>2, <1>3, <2>2 DEF ProfilesCheck
  <2>3. CASE Reachable /\ ~phone.expired
    BY <1>1, <1>2, <1>3, <2>3 DEF ProfilesCheck
  <2> QED BY <2>1, <2>2, <2>3
<1> QED BY <1>4, <1>5, <1>6, <1>7

LEMMA CheckEndsKeeps == ASSUME HelpInv, CheckEnds PROVE HelpInv'
<1>1. /\ report'["wifi"] = WifiCheck /\ report'["developer-mode"] = DevModeCheck
      /\ report'["ddi"] = DdiCheck /\ report'["profiles"] = ProfilesCheck
      /\ \E s \in States : report'["ios"] = Says(s)
      /\ report'["pairing"] = Says("ok") /\ DOMAIN report' = CheckIds
  BY DEF CheckEnds, CheckIds, States
<1>2. work.pc = "asking" /\ work' = Idle /\ UNCHANGED <<phone, wifiOn, settled, meddled>>
  BY DEF CheckEnds
<1>3. \A s \in States : Says(s) \in Check /\ Says(s).fix = "none"
  BY DEF Says, Check
<1>4. \A c \in CheckIds : report'[c] \in Check
  BY <1>1, <1>2, <1>3, ChecksOffer DEF CheckIds, States
<1>5. ASSUME NEW f \in Offered'
      PROVE  \/ f = "wifi" /\ ~wifiOn
             \/ f = "developer-mode" /\ NeedsDevMode /\ ~work.dev
             \/ f = "ddi" /\ ~phone.image /\ (NeedsDevMode => work.dev)
             \/ f = "expired-profiles"
  <2>1. PICK c \in CheckIds : f = report'[c].fix /\ f # "none"
    BY <1>1 DEF Offered
  <2> QED BY <1>1, <1>2, <1>3, <2>1, ChecksOffer DEF CheckIds, States
<1>6. work' \in Work /\ work'.fix = "none" /\ work'.pc = "idle"
  BY <1>2, NothingWork DEF Idle
<1>7. ReadinessTypeOK'
  BY <1>1, <1>2, <1>4, <1>6 DEF HelpInv, ReadinessTypeOK, Work
<1>8. Underway'
  BY <1>6 DEF Underway
<1>9. Lasting'
  BY <1>2 DEF HelpInv, Lasting, NeedsDevMode
<1>10. Shown'
  <2>1. Offered' \cap settled = {}
    BY <1>2, <1>5 DEF HelpInv, Lasting, Underway
  <2>2. "developer-mode" \in Offered' => NeedsDevMode /\ "ddi" \notin settled
    BY <1>2, <1>5 DEF HelpInv, Underway
  <2>3. "ddi" \in Offered' => (NeedsDevMode => phone.devmode)
    BY <1>2, <1>5 DEF HelpInv, Underway
  <2> QED BY <1>2, <2>1, <2>2, <2>3 DEF Shown, NeedsDevMode
<1> QED BY <1>7, <1>8, <1>9, <1>10 DEF HelpInv

\* The owner may undo what a fix has done, and nothing counts as settled then.
LEMMA OwnerKeeps == ASSUME HelpInv, Owner PROVE HelpInv'
<1>1. phone' \in Phone /\ phone'.major = phone.major /\ (phone'.devmode = phone.devmode \/ phone'.devmode = NeedsDevMode)
  <2>0. phone \in Phone /\ NeedsDevMode \in BOOLEAN
    BY DEF HelpInv, ReadinessTypeOK, NeedsDevMode
  <2>1. \/ \E b \in BOOLEAN : phone' = [phone EXCEPT !.locked = b]
        \/ \E l \in {"usb", "wifi", "away"} : phone' = [phone EXCEPT !.link = l]
        \/ phone' = [phone EXCEPT !.image = FALSE]
        \/ phone' = [phone EXCEPT !.trusts = FALSE]
        \/ phone' = [phone EXCEPT !.devmode = NeedsDevMode]
        \/ \E b \in BOOLEAN : phone' = [phone EXCEPT !.full = b]
    BY <2>0 DEF Owner, Phone
  <2>2. ASSUME NEW b \in BOOLEAN, phone' = [phone EXCEPT !.locked = b] \/ phone' = [phone EXCEPT !.full = b]
        PROVE  phone' \in Phone /\ phone'.major = phone.major /\ phone'.devmode = phone.devmode
    BY <2>0, <2>2 DEF Phone
  <2>3. ASSUME NEW l \in {"usb", "wifi", "away"}, phone' = [phone EXCEPT !.link = l]
        PROVE  phone' \in Phone /\ phone'.major = phone.major /\ phone'.devmode = phone.devmode
    BY <2>0, <2>3 DEF Phone
  <2>4. CASE phone' = [phone EXCEPT !.image = FALSE] \/ phone' = [phone EXCEPT !.trusts = FALSE]
    BY <2>0, <2>4 DEF Phone
  <2>5. CASE phone' = [phone EXCEPT !.devmode = NeedsDevMode]
    <3> HIDE DEF NeedsDevMode
    <3> QED BY <2>0, <2>5 DEF Phone
  <2> QED BY <2>1, <2>2, <2>3, <2>4, <2>5
<1>2. Offered' = Offered /\ settled' = {} /\ UNCHANGED <<wifiOn, work, report>> /\ meddled' \in 0 .. Interferences
  BY ReadinessAssumption DEF Owner, Offered, HelpInv, ReadinessTypeOK
<1>3. ReadinessTypeOK' /\ Lasting'
  BY <1>1, <1>2 DEF HelpInv, ReadinessTypeOK, Lasting
<1>4. NeedsDevMode' = NeedsDevMode
  BY <1>1 DEF NeedsDevMode
<1>5. Underway'
  BY <1>1, <1>2, <1>4 DEF HelpInv, Underway
<1>6. Shown'
  BY <1>1, <1>2, <1>4 DEF HelpInv, Shown
<1> QED BY <1>3, <1>5, <1>6 DEF HelpInv

\* FixHelps: a fix that reported success is not offered again until the owner
\* changes something - pairing, Wi-Fi, Developer Mode, and the image, which
\* the restart for Developer Mode would unmount; and nothing leaves its type.
THEOREM FixesHelp == ReadinessSpec => [](ReadinessTypeOK /\ FixHelps)
<1>1. ReadinessInit => HelpInv
  <2> SUFFICES ASSUME ReadinessInit PROVE HelpInv
    OBVIOUS
  <2>1. phone \in Phone
    <3>1. PICK m \in Majors, b \in BOOLEAN :
          phone = [major |-> m, trusts |-> FALSE, locked |-> FALSE, passcode |-> b, devmode |-> FALSE,
                   image |-> FALSE, expired |-> TRUE, full |-> TRUE, link |-> "usb"]
      BY DEF ReadinessInit
    <3> QED BY <3>1 DEF Phone
  <2>2. DOMAIN report = {} /\ Offered = {}
    BY DEF ReadinessInit, Offered
  <2>3. work \in Work /\ work.pc = "idle" /\ work.fix = "none"
    BY NothingWork DEF ReadinessInit, Idle
  <2>4. 0 \in 0 .. Interferences
    BY ReadinessAssumption
  <2> QED BY <2>1, <2>2, <2>3, <2>4 DEF ReadinessInit, HelpInv, ReadinessTypeOK, Lasting, Underway, Shown, Work
<1>2. HelpInv /\ [ReadinessNext]_readinessVars => HelpInv'
  <2> SUFFICES ASSUME HelpInv, [ReadinessNext]_readinessVars PROVE HelpInv'
    OBVIOUS
  <2>1. CASE UNCHANGED readinessVars
    BY <2>1 DEF readinessVars, HelpInv, ReadinessTypeOK, Lasting, Underway, Shown, Offered, NeedsDevMode
  <2> QED BY <2>1, PairKeeps, EnableKeeps, RemoveKeeps, RestartedKeeps, DeveloperModeKeeps, MountKeeps,
             BeginsKeeps, CheckBeginsKeeps, CheckEndsKeeps, OwnerKeeps DEF ReadinessNext, FixStep
<1>3. HelpInv => ReadinessTypeOK /\ FixHelps
  BY DEF HelpInv, Shown, FixHelps
<1> QED BY <1>1, <1>2, <1>3, PTL DEF ReadinessSpec

-------------------------------------------------------------------------------
(* Signing in.                                                             *)

\* The sign-in under way, by its fields.
Client == [pc : Looking \cup Saving \cup {"idle", "send", "asking", "done", "failed"},
           op : Ops, attempt : 1 .. GsaMaxAttempts, resend : 0 .. TransportRetries,
           round : 1 .. 2, sms : BOOLEAN]

\* Where memory and files stand to each other: the two files are about one
\* identity; the instance in memory is about it too, or has been provisioned and
\* its file is gone, which is looked for; whoever is about to save has found
\* them in agreement; and while another process discards, nothing is left that
\* would not be noticed.
OneIdentity ==
  /\ {device, saved} \cap discarded = {}
  /\ saved # 0 => saved = device
  /\ mem # 0 => mem = device \/ (provisioned /\ saved = 0)
  /\ client.pc \in Saving => mem # 0 /\ mem = device /\ forgets = {}
  /\ forgets # {} => saved = 0 /\ (mem = 0 \/ provisioned)

\* What somebody discarded, or discards, existed once, and what exists has been
\* made: a new identity is none of the discarded.
Past ==
  /\ discarded \cup forgets \subseteq 1 .. made
  /\ device <= made /\ saved <= made /\ mem <= made

IdentityInv == SignInTypeOK /\ Past /\ (~raced => OneIdentity)

\* What a sign-in can go on to stays a sign-in, and none of it is about to save.
LEMMA SignInGoesOn ==
  ASSUME NEW c \in Client
  PROVE  /\ \A op \in Ops : NextRequest(c, op) \in Client /\ NextRequest(c, op).pc \notin Saving
         /\ \A how \in {"done", "failed"} : Over(c, how) \in Client /\ Over(c, how).pc \notin Saving
<1>0. 1 \in 1 .. GsaMaxAttempts /\ 0 \in 0 .. TransportRetries
  BY SignInAssumption
<1>1. ASSUME NEW op \in Ops PROVE NextRequest(c, op) \in Client /\ NextRequest(c, op).pc \notin Saving
  <2>1. NextRequest(c, op) \in Client
    BY <1>0, Zenon DEF Client, Looking, NextRequest
  <2>2. NextRequest(c, op).pc = "identify"
    BY Zenon DEF Client, NextRequest
  <2> QED BY <2>1, <2>2 DEF Saving
<1>2. ASSUME NEW how \in {"done", "failed"} PROVE Over(c, how) \in Client /\ Over(c, how).pc \notin Saving
  <2>1. Over(c, how) \in Client
    BY <1>0, Zenon DEF Client, Over, Ops
  <2>2. Over(c, how).pc = how
    BY Zenon DEF Client, Over
  <2> QED BY <2>1, <2>2 DEF Saving
<1> QED BY <1>1, <1>2

\* Without an answer: again, on a fresh connection, or given up.
LEMMA UnansweredGoesOn ==
  ASSUME NEW c \in Client, c.pc = "send", NEW d \in {Resent(c), Throttled(c), GivenUp(c)}
  PROVE  d \in Client /\ d.pc \notin Saving
<1> USE SignInAssumption
<1>1. GivenUp(c) \in Client /\ GivenUp(c).pc \notin Saving
  BY SignInGoesOn DEF GivenUp, Ops
<1>2. c.resend < TransportRetries => [c EXCEPT !.resend = @ + 1] \in Client
  BY DEF Client
<1>3. ASSUME c.attempt < GsaMaxAttempts
      PROVE  [c EXCEPT !.attempt = @ + 1, !.resend = 0] \in Client
             /\ [c EXCEPT !.attempt = @ + 1, !.resend = 0].pc = c.pc
  <2>1. c.attempt + 1 \in 1 .. GsaMaxAttempts /\ 0 \in 0 .. TransportRetries
    BY <1>3 DEF Client
  <2>2. [c EXCEPT !.attempt = @ + 1, !.resend = 0] \in Client
    BY <2>1, Zenon DEF Client
  <2>3. [c EXCEPT !.attempt = @ + 1, !.resend = 0].pc = c.pc
    BY Zenon DEF Client
  <2> QED BY <2>2, <2>3
<1>4. Resent(c) \in Client /\ Resent(c).pc \notin Saving
  BY <1>1, <1>2 DEF Resent, Client, Saving
<1>5. Throttled(c) \in Client /\ Throttled(c).pc \notin Saving
  BY <1>1, <1>3 DEF Throttled, Client, Saving
<1> QED BY <1>1, <1>4, <1>5

\* After an answer.
LEMMA AnsweredGoesOn ==
  ASSUME NEW c \in Client, c.pc = "send", NEW d \in AfterAnswer(c) \cup {Over(c, "failed")}
  PROVE  d \in Client /\ d.pc \notin Saving
<1>1. \A op \in Ops : NextRequest(c, op) \in Client /\ NextRequest(c, op).pc \notin Saving
  BY SignInGoesOn
<1>2. \A how \in {"done", "failed"} : Over(c, how) \in Client /\ Over(c, how).pc \notin Saving
  BY SignInGoesOn
<1>3. \A n \in Client : [n EXCEPT !.round = 2] \in Client /\ [n EXCEPT !.round = 2].pc = n.pc
  BY DEF Client
<1>4. \A n \in Client : [n EXCEPT !.sms = TRUE] \in Client /\ [n EXCEPT !.sms = TRUE].pc = n.pc
  BY DEF Client
<1>5. Prompt(c) \in Client /\ Prompt(c).pc \notin Saving
  BY DEF Prompt, Client, Saving
<1>6. Handshake(c) \in Client /\ Handshake(c).pc \notin Saving
  <2>1. NextRequest(c, "init") \in Client /\ NextRequest(c, "init").pc \notin Saving
    BY <1>1 DEF Ops
  <2> QED BY <2>1, <1>3 DEF Handshake
<1>7. \A x \in AfterComplete(c) : x \in Client /\ x.pc \notin Saving
  <2>1. \A op \in {"apptokens", "trusteddevice", "auth"} :
          NextRequest(c, op) \in Client /\ NextRequest(c, op).pc \notin Saving
    BY <1>1 DEF Ops
  <2>2. /\ [NextRequest(c, "auth") EXCEPT !.sms = TRUE] \in Client
        /\ [NextRequest(c, "auth") EXCEPT !.sms = TRUE].pc \notin Saving
    BY <2>1, <1>4
  <2> QED BY <2>1, <2>2, <1>2 DEF AfterComplete
<1>8. \A x \in AfterTokens(c) : x \in Client /\ x.pc \notin Saving
  BY <1>2, <1>6 DEF AfterTokens
<1>9. \A op \in {"complete", "phone", "trust", "apptokens"} :
        NextRequest(c, op) \in Client /\ NextRequest(c, op).pc \notin Saving
  BY <1>1 DEF Ops
<1> QED BY <1>2, <1>5, <1>6, <1>7, <1>8, <1>9 DEF AfterAnswer

\* A sign-in begins.
LEMMA BeginsAnew ==
  ASSUME NEW n \in Client
  PROVE  /\ [n EXCEPT !.round = 1, !.sms = FALSE] \in Client
         /\ [n EXCEPT !.round = 1, !.sms = FALSE].pc = n.pc
<1>1. 1 \in 1 .. 2
  OBVIOUS
<1>2. [n EXCEPT !.round = 1, !.sms = FALSE] \in Client
  BY <1>1, Zenon DEF Client
<1>3. [n EXCEPT !.round = 1, !.sms = FALSE].pc = n.pc
  BY Zenon DEF Client
<1> QED BY <1>2, <1>3

\* The answers of Apple and of the person leave the identity alone.
LEMMA FlowKeepsInv ==
  ASSUME IdentityInv, UNCHANGED identity, client' \in Client, client'.pc \notin Saving
  PROVE  IdentityInv'
BY DEF IdentityInv, identity, SignInTypeOK, Client, Past, OneIdentity

LEMMA Counts ==
  ASSUME SignInTypeOK
  PROVE  device \in Nat /\ saved \in Nat /\ mem \in Nat /\ made \in Nat
<1>1. {device, saved, mem, made} \subseteq Identities
  BY DEF SignInTypeOK
<1> QED BY <1>1 DEF Identities

\* The identity that device.json has or gets.
LEMMA DeviceMade ==
  ASSUME SignInTypeOK, Past, MakesDevice
  PROVE  /\ device' = LoadedOrCreated /\ device' \in 1 .. made' /\ {device', made'} \subseteq Identities
         /\ made <= made' /\ 1 .. made \subseteq 1 .. made'
         /\ device # 0 => device' = device
         /\ device = 0 => device' \notin 1 .. made
<1>1. device \in Nat /\ saved \in Nat /\ mem \in Nat /\ made \in Nat
  BY Counts
<1>2. {device, made} \subseteq Identities
  BY DEF SignInTypeOK
<1>3. CASE device # 0
  BY <1>1, <1>2, <1>3 DEF MakesDevice, LoadedOrCreated, Past
<1>4. CASE device = 0
  BY <1>1, <1>2, <1>4 DEF MakesDevice, LoadedOrCreated
<1> QED BY <1>3, <1>4

\* ... and the instance that is loaded from the files.
LEMMA Reloaded ==
  ASSUME IdentityInv, Reload, Overlaps, UNCHANGED <<saved, forgets, discarded>>, client' \in Client
  PROVE  IdentityInv' /\ (~raced' => mem' # 0 /\ mem' = device' /\ forgets' = {})
<1>1. SignInTypeOK /\ Past /\ MakesDevice
  BY DEF IdentityInv, Reload
<1>2. /\ device' = LoadedOrCreated /\ device' \in 1 .. made' /\ {device', made'} \subseteq Identities
      /\ made <= made' /\ 1 .. made \subseteq 1 .. made'
      /\ device # 0 => device' = device
      /\ device = 0 => device' \notin 1 .. made
  BY <1>1, DeviceMade
<1>3. device \in Nat /\ saved \in Nat /\ mem \in Nat /\ made \in Nat
  BY <1>1, Counts
<1>4. mem' = (IF saved # 0 THEN saved ELSE device') /\ provisioned' = (saved # 0)
  BY <1>2 DEF Reload
<1>5. saved \in Identities /\ forgets \subseteq Identities /\ discarded \subseteq Identities /\ raced \in BOOLEAN
  BY <1>1 DEF SignInTypeOK
<1>6. SignInTypeOK'
  <2>1. mem' \in Identities /\ provisioned' \in BOOLEAN
    BY <1>2, <1>4, <1>5
  <2>2. raced' \in BOOLEAN
    BY <1>5 DEF Overlaps
  <2> QED BY <1>2, <1>5, <2>1, <2>2 DEF SignInTypeOK, Client
<1>7. Past'
  <2>1. made' \in Nat
    BY <1>2 DEF Identities
  <2>2. saved <= made /\ discarded \cup forgets \subseteq 1 .. made
    BY <1>1 DEF Past
  <2> QED BY <1>2, <1>3, <1>4, <2>1, <2>2 DEF Past
<1>8. ~raced' => ~raced /\ forgets = {}
  BY <1>5 DEF Overlaps
<1>9. ~raced' => mem' # 0 /\ mem' = device' /\ (saved # 0 => saved = device')
  <2>1. ~raced => (saved # 0 => saved = device)
    BY DEF IdentityInv, OneIdentity
  <2> QED BY <1>2, <1>3, <1>4, <1>8, <2>1
<1>10. ~raced' => {device', saved} \cap discarded = {}
  <2>1. ~raced => {device, saved} \cap discarded = {}
    BY DEF IdentityInv, OneIdentity
  <2>2. discarded \subseteq 1 .. made
    BY <1>1 DEF Past
  <2> QED BY <1>2, <1>8, <2>1, <2>2
<1> QED BY <1>6, <1>7, <1>8, <1>9, <1>10 DEF IdentityInv, OneIdentity

\* headers() of this process.
LEMMA HeadersKeepInv ==
  ASSUME IdentityInv, Identify \/ Persist \/ EmulationBreaks
  PROVE  IdentityInv'
<1>1. CASE Identify
  <2>1. client' \in Client
    BY <1>1 DEF IdentityInv, SignInTypeOK, Client, Identify, Looking, Saving
  <2>2. CASE mem # 0 /\ ~ForgottenElsewhere
    BY <1>1, <2>1, <2>2 DEF IdentityInv, SignInTypeOK, Client, Past, OneIdentity, Identify, ForgottenElsewhere, Overlaps
  <2>3. CASE ~(mem # 0 /\ ~ForgottenElsewhere)
    BY <1>1, <2>1, <2>3, Reloaded DEF Identify
  <2> QED BY <2>2, <2>3
<1>2. CASE Persist
  <2>1. client' \in Client /\ client'.pc \notin Saving
    BY <1>2 DEF IdentityInv, SignInTypeOK, Client, Persist, Saving
  <2>2. SignInTypeOK'
    BY <1>2, <2>1 DEF IdentityInv, SignInTypeOK, Client, Persist, Overlaps
  <2>3. Past'
    BY <1>2 DEF IdentityInv, Past, Persist
  <2>4. ~raced' => OneIdentity'
    BY <1>2, <2>1 DEF IdentityInv, OneIdentity, Persist, Overlaps
  <2> QED BY <2>2, <2>3, <2>4 DEF IdentityInv
<1>3. CASE EmulationBreaks
  <2>1. client' \in Client
    BY <1>3 DEF IdentityInv, SignInTypeOK, Client, EmulationBreaks, Looking
  <2> QED BY <1>3, <2>1, Reloaded DEF EmulationBreaks
<1> QED BY <1>1, <1>2, <1>3

\* device.json alone.
LEMMA DeviceKeepsInv ==
  ASSUME IdentityInv, MakesDevice, Overlaps \/ (UNCHANGED raced /\ forgets = {}),
         UNCHANGED <<saved, mem, provisioned, forgets, discarded>>,
         client' \in Client, client'.pc \in Saving => client'.pc = client.pc
  PROVE  IdentityInv'
<1>1. SignInTypeOK /\ Past
  BY DEF IdentityInv
<1>2. /\ device' = LoadedOrCreated /\ device' \in 1 .. made' /\ {device', made'} \subseteq Identities
      /\ made <= made' /\ 1 .. made \subseteq 1 .. made'
      /\ device # 0 => device' = device
      /\ device = 0 => device' \notin 1 .. made
  BY <1>1, DeviceMade
<1>3. device \in Nat /\ saved \in Nat /\ mem \in Nat /\ made \in Nat
  BY <1>1, Counts
<1>4. SignInTypeOK'
  BY <1>1, <1>2 DEF SignInTypeOK, Client, Overlaps
<1>5. Past'
  <2>1. made' \in Nat
    BY <1>2 DEF Identities
  <2>2. saved <= made /\ mem <= made /\ discarded \cup forgets \subseteq 1 .. made
    BY <1>1 DEF Past
  <2> QED BY <1>2, <1>3, <2>1, <2>2 DEF Past
<1>6. ~raced' => OneIdentity /\ forgets = {}
  BY <1>1 DEF IdentityInv, SignInTypeOK, Overlaps
<1>7. ~raced' => OneIdentity'
  <2>1. discarded \subseteq 1 .. made
    BY <1>1 DEF Past
  <2> QED BY <1>2, <1>6, <2>1 DEF OneIdentity
<1> QED BY <1>4, <1>5, <1>7 DEF IdentityInv

\* "Forget the device", here and by another process, and what that one makes.
LEMMA OthersKeepInv ==
  ASSUME IdentityInv,
         ForgetHere \/ ForgetElsewhere \/ ForgottenThere \/ MadeElsewhere \/ ProvisionedElsewhere
  PROVE  IdentityInv'
<1>0. 0 \in Identities /\ 0 \notin 1 .. made
  BY SignInAssumption DEF Identities
<1>p. Past /\ device \in Nat /\ saved \in Nat /\ mem \in Nat /\ made \in Nat /\ SignInTypeOK
  BY Counts DEF IdentityInv
<1>i. raced \in BOOLEAN /\ (~raced => OneIdentity)
  BY DEF IdentityInv, SignInTypeOK
<1>f. InFiles \subseteq Identities /\ InFiles \subseteq 1 .. made
  BY <1>p DEF InFiles, SignInTypeOK, Past
<1>1. CASE ForgetHere
  <2>1. SignInTypeOK'
    BY <1>0, <1>p, <1>f, <1>1 DEF SignInTypeOK, ForgetHere
  <2>2. Past'
    <3>1. discarded' \cup forgets' \subseteq 1 .. made'
      BY <1>p, <1>f, <1>1 DEF Past, ForgetHere
    <3>2. device' <= made' /\ saved' <= made' /\ mem' <= made'
      BY <1>p, <1>1 DEF ForgetHere
    <3> QED BY <3>1, <3>2 DEF Past
  <2>3. ~raced' => OneIdentity'
    BY <1>0, <1>f, <1>i, <1>p, <1>1 DEF Past, OneIdentity, ForgetHere
  <2> QED BY <2>1, <2>2, <2>3 DEF IdentityInv
<1>2. CASE ForgetElsewhere
  <2>1. SignInTypeOK'
    BY <1>0, <1>p, <1>f, <1>2 DEF SignInTypeOK, ForgetElsewhere
  <2>2. Past'
    <3>1. discarded' \cup forgets' \subseteq 1 .. made'
      BY <1>p, <1>f, <1>2 DEF Past, ForgetElsewhere
    <3>2. device' <= made' /\ saved' <= made' /\ mem' <= made'
      BY <1>p, <1>2 DEF Past, ForgetElsewhere
    <3> QED BY <3>1, <3>2 DEF Past
  <2>3. ~raced' => ~raced /\ client.pc \notin Saving /\ ~(mem # 0 /\ ~provisioned)
    BY <1>i, <1>2 DEF ForgetElsewhere
  <2>4. ~raced' => OneIdentity'
    <3>1. 0 \notin discarded
      BY <1>0, <1>p DEF Past
    <3>2. ASSUME ~raced' PROVE OneIdentity'
      <4>1. device \notin discarded /\ (mem # 0 => provisioned)
        BY <1>i, <2>3, <3>2 DEF OneIdentity
      <4>2. UNCHANGED <<client, device, mem, provisioned, discarded>> /\ saved' = 0
        BY <1>2 DEF ForgetElsewhere
      <4> QED BY <2>3, <3>1, <3>2, <4>1, <4>2 DEF OneIdentity
    <3> QED BY <3>2
  <2> QED BY <2>1, <2>2, <2>4 DEF IdentityInv
<1>3. CASE ForgottenThere
  <2>1. SignInTypeOK'
    BY <1>0, <1>p, <1>3 DEF SignInTypeOK, ForgottenThere
  <2>2. Past'
    BY <1>p, <1>3 DEF Past, ForgottenThere
  <2>3. ~raced' => OneIdentity'
    BY <1>0, <1>i, <1>p, <1>3 DEF Past, OneIdentity, ForgottenThere
  <2> QED BY <2>1, <2>2, <2>3 DEF IdentityInv
<1>4. CASE MadeElsewhere
  BY <1>4, <1>p, DeviceKeepsInv DEF MadeElsewhere, SignInTypeOK, Client
<1>5. CASE ProvisionedElsewhere
  <2>1. SignInTypeOK'
    BY <1>p, <1>5 DEF SignInTypeOK, ProvisionedElsewhere
  <2>2. Past'
    BY <1>p, <1>5 DEF Past, ProvisionedElsewhere
  <2>3. ~raced' => OneIdentity'
    BY <1>i, <1>5 DEF OneIdentity, ProvisionedElsewhere
  <2> QED BY <2>1, <2>2, <2>3 DEF IdentityInv
<1> QED BY <1>1, <1>2, <1>3, <1>4, <1>5

LEMMA IdentityNext ==
  ASSUME IdentityInv, [SignInNext]_signInVars
  PROVE  IdentityInv'
<1> client \in Client
  BY DEF IdentityInv, SignInTypeOK, Client
<1>g. \A d \in {GivenUp(client), Over(client, "failed")} : d \in Client /\ d.pc \notin Saving
  BY SignInGoesOn DEF GivenUp, Ops
<1>1. CASE SignInBegins
  <2>1. NextRequest(client, "init") \in Client /\ NextRequest(client, "init").pc \notin Saving
    BY SignInGoesOn DEF Ops
  <2>2. client' \in Client /\ client'.pc \notin Saving
    <3>1. client' = [NextRequest(client, "init") EXCEPT !.round = 1, !.sms = FALSE]
      BY <1>1 DEF SignInBegins
    <3> QED BY <2>1, <3>1, BeginsAnew
  <2>3. CASE mem = 0
    BY <1>1, <2>2, <2>3, Reloaded DEF SignInBegins
  <2>4. CASE mem # 0
    <3>1. MakesDevice /\ Overlaps /\ UNCHANGED <<saved, mem, provisioned, forgets, discarded>>
      BY <1>1, <2>4 DEF SignInBegins
    <3> QED BY <2>2, <3>1, DeviceKeepsInv
  <2> QED BY <2>3, <2>4
<1>2. CASE Unanswered
  BY <1>2, UnansweredGoesOn, FlowKeepsInv DEF Unanswered
<1>3. CASE Answer
  BY <1>3, AnsweredGoesOn, FlowKeepsInv DEF Answer
<1>4. CASE CodeEntered
  <2>1. client' \in Client /\ client'.pc \notin Saving
    BY <1>4, SignInGoesOn DEF CodeEntered, Ops
  <2> QED BY <1>4, <2>1, FlowKeepsInv DEF CodeEntered
<1>5. CASE UNCHANGED signInVars
  BY <1>5 DEF signInVars, identity, IdentityInv, SignInTypeOK, Past, OneIdentity
<1>6. CASE ProviderFails
  <2>1. client' \in Client /\ client'.pc \notin Saving
    BY <1>g, <1>6 DEF ProviderFails
  <2>2. CASE MakesDevice
    <3>1. Overlaps /\ UNCHANGED <<saved, mem, provisioned, forgets, discarded>>
      BY <1>6 DEF ProviderFails
    <3> QED BY <2>1, <2>2, <3>1, DeviceKeepsInv
  <2>3. CASE UNCHANGED <<device, made>>
    BY <1>6, <2>1, <2>3 DEF ProviderFails, Overlaps, IdentityInv, SignInTypeOK, Client, Past, OneIdentity
  <2> QED BY <1>6, <2>2, <2>3 DEF ProviderFails
<1> QED BY <1>1, <1>2, <1>3, <1>4, <1>5, <1>6, HeadersKeepInv, OthersKeepInv DEF SignInNext, ClientStep

LEMMA IdentityInvInit == SignInInit => IdentityInv
<1>1. 1 \in 1 .. GsaMaxAttempts /\ 0 \in 0 .. TransportRetries /\ 0 \in Identities
  BY SignInAssumption DEF Identities
<1>2. SignInInit => client \in Client /\ client.pc \notin Saving
  BY <1>1 DEF SignInInit, Client, Ops, Saving
<1>3. SignInInit => Past /\ OneIdentity
  BY <1>2 DEF SignInInit, Past, OneIdentity
<1> QED BY <1>1, <1>2, <1>3 DEF SignInInit, IdentityInv, SignInTypeOK, Client

\* SignInTypeOK: a sign-in is always at one of its requests, with its attempts
\* and resends within their limits.
\* IdentityGone: however sign-ins, failures to provision, "forget the device"
\* here and the command line's overlap on memory and files, a discarded identity
\* is never in one of the files again, unless another process was in the way
\* unnoticed (raced): at work with headers(), or with an instance in memory that
\* is not provisioned, or it has provisioned a new identity.
THEOREM DiscardedStaysGone == SignInSpec => [](SignInTypeOK /\ IdentityGone)
<1>1. IdentityInv /\ [SignInNext]_signInVars => IdentityInv'
  BY IdentityNext
<1>2. IdentityInv => SignInTypeOK /\ IdentityGone
  BY DEF IdentityInv, OneIdentity, IdentityGone
<1> QED BY <1>1, <1>2, IdentityInvInit, PTL DEF SignInSpec

\* One of the sign-in's numbers is less, and those before it are the same.
SignInOnward(c, d) ==
  \/ Ended(d)
  \/ ~Ended(d) /\ d.round > c.round
  \/ ~Ended(d) /\ d.round = c.round /\ RequestsLeft(d.op) < RequestsLeft(c.op)
  \/ ~Ended(d) /\ d.round = c.round /\ d.op = c.op /\ d.attempt > c.attempt
  \/ ~Ended(d) /\ d.round = c.round /\ d.op = c.op /\ d.attempt = c.attempt /\ d.resend > c.resend
  \/ /\ ~Ended(d) /\ d.round = c.round /\ d.op = c.op /\ d.attempt = c.attempt /\ d.resend = c.resend
     /\ PhasesLeft(d.pc) < PhasesLeft(c.pc)

\* Somebody is asked for a code in the first round only, over the devices or
\* by text message.
AsksOnce(c) ==
  /\ c.op \in {"trusteddevice", "validate"} => c.round = 1
  /\ c.op \in {"auth", "phone"} => c.sms
  /\ c.pc = "asking" => c.op \in {"trusteddevice", "phone"}

LEMMA SignInLeftTyped ==
  ASSUME NEW c \in Client
  PROVE  /\ (IF Ended(c) THEN 0 ELSE 3 - c.round) \in Nat /\ RequestsLeft(c.op) \in Nat
         /\ GsaMaxAttempts - c.attempt \in Nat /\ TransportRetries - c.resend \in Nat
         /\ PhasesLeft(c.pc) \in Nat
<1>1. c.round \in 1 .. 2 /\ c.attempt \in 1 .. GsaMaxAttempts /\ c.resend \in 0 .. TransportRetries
  BY DEF Client
<1>2. RequestsLeft(c.op) \in Nat /\ PhasesLeft(c.pc) \in Nat
  BY DEF RequestsLeft, PhasesLeft
<1> QED BY <1>1, <1>2, SignInAssumption

LEMMA SignInNearer ==
  ASSUME NEW c \in Client, NEW d \in Client, ~Ended(c), SignInOnward(c, d)
  PROVE  Nearer(SignInLeft(d), SignInLeft(c))
<1> DEFINE rounds(n) == IF Ended(n) THEN 0 ELSE 3 - n.round
           attempts(n) == GsaMaxAttempts - n.attempt
           resends(n) == TransportRetries - n.resend
<1>1. ASSUME NEW n \in Client
      PROVE  /\ rounds(n) \in Nat /\ RequestsLeft(n.op) \in Nat /\ attempts(n) \in Nat
             /\ resends(n) \in Nat /\ PhasesLeft(n.pc) \in Nat
  BY SignInLeftTyped
<1>2. /\ {c.round, d.round} \subseteq 1 .. 2
      /\ {c.attempt, d.attempt} \subseteq 1 .. GsaMaxAttempts
      /\ {c.resend, d.resend} \subseteq 0 .. TransportRetries
  BY DEF Client
<1>3. /\ Ended(d) => rounds(d) < rounds(c)
      /\ ~Ended(d) /\ d.round > c.round => rounds(d) < rounds(c)
      /\ ~Ended(d) /\ d.round = c.round => rounds(d) = rounds(c)
      /\ d.attempt > c.attempt => attempts(d) < attempts(c)
      /\ d.resend > c.resend => resends(d) < resends(c)
  BY <1>2, SignInAssumption
<1>4. /\ d.attempt = c.attempt => attempts(d) = attempts(c)
      /\ d.resend = c.resend => resends(d) = resends(c)
      /\ d.op = c.op => RequestsLeft(d.op) = RequestsLeft(c.op)
  OBVIOUS
<1>5. /\ SignInLeft(c) = <<rounds(c), RequestsLeft(c.op), attempts(c), resends(c), PhasesLeft(c.pc)>>
      /\ SignInLeft(d) = <<rounds(d), RequestsLeft(d.op), attempts(d), resends(d), PhasesLeft(d.pc)>>
  BY DEF SignInLeft
<1> HIDE DEF rounds, attempts, resends
<1>6. \/ rounds(d) < rounds(c)
      \/ rounds(d) = rounds(c) /\ RequestsLeft(d.op) < RequestsLeft(c.op)
      \/ rounds(d) = rounds(c) /\ RequestsLeft(d.op) = RequestsLeft(c.op) /\ attempts(d) < attempts(c)
      \/ /\ rounds(d) = rounds(c) /\ RequestsLeft(d.op) = RequestsLeft(c.op) /\ attempts(d) = attempts(c)
         /\ resends(d) < resends(c)
      \/ /\ rounds(d) = rounds(c) /\ RequestsLeft(d.op) = RequestsLeft(c.op) /\ attempts(d) = attempts(c)
         /\ resends(d) = resends(c) /\ PhasesLeft(d.pc) < PhasesLeft(c.pc)
  BY <1>3, <1>4 DEF SignInOnward
<1>7. /\ rounds(c) \in Nat /\ RequestsLeft(c.op) \in Nat /\ attempts(c) \in Nat /\ resends(c) \in Nat
      /\ PhasesLeft(c.pc) \in Nat
      /\ rounds(d) \in Nat /\ RequestsLeft(d.op) \in Nat /\ attempts(d) \in Nat /\ resends(d) \in Nat
      /\ PhasesLeft(d.pc) \in Nat
  BY <1>1
<1>8. Nearer(<<rounds(d), RequestsLeft(d.op), attempts(d), resends(d), PhasesLeft(d.pc)>>,
             <<rounds(c), RequestsLeft(c.op), attempts(c), resends(c), PhasesLeft(c.pc)>>)
  BY <1>6, <1>7, NearerOfFive
<1> QED BY <1>5, <1>8

\* The next request, and the end.
LEMMA RequestOnward ==
  ASSUME NEW c \in Client
  PROVE  /\ \A op \in Ops : LET d == NextRequest(c, op) IN
              d \in Client /\ ~Ended(d) /\ d.pc = "identify" /\ d.round = c.round /\ d.op = op /\ d.sms = c.sms
         /\ \A how \in {"done", "failed"} : LET d == Over(c, how) IN d \in Client /\ Ended(d) /\ AsksOnce(d)
<1>1. ASSUME NEW op \in Ops
      PROVE  LET d == NextRequest(c, op) IN
             d \in Client /\ ~Ended(d) /\ d.pc = "identify" /\ d.round = c.round /\ d.op = op /\ d.sms = c.sms
  <2> DEFINE d == NextRequest(c, op)
  <2>1. d \in Client
    BY SignInGoesOn
  <2>2. d.pc = "identify" /\ d.round = c.round /\ d.op = op /\ d.sms = c.sms
    BY Zenon DEF Client, NextRequest
  <2> HIDE DEF d
  <2>3. ~Ended(d)
    BY <2>2 DEF Ended
  <2> QED BY <2>1, <2>2, <2>3 DEF d
<1>2. ASSUME NEW how \in {"done", "failed"}
      PROVE  LET d == Over(c, how) IN d \in Client /\ Ended(d) /\ AsksOnce(d)
  <2>1. Over(c, how).pc = how /\ Over(c, how).op = "init"
    BY Zenon DEF Client, Over
  <2> QED BY <2>1, SignInGoesOn DEF Ended, AsksOnce
<1> QED BY <1>1, <1>2

\* A request that cannot be finished.
LEMMA GivenUpOnward ==
  ASSUME NEW c \in Client
  PROVE  SignInOnward(c, GivenUp(c)) /\ AsksOnce(GivenUp(c))
<1>1. CASE c.op = "trust"
  <2> DEFINE n == NextRequest(c, "apptokens")
  <2>1. ~Ended(n) /\ n.pc = "identify" /\ n.round = c.round /\ n.op = "apptokens"
    BY RequestOnward DEF Ops
  <2>2. RequestsLeft("apptokens") < RequestsLeft("trust")
    BY DEF RequestsLeft
  <2> HIDE DEF n
  <2>3. SignInOnward(c, n) /\ AsksOnce(n)
    BY <1>1, <2>1, <2>2 DEF SignInOnward, AsksOnce
  <2> QED BY <1>1, <2>3 DEF GivenUp, n
<1>2. CASE c.op # "trust"
  BY <1>2, RequestOnward DEF GivenUp, SignInOnward
<1> QED BY <1>1, <1>2

\* Without an answer: sent again, tried again, or given up.
LEMMA UnansweredOnward ==
  ASSUME NEW c \in Client, c.pc = "send", AsksOnce(c), NEW d \in {Resent(c), Throttled(c), GivenUp(c)}
  PROVE  SignInOnward(c, d) /\ AsksOnce(d)
<1>1. SignInOnward(c, GivenUp(c)) /\ AsksOnce(GivenUp(c))
  BY GivenUpOnward
<1>2. c.resend < TransportRetries =>
        SignInOnward(c, [c EXCEPT !.resend = @ + 1]) /\ AsksOnce([c EXCEPT !.resend = @ + 1])
  <2> DEFINE n == [c EXCEPT !.resend = @ + 1]
  <2>1. n.pc = c.pc /\ n.round = c.round /\ n.op = c.op /\ n.attempt = c.attempt /\ n.resend = c.resend + 1
        /\ n.sms = c.sms
    BY Zenon DEF Client
  <2>2. c.resend \in Nat
    BY SignInAssumption DEF Client
  <2> HIDE DEF n
  <2>3. SignInOnward(c, n) /\ AsksOnce(n)
    BY <2>1, <2>2 DEF SignInOnward, Ended, AsksOnce
  <2> QED BY <2>3 DEF n
<1>3. c.attempt < GsaMaxAttempts =>
        /\ SignInOnward(c, [c EXCEPT !.attempt = @ + 1, !.resend = 0])
        /\ AsksOnce([c EXCEPT !.attempt = @ + 1, !.resend = 0])
  <2> DEFINE n == [c EXCEPT !.attempt = @ + 1, !.resend = 0]
  <2>1. n.pc = c.pc /\ n.round = c.round /\ n.op = c.op /\ n.attempt = c.attempt + 1 /\ n.sms = c.sms
    BY Zenon DEF Client
  <2>2. c.attempt \in Nat
    BY SignInAssumption DEF Client
  <2> HIDE DEF n
  <2>3. SignInOnward(c, n) /\ AsksOnce(n)
    BY <2>1, <2>2 DEF SignInOnward, Ended, AsksOnce
  <2> QED BY <2>3 DEF n
<1> QED BY <1>1, <1>2, <1>3 DEF Resent, Throttled

\* The next request of a round, and another round.
LEMMA NextOnward ==
  ASSUME NEW c \in Client, AsksOnce(c), NEW op \in Ops, RequestsLeft(op) < RequestsLeft(c.op),
         op \in {"trusteddevice", "validate"} => c.round = 1, op \in {"auth", "phone"} => c.sms
  PROVE  SignInOnward(c, NextRequest(c, op)) /\ AsksOnce(NextRequest(c, op))
<1> DEFINE n == NextRequest(c, op)
<1>1. ~Ended(n) /\ n.pc = "identify" /\ n.round = c.round /\ n.op = op /\ n.sms = c.sms
  BY RequestOnward
<1> HIDE DEF n
<1>2. SignInOnward(c, n) /\ AsksOnce(n)
  BY <1>1 DEF SignInOnward, AsksOnce
<1> QED BY <1>2 DEF n

LEMMA HandshakeOnward ==
  ASSUME NEW c \in Client, c.round = 1
  PROVE  SignInOnward(c, Handshake(c)) /\ AsksOnce(Handshake(c))
<1>1. ASSUME NEW n \in Client, ~Ended(n), n.op = "init", n.pc = "identify"
      PROVE  LET d == [n EXCEPT !.round = 2] IN SignInOnward(c, d) /\ AsksOnce(d)
  <2> DEFINE d == [n EXCEPT !.round = 2]
  <2>1. d.round = 2 /\ d.op = "init" /\ d.pc = n.pc
    BY <1>1 DEF Client
  <2> HIDE DEF d
  <2>2. SignInOnward(c, d) /\ AsksOnce(d)
    BY <1>1, <2>1 DEF SignInOnward, AsksOnce, Ended
  <2> QED BY <2>2 DEF d
<1>2. /\ NextRequest(c, "init") \in Client /\ ~Ended(NextRequest(c, "init"))
      /\ NextRequest(c, "init").op = "init" /\ NextRequest(c, "init").pc = "identify"
  BY RequestOnward DEF Ops
<1> QED BY <1>1, <1>2 DEF Handshake

\* After an answer.
LEMMA AnsweredOnward ==
  ASSUME NEW c \in Client, c.pc = "send", AsksOnce(c), NEW d \in AfterAnswer(c) \cup {Over(c, "failed")}
  PROVE  SignInOnward(c, d) /\ AsksOnce(d)
<1>0. \A how \in {"done", "failed"} : SignInOnward(c, Over(c, how)) /\ AsksOnce(Over(c, how))
  BY RequestOnward DEF SignInOnward
<1>1. CASE c.op = "init" /\ d = NextRequest(c, "complete")
  <2>1. RequestsLeft("complete") < RequestsLeft("init") /\ "complete" \in Ops
    BY DEF RequestsLeft, Ops
  <2> QED BY <1>1, <2>1, NextOnward
<1>2. CASE c.op = "complete" /\ d \in AfterComplete(c)
  <2>0. /\ \A op \in {"apptokens", "trusteddevice", "auth"} : RequestsLeft(op) < RequestsLeft("complete")
        /\ {"apptokens", "trusteddevice", "auth"} \subseteq Ops
    BY DEF RequestsLeft, Ops
  <2>1. CASE d = NextRequest(c, "apptokens")
    BY <1>2, <2>0, <2>1, NextOnward
  <2>2. CASE c.round = 1 /\ d = NextRequest(c, "trusteddevice")
    BY <1>2, <2>0, <2>2, NextOnward
  <2>3. CASE c.round = 1 /\ d = [NextRequest(c, "auth") EXCEPT !.sms = TRUE]
    <3>1. ASSUME NEW n \in Client, ~Ended(n), n.round = c.round, n.op = "auth", n.pc = "identify",
                 d = [n EXCEPT !.sms = TRUE]
          PROVE  SignInOnward(c, d) /\ AsksOnce(d)
      <4>1. d.round = n.round /\ d.op = "auth" /\ d.pc = n.pc /\ d.sms
        BY <3>1 DEF Client
      <4> QED BY <1>2, <2>0, <3>1, <4>1 DEF SignInOnward, AsksOnce, Ended
    <3>2. LET n == NextRequest(c, "auth") IN
          n \in Client /\ ~Ended(n) /\ n.round = c.round /\ n.op = "auth" /\ n.pc = "identify"
      BY <2>0, RequestOnward
    <3> QED BY <2>3, <3>1, <3>2
  <2> QED BY <1>0, <1>2, <2>1, <2>2, <2>3 DEF AfterComplete
<1>3. CASE c.op \in {"trusteddevice", "phone"} /\ d = Prompt(c)
  <2>1. d.pc = "asking" /\ d.round = c.round /\ d.op = c.op /\ d.sms = c.sms
        /\ d.attempt = c.attempt /\ d.resend = c.resend
    BY <1>3 DEF Prompt, Client
  <2>2. PhasesLeft("asking") < PhasesLeft("send")
    BY DEF PhasesLeft
  <2> QED BY <1>3, <2>1, <2>2 DEF SignInOnward, AsksOnce, Ended
<1>4. CASE c.op = "validate" /\ d = Handshake(c)
  BY <1>4, HandshakeOnward DEF AsksOnce
<1>5. CASE c.op = "auth" /\ d = NextRequest(c, "phone")
  <2>1. RequestsLeft("phone") < RequestsLeft("auth") /\ "phone" \in Ops
    BY DEF RequestsLeft, Ops
  <2> QED BY <1>5, <2>1, NextOnward DEF AsksOnce
<1>6. CASE c.op = "securitycode" /\ d = NextRequest(c, "trust")
  <2>1. RequestsLeft("trust") < RequestsLeft("securitycode") /\ "trust" \in Ops
    BY DEF RequestsLeft, Ops
  <2> QED BY <1>6, <2>1, NextOnward
<1>7. CASE c.op = "trust" /\ d = NextRequest(c, "apptokens")
  <2>1. RequestsLeft("apptokens") < RequestsLeft("trust") /\ "apptokens" \in Ops
    BY DEF RequestsLeft, Ops
  <2> QED BY <1>7, <2>1, NextOnward
<1>8. CASE d \in AfterTokens(c)
  BY <1>0, <1>8, HandshakeOnward DEF AfterTokens
<1> QED BY <1>0, <1>1, <1>2, <1>3, <1>4, <1>5, <1>6, <1>7, <1>8 DEF AfterAnswer

\* The person's turn.
LEMMA CodeOnward ==
  ASSUME NEW c \in Client, c.pc = "asking", AsksOnce(c),
         NEW d \in {NextRequest(c, IF c.sms THEN "securitycode" ELSE "validate"), Over(c, "failed")}
  PROVE  SignInOnward(c, d) /\ AsksOnce(d)
<1>1. CASE d = Over(c, "failed")
  BY <1>1, RequestOnward DEF SignInOnward
<1>2. CASE c.sms /\ d = NextRequest(c, "securitycode")
  <2>1. /\ RequestsLeft("securitycode") < RequestsLeft("trusteddevice")
        /\ RequestsLeft("securitycode") < RequestsLeft("phone") /\ "securitycode" \in Ops
    BY DEF RequestsLeft, Ops
  <2>2. c.op \in {"trusteddevice", "phone"}
    BY DEF AsksOnce
  <2> QED BY <1>2, <2>1, <2>2, NextOnward
<1>3. CASE ~c.sms /\ d = NextRequest(c, "validate")
  <2>1. RequestsLeft("validate") < RequestsLeft("trusteddevice") /\ "validate" \in Ops
    BY DEF RequestsLeft, Ops
  <2>2. c.op = "trusteddevice" /\ c.round = 1
    BY <1>3 DEF AsksOnce
  <2> QED BY <1>3, <2>1, <2>2, NextOnward
<1> QED BY <1>1, <1>2, <1>3

\* The headers.
LEMMA HeadersOnward ==
  ASSUME client \in Client, AsksOnce(client), Identify \/ Persist \/ EmulationBreaks \/ ProviderFails
  PROVE  SignInOnward(client, client') /\ AsksOnce(client')
<1>1. ASSUME NEW next \in {"persist", "identify again", "persist again", "send"},
             client' = [client EXCEPT !.pc = next], PhasesLeft(next) < PhasesLeft(client.pc)
      PROVE  SignInOnward(client, client') /\ AsksOnce(client')
  <2>1. /\ client'.pc = next /\ client'.round = client.round /\ client'.op = client.op
        /\ client'.attempt = client.attempt /\ client'.resend = client.resend /\ client'.sms = client.sms
    BY <1>1 DEF Client
  <2> QED BY <1>1, <2>1 DEF SignInOnward, AsksOnce, Ended
<1>2. CASE Identify
  <2>1. /\ PhasesLeft("persist") < PhasesLeft("identify")
        /\ PhasesLeft("persist again") < PhasesLeft("identify again")
    BY DEF PhasesLeft
  <2>2. CASE client.pc = "identify" /\ client' = [client EXCEPT !.pc = "persist"]
    BY <1>1, <2>1, <2>2
  <2>3. CASE client.pc = "identify again" /\ client' = [client EXCEPT !.pc = "persist again"]
    BY <1>1, <2>1, <2>3
  <2> QED BY <1>2, <2>2, <2>3 DEF Identify, Looking
<1>3. CASE Persist
  <2>1. PhasesLeft("send") < PhasesLeft("persist") /\ PhasesLeft("send") < PhasesLeft("persist again")
    BY DEF PhasesLeft
  <2> QED BY <1>1, <1>3, <2>1 DEF Persist, Saving
<1>4. CASE EmulationBreaks
  <2>1. /\ PhasesLeft("identify again") < PhasesLeft("identify")
        /\ PhasesLeft("identify again") < PhasesLeft("persist")
    BY DEF PhasesLeft
  <2> QED BY <1>1, <1>4, <2>1 DEF EmulationBreaks
<1>5. CASE ProviderFails
  BY <1>5, GivenUpOnward, RequestOnward DEF ProviderFails, SignInOnward
<1> QED BY <1>2, <1>3, <1>4, <1>5

LEMMA AsksOnceStep ==
  ASSUME IdentityInv, IdentityInv', AsksOnce(client), [SignInNext]_signInVars
  PROVE  /\ AsksOnce(client')
         /\ client' = client \/ Ended(client) \/ Nearer(SignInLeft(client'), SignInLeft(client))
<1>0. client \in Client /\ client' \in Client
  BY DEF IdentityInv, SignInTypeOK, Client
<1>1. CASE SignInBegins
  <2>1. ASSUME NEW n \in Client, n.op = "init", n.pc = "identify", client' = [n EXCEPT !.round = 1, !.sms = FALSE]
        PROVE  AsksOnce(client')
    <3>1. client'.op = "init" /\ client'.pc = "identify"
      BY <2>1 DEF Client
    <3> QED BY <3>1 DEF AsksOnce
  <2>2. NextRequest(client, "init") \in Client /\ NextRequest(client, "init").op = "init"
        /\ NextRequest(client, "init").pc = "identify"
    BY <1>0, RequestOnward DEF Ops
  <2> QED BY <1>1, <2>1, <2>2 DEF SignInBegins, Ended
<1>2. CASE ClientStep
  <2>1. SignInOnward(client, client') /\ AsksOnce(client')
    BY <1>0, <1>2, HeadersOnward, UnansweredOnward, AnsweredOnward, CodeOnward
       DEF ClientStep, Unanswered, Answer, CodeEntered
  <2>2. ~Ended(client)
    BY <1>2 DEF ClientStep, Identify, Persist, EmulationBreaks, ProviderFails, Unanswered, Answer, CodeEntered,
                Ended, Looking, Saving
  <2> QED BY <1>0, <2>1, <2>2, SignInNearer
<1>3. CASE client' = client
  BY <1>3
<1> QED BY <1>1, <1>2, <1>3 DEF SignInNext, ForgetHere, ForgetElsewhere, ForgottenThere, MadeElsewhere,
                                 ProvisionedElsewhere, signInVars

\* However often Apple throttles it, cuts it off, asks for a code or for the
\* handshake again: every step of a sign-in takes it nearer its end, for any
\* number of attempts and resends.
THEOREM SignInsGetOn == SignInSpec => SignInGetsOn
<1>1. SignInInit => AsksOnce(client)
  BY DEF SignInInit, AsksOnce
<1>2. IdentityInv /\ IdentityInv' /\ AsksOnce(client) /\ [SignInNext]_signInVars
      => AsksOnce(client)'
         /\ [client' = client \/ Ended(client) \/ Nearer(SignInLeft(client'), SignInLeft(client))]_signInVars
  BY AsksOnceStep DEF AsksOnce
<1> QED BY <1>1, <1>2, IdentityInvInit, IdentityNext, PTL DEF SignInSpec, SignInGetsOn

-------------------------------------------------------------------------------
(* Side by side.                                                           *)

LEMMA EachMovesAlone ==
  [ConversationsNext]_all
  => /\ [Next]_vars /\ [TunnelNext]_tunnelVars /\ [ReadinessNext]_readinessVars
     /\ [DebuggerNext]_debuggerVars /\ [SignInNext]_signInVars
BY DEF ConversationsNext, all, ServerMoves, TunnelMoves, ReadinessMoves, DebuggerMoves, SignInMoves

\* In one process, with one of them under way at a time, the parts of the
\* backend that talk to somebody are what they are alone: what is proved about
\* each of them holds for the run that has them all.
THEOREM SideBySide ==
  ConversationsSpec => Spec /\ TunnelSpec /\ ReadinessSpec /\ DebuggerSpec /\ SignInSpec
<1>1. ConversationsInit => Init /\ TunnelInit /\ ReadinessInit /\ DebuggerInit /\ SignInInit
  BY DEF ConversationsInit
<1> QED BY <1>1, EachMovesAlone, PTL DEF ConversationsSpec, Spec, TunnelSpec, ReadinessSpec, DebuggerSpec, SignInSpec

\* Every step of a job, of the debugger's host and of a sign-in takes it nearer
\* its end: for any number of services, candidates, attempts, stops, pages and
\* resends.
THEOREM AllGetOn == ConversationsSpec => ConversationsGetOn
BY SideBySide, TunnelJobsGetOn, JitsGetOn, SignInsGetOn, PTL DEF ConversationsGetOn

\* ConversationsTypeOK: for any number of requests, attempts, candidates, pages
\* and resends, no part leaves its types.
THEOREM ConversationsTypes == ConversationsSpec => []ConversationsTypeOK
<1>1. Inv => TypeOK
  BY DEF Inv
<1> QED BY <1>1, SideBySide, Invariant, TunnelTypes, FixesHelp, AppIsToldTheTruth, DiscardedStaysGone, PTL
        DEF ConversationsTypeOK
=============================================================================
