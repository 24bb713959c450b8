------------------------------- MODULE Server --------------------------------
(***************************************************************************)
(* The JSON-RPC server of the backend, class Job and class Server of       *)
(* modstaller/server.py: requests are dispatched on one asyncio loop, long *)
(* work runs in worker threads (asyncio.to_thread), most of it under a     *)
(* loop of its own (Job.isolated) so that it can be cancelled, and a       *)
(* worker may ask the user a question (ask_blocking).  At the end of the   *)
(* input running work is cancelled and the process waits for its threads.  *)
(*                                                                         *)
(* A step of the main loop is what runs between two awaits.  A worker's    *)
(* steps are split wherever it reads or writes what the main loop uses,    *)
(* Job._cancel and Job.cancelled, and where its own loop closes.  Isolated *)
(* work may itself await a helper thread (asyncio.to_thread), which no     *)
(* cancel stops: it goes on by itself when the work is cancelled.          *)
(***************************************************************************)
EXTENDS Naturals, Sequences

CONSTANTS
  Ids,          \* ids of requests; the client never reuses one
  Menu,         \* [Ids -> what the client may call under this id in this instance]
  NoId

\* Handlers by how they run: in the dispatch itself; "cancel"; in a thread
\* with its own loop (isolated), the same for work that goes on until it is
\* cancelled (jit); in a plain thread that asks the user (login); a download
\* in a plain thread, then an isolated installation (store.install).
AllMethods == {"quick", "cancel", "isolated", "jit", "login", "store.install"}

ASSUME ServerAssumption ==
  /\ Menu \in [Ids -> SUBSET AllMethods]
  /\ NoId \notin Ids

VARIABLES
  phase,        \* "serving" | "draining" (asyncio.run cleans up) | "exited"
  ready,        \* dispatch tasks that have not run yet, in order
  jobs,         \* Server._jobs: [Ids -> place in the order of insertion, 0: absent]
  entered,      \* how many jobs have been entered so far
  method,       \* [Ids -> the request's handler or "none"]
  target,       \* [Ids -> whom a "cancel" names]
  task,         \* the dispatch task: "none" | "ready" | "await" | "done"
  second,       \* store.install has reached its isolated part
  worker,       \* the worker thread of the request, see Pcs
  helper,       \* a helper thread of its isolated work is running
  cancelled,    \* Job.cancelled
  hook,         \* Job._cancel is set
  inner,        \* cancel() has reached the task inside the worker's loop
  result,       \* how the worker's work ended
  reply         \* what was sent to the client, or "none"

book == <<jobs, entered>>
main == <<ready, book, method, target, task, second>>
vars == <<phase, ready, jobs, entered, method, target, task, second, worker, helper,
          cancelled, hook, inner, result, reply>>

Pcs == {"none", "queued", "hooked", "working", "posting", "asking", "ended",
        "closed", "returned"}
Results == {"ok", "error", "cancelled"}

\* The request's present worker runs under Job.isolated.
Isolated(r) == method[r] \in {"isolated", "jit"} \/ (method[r] = "store.install" /\ second[r])

Init ==
  /\ phase = "serving"
  /\ ready = <<>>
  /\ jobs = [r \in Ids |-> 0] /\ entered = 0
  /\ method = [r \in Ids |-> "none"]
  /\ target = [r \in Ids |-> NoId]
  /\ task = [r \in Ids |-> "none"]
  /\ second = [r \in Ids |-> FALSE]
  /\ worker = [r \in Ids |-> "none"]
  /\ helper = [r \in Ids |-> FALSE]
  /\ cancelled = [r \in Ids |-> FALSE]
  /\ hook = [r \in Ids |-> FALSE]
  /\ inner = [r \in Ids |-> FALSE]
  /\ result = [r \in Ids |-> "ok"]
  /\ reply = [r \in Ids |-> "none"]

-----------------------------------------------------------------------------
(* Requests and their dispatch.                                            *)

\* handle_line: a dispatch task is created; it runs in a later turn.
Request(r, m, t) ==
  /\ phase = "serving" /\ task[r] = "none"
  /\ method' = [method EXCEPT ![r] = m]
  /\ target' = [target EXCEPT ![r] = IF m = "cancel" THEN t ELSE NoId]
  /\ task' = [task EXCEPT ![r] = "ready"]
  /\ ready' = Append(ready, r)
  /\ UNCHANGED <<phase, book, second, worker, helper, cancelled, hook, inner, result, reply>>

\* _dispatch begins.
Starts(r) ==
  /\ phase = "serving" /\ task[r] = "ready"
  /\ ready # <<>> /\ r = Head(ready)
  /\ ready' = Tail(ready)

\* _dispatch ends: the job is struck out and its only answer sent.
Ends(r, answer) ==
  /\ task' = [task EXCEPT ![r] = "done"]
  /\ reply' = [reply EXCEPT ![r] = answer]

\* A handler without an await, or a request that is refused.
DispatchQuick(r) ==
  /\ method[r] = "quick"
  /\ Starts(r)
  /\ \E answer \in {"ok", "error"} : Ends(r, answer)
  /\ UNCHANGED <<phase, book, method, target, second, worker, helper, cancelled, hook, inner,
                 result>>

\* MUTANT: the handler does not await its thread.
DispatchAndForget(r) ==
  /\ method[r] \in AllMethods \ {"quick", "cancel"}
  /\ Starts(r)
  /\ Ends(r, "ok")
  /\ worker' = [worker EXCEPT ![r] = "queued"]
  /\ UNCHANGED <<phase, book, method, target, second, helper, cancelled, hook, inner, result>>

\* A handler that awaits a thread.
DispatchWork(r) ==
  /\ method[r] \in AllMethods \ {"quick", "cancel"}
  /\ Starts(r)
  /\ entered' = entered + 1
  /\ jobs' = [jobs EXCEPT ![r] = entered + 1]
  /\ task' = [task EXCEPT ![r] = "await"]
  /\ worker' = [worker EXCEPT ![r] = "queued"]
  /\ UNCHANGED <<phase, method, target, second, helper, cancelled, hook, inner, result, reply>>

\* Job.cancel(t): the hook posts task.cancel() to the worker's loop, which
\* raises if that loop is closed already, and does nothing if the work is done.
Raises(t) == hook[t] /\ worker[t] \in {"closed", "returned"}
Reaches(t) == hook[t] /\ worker[t] \in {"hooked", "working"}

InJobs(t) == jobs[t] # 0

\* The handler of "cancel".
DispatchCancel(c) ==
  LET t == target[c]
  IN  /\ method[c] = "cancel"
      /\ Starts(c)
      /\ Ends(c, IF InJobs(t) /\ Raises(t) THEN "error" ELSE "ok")
      /\ cancelled' = IF InJobs(t) THEN [cancelled EXCEPT ![t] = TRUE] ELSE cancelled
      /\ inner' = IF InJobs(t) /\ Reaches(t) THEN [inner EXCEPT ![t] = TRUE] ELSE inner
      /\ UNCHANGED <<phase, book, method, target, second, worker, helper, hook, result>>

\* _jobs.pop
Unregistered(r) == [jobs EXCEPT ![r] = 0]

\* MUTANT: nothing is sent.
ResumesSilently(r) ==
  /\ phase = "serving" /\ task[r] = "await" /\ worker[r] = "returned"
  /\ hook' = [hook EXCEPT ![r] = FALSE]
  /\ task' = [task EXCEPT ![r] = "done"]
  /\ jobs' = Unregistered(r)
  /\ UNCHANGED <<phase, ready, entered, method, target, second, worker, helper, cancelled,
                 inner, result, reply>>

\* The worker's result reaches the main loop: isolated clears the hook, the
\* handler goes on to its installation or returns.
Resumes(r) ==
  /\ phase = "serving" /\ task[r] = "await" /\ worker[r] = "returned"
  /\ hook' = [hook EXCEPT ![r] = FALSE]
  /\ IF method[r] = "store.install" /\ ~second[r] /\ result[r] = "ok"
     THEN /\ second' = [second EXCEPT ![r] = TRUE]
          /\ worker' = [worker EXCEPT ![r] = "queued"]
          /\ UNCHANGED <<jobs, task, reply>>
     ELSE /\ Ends(r, result[r])
          /\ jobs' = Unregistered(r)
          /\ UNCHANGED <<second, worker>>
  /\ UNCHANGED <<phase, ready, entered, method, target, helper, cancelled, inner, result>>

-----------------------------------------------------------------------------
(* Worker threads.                                                         *)

Moves(r, from, to) ==
  /\ worker[r] = from
  /\ worker' = [worker EXCEPT ![r] = to]
  /\ UNCHANGED <<phase, main, helper, cancelled, reply>>

\* The thread begins; isolated creates loop and task and sets Job._cancel.
ThreadStarts(r) ==
  /\ Moves(r, "queued", IF Isolated(r) THEN "hooked" ELSE "working")
  /\ hook' = IF Isolated(r) THEN [hook EXCEPT ![r] = TRUE] ELSE hook
  /\ UNCHANGED <<inner, result>>

\* MUTANT: the flag is not read.
RunsBlindly(r) ==
  /\ Moves(r, "hooked", "working")
  /\ UNCHANGED <<inner, result, hook>>

\* `if self.cancelled: task.cancel()`: such a task never begins its work.
ReadsFlag(r) ==
  /\ Moves(r, "hooked", IF cancelled[r] THEN "ended" ELSE "working")
  /\ result' = IF cancelled[r] THEN [result EXCEPT ![r] = "cancelled"] ELSE result
  /\ UNCHANGED <<inner, hook>>

\* MUTANT: an end that _dispatch does not know.
EndsUnknown(r) == Results \cup {"timeout"}

\* MUTANT: a cancellation from elsewhere is reported, too.
EndsAnyhow(r) == Results

\* How the work may end now: "cancelled" comes from the inner task alone, and
\* is raised in the await, whatever the helper thread is doing; any other end
\* comes after the helper's.  (A download that sees the flag ends with an
\* ordinary error.)
EndsWith(r) ==
  (IF helper[r] THEN {} ELSE {"ok", "error"})
    \cup IF inner[r] /\ Isolated(r) THEN {"cancelled"} ELSE {}

WorkEnds(r) ==
  /\ Moves(r, "working", IF Isolated(r) THEN "ended" ELSE "returned")
  /\ \E how \in EndsWith(r) : result' = [result EXCEPT ![r] = how]
  /\ UNCHANGED <<inner, hook>>

\* Isolated work awaits asyncio.to_thread: the IPA of a store's update
\* (pipeline.py), the tunnel's lock (tunnel.py), the script of JIT (jit.py).
Helps(r) ==
  /\ worker[r] = "working" /\ Isolated(r) /\ ~helper[r]
  /\ helper' = [helper EXCEPT ![r] = TRUE]
  /\ UNCHANGED <<phase, main, worker, cancelled, hook, inner, result, reply>>

\* It is through; if the work was cancelled meanwhile, nobody awaits it.
HelperEnds(r) ==
  /\ helper[r]
  /\ helper' = [helper EXCEPT ![r] = FALSE]
  /\ UNCHANGED <<phase, main, worker, cancelled, hook, inner, result, reply>>

\* loop.close() does not wait for the loop's helper threads.
LoopCloses(r) == Moves(r, "ended", "closed") /\ UNCHANGED <<inner, result, hook>>

ThreadReturns(r) == Moves(r, "closed", "returned") /\ UNCHANGED <<inner, result, hook>>

\* ask_blocking: the worker posts the question to the main loop and waits,
\* the loop sends it, the user's answer lets the worker go on.
Asks(r) ==
  /\ method[r] = "login"
  /\ Moves(r, "working", "posting")
  /\ UNCHANGED <<inner, result, hook>>

QuestionSent(r) ==
  /\ phase # "exited"
  /\ Moves(r, "posting", "asking")
  /\ UNCHANGED <<inner, result, hook>>

AnswerArrives(r) ==
  /\ phase = "serving"
  /\ Moves(r, "asking", "working")
  /\ UNCHANGED <<inner, result, hook>>

-----------------------------------------------------------------------------
(* The end of the input.                                                   *)

\* serve: every job is cancelled in turn; an exception ends the loop.
ToldAtEof ==
  {r \in Ids : InJobs(r) /\ \A s \in Ids : InJobs(s) /\ jobs[s] < jobs[r] => ~Raises(s)}

\* serve returns (or raises) and asyncio.run cancels every task: a waiting
\* dispatch answers "cancelled", one that has not run yet never does, an open
\* question fails, and a thread that has not started yet may be dropped.
Eof ==
  /\ phase = "serving"
  /\ phase' = "draining"
  /\ cancelled' = [r \in Ids |-> cancelled[r] \/ r \in ToldAtEof]
  /\ inner' = [r \in Ids |-> inner[r] \/ (r \in ToldAtEof /\ Reaches(r))]
  /\ hook' = [r \in Ids |-> FALSE]
  /\ reply' = [r \in Ids |-> IF task[r] = "await" THEN "cancelled" ELSE reply[r]]
  /\ task' = [r \in Ids |-> IF task[r] = "none" THEN "none" ELSE "done"]
  /\ ready' = <<>>
  /\ jobs' = [r \in Ids |-> 0]
  /\ \E dropped \in SUBSET {r \in Ids : worker[r] = "queued"} :
       worker' = [r \in Ids |-> CASE r \in dropped -> "none"
                                  [] worker[r] = "asking" -> "returned"
                                  [] OTHER -> worker[r]]
  /\ UNCHANGED <<entered, method, target, second, helper, result>>

\* shutdown_default_executor has joined the threads, and the interpreter those
\* of closed loops.
Exits ==
  /\ phase = "draining"
  /\ \A r \in Ids : worker[r] \in {"none", "returned"} /\ ~helper[r]
  /\ phase' = "exited"
  /\ UNCHANGED <<main, worker, helper, cancelled, hook, inner, result, reply>>

-----------------------------------------------------------------------------
MainStep(r) ==
  \/ DispatchQuick(r)
  \/ DispatchCancel(r)
  \/ DispatchWork(r)
  \/ Resumes(r)
  \/ QuestionSent(r)

ThreadStep(r) ==
  \/ ThreadStarts(r)
  \/ ReadsFlag(r)
  \/ LoopCloses(r)
  \/ ThreadReturns(r)

Next ==
  \/ \E r \in Ids :
       \/ \E m \in Menu[r], t \in Ids \ {r} : Request(r, m, t)
       \/ MainStep(r) \/ ThreadStep(r) \/ WorkEnds(r) \/ Asks(r) \/ AnswerArrives(r)
       \/ Helps(r) \/ HelperEnds(r)
  \/ Eof
  \/ Exits

Spec == Init /\ [][Next]_vars

(***************************************************************************)
(* The loop runs what is due and threads go on.  Work comes to an end by   *)
(* itself (every call to Apple or a device has a timeout, it awaits only   *)
(* so many helper threads, and each of them ends), but jit only once it    *)
(* has been cancelled; the user need not answer, nor the client close the  *)
(* input.                                                                  *)
(***************************************************************************)
Fairness ==
  /\ \A r \in Ids :
       /\ WF_vars(MainStep(r))
       /\ WF_vars(ThreadStep(r))
       /\ SF_vars((method[r] = "jit" => inner[r]) /\ WorkEnds(r))
       /\ WF_vars(HelperEnds(r))
  /\ WF_vars(Exits)

FairSpec == Spec /\ Fairness
-----------------------------------------------------------------------------
(* Properties.                                                             *)

Active(r) == worker[r] \notin {"none", "returned"}

TypeOK ==
  /\ phase \in {"serving", "draining", "exited"}
  /\ ready \in Seq(Ids)
  /\ jobs \in [Ids -> 0..entered] /\ entered \in Nat
  /\ method \in [Ids -> AllMethods \cup {"none"}]
  /\ target \in [Ids -> Ids \cup {NoId}]
  /\ task \in [Ids -> {"none", "ready", "await", "done"}]
  /\ worker \in [Ids -> Pcs] /\ helper \in [Ids -> BOOLEAN]
  /\ second \in [Ids -> BOOLEAN] /\ cancelled \in [Ids -> BOOLEAN]
  /\ hook \in [Ids -> BOOLEAN] /\ inner \in [Ids -> BOOLEAN]
  /\ result \in [Ids -> Results]
  /\ reply \in [Ids -> Results \cup {"none"}]

\* A request that has been answered is over: its worker thread is through, and
\* unless the answer was "cancelled", so is every helper thread the work has
\* awaited.  (The main process lets a background refresh begin as soon as it
\* sees the answer.  After "cancelled" a helper may go on: nothing stops it.)
AnsweredIsOver ==
  phase = "serving" =>
    \A r \in Ids : reply[r] # "none" =>
      ~Active(r) /\ (helper[r] => reply[r] = "cancelled")

\* A cancellation is never lost between the main loop, which sets the flag
\* and then looks for the hook, and the worker, which sets the hook and then
\* looks for the flag: work under way knows of it.
CancelHeard ==
  \A r \in Ids : cancelled[r] /\ worker[r] = "working" /\ Isolated(r) => inner[r]

\* _jobs holds exactly the requests that have begun and are not answered, so a
\* cancel that comes late finds nobody and one in time finds its target.
JobsAreOpen == \A r \in Ids : InJobs(r) <=> task[r] = "await"

\* "Interface gone: cancel running work rather than orphaning it."
NoOrphans ==
  phase = "draining" =>
    \A r \in Ids : worker[r] \in {"queued", "hooked", "working"} /\ Isolated(r) => cancelled[r]

\* Every request is answered in the end, unless the input ends; only the work
\* that waits for the user or goes on until cancelled may take forever.
Answered ==
  \A r \in Ids : task[r] # "none" /\ method[r] \notin {"login", "jit"}
    ~> reply[r] # "none" \/ phase # "serving"

\* Cancelling ends even work that would go on forever, whenever it comes.
CancelEnds == \A r \in Ids : cancelled[r] /\ Isolated(r) ~> reply[r] # "none"

\* JIT that nobody has told to stop, because the cancellation of another job
\* raised (NoOrphans).
Orphaned == \E r \in Ids : method[r] = "jit" /\ Active(r) /\ ~cancelled[r]

\* "Closing stdin lets the server cleanly abort running work": the process
\* ends after the end of its input, unless an orphan is left.
ProcessEnds == phase = "draining" /\ ~Orphaned ~> phase = "exited"

\* The inductive invariant behind the theorems of ServerProofs: where a
\* dispatch task stands says where its worker and its answer may be ...
TaskFits ==
  \A r \in Ids :
    /\ task[r] = "none" => method[r] = "none"
    /\ task[r] \in {"none", "ready"} => worker[r] = "none"
    /\ phase = "serving" =>
         /\ task[r] # "await" => ~Active(r)
         /\ task[r] # "done" => reply[r] = "none"
    /\ method[r] = "cancel" => target[r] \in Ids
    /\ worker[r] \in {"posting", "asking"} => method[r] = "login"

\* ... a helper thread that has outlived its work was left by a cancelled one, ...
HelperFits ==
  \A r \in Ids : helper[r] =>
    /\ Isolated(r) /\ worker[r] \in {"working", "ended", "closed", "returned"}
    /\ worker[r] # "working" => result[r] = "cancelled"
    /\ phase = "serving" /\ reply[r] # "none" => reply[r] = "cancelled"

\* ... a running isolated worker has set its hook, and a cancellation always
\* comes from Job.cancel.
HookFits ==
  \A r \in Ids :
    /\ phase = "serving" /\ Isolated(r) /\ worker[r] \in {"hooked", "working"} => hook[r]
    /\ inner[r] => cancelled[r]
    /\ result[r] = "cancelled" => cancelled[r]

Inv == TypeOK /\ JobsAreOpen /\ TaskFits /\ HelperFits /\ HookFits /\ CancelHeard

Contract == INSTANCE RpcContract WITH
  st <- [r \in Ids |-> IF task[r] = "none" THEN "idle"
                       ELSE IF reply[r] = "none" THEN "open" ELSE reply[r]],
  wanted <- {r \in Ids : cancelled[r]},
  up <- phase = "serving"

\* The server keeps the contract its clients rely on.
KeepsContract == Contract!Spec
=============================================================================
