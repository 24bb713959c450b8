------------------------------ MODULE Debugger -------------------------------
(***************************************************************************)
(* Releasing memory to an app for JIT (modstaller/device/jit.py, gdb.py,   *)
(* jit_host.js; server.py, jit).                                           *)
(*                                                                         *)
(* The app is started suspended, the debugger attaches, and from then on   *)
(* the app's breakpoints are requests: the script prepares a region by     *)
(* writing to each of its pages through the debugger and tells the app     *)
(* where it is.  The debugger on the device executes commands in order and *)
(* answers each; an answer may come after the host has stopped waiting     *)
(* (it is then taken for the next one), and the connection may break.      *)
(***************************************************************************)
EXTENDS Progress, Sequences

CONSTANTS
  Pages,           \* pages of the region an app asks for: 1 .. Pages
  MaxBreakpoints,  \* MAX_BREAKPOINTS
  LateAnswers      \* bound: answers that come after the host gave up waiting

ASSUME DebuggerAssumption ==
  Pages \in Nat \ {0} /\ MaxBreakpoints \in Nat /\ LateAnswers \in Nat

VARIABLES
  app,      \* the app on the device, and the pages it may execute
  wire,     \* answers on their way to the host
  broken,   \* the connection is gone
  host,     \* the conversation: enable_jit, main of jit_host.js
  late,     \* answers that came late
  misled    \* history: the app was told of a region it may not execute

debuggerVars == <<app, wire, broken, host, late, misled>>

\* What an app stops for; such an answer is a stop reply, the others are OK,
\* a byte of memory, an instruction, an address, an error, the app's exit.
Stops == {"prepare", "allocate", "detach", "script", "probe", "unknown", "signal", "launch"}
Answers == Stops \cup {"OK", "byte", "brk", "other", "address", "E", "exit"}
HostPcs == {"new", "launched", "noack", "attach", "resume", "await", "inspect", "signal", "step",
            "handle", "read", "write", "tell", "finally", "over"}

DebuggerTypeOK ==
  /\ app \in [st : {"none", "suspended", "stopped", "running", "free", "dead"},
              why : Stops, exec : SUBSET (1 .. Pages)]
  /\ wire \in Seq(Answers)
  /\ broken \in BOOLEAN /\ misled \in BOOLEAN
  /\ host \in [pc : HostPcs, why : Stops, stops : 0 .. MaxBreakpoints, page : 1 .. Pages,
               ok : BOOLEAN, txm : BOOLEAN, detached : BOOLEAN]
  /\ late \in 0 .. LateAnswers

DebuggerInit ==
  /\ app = [st |-> "none", why |-> "launch", exec |-> {}]
  /\ wire = << >> /\ broken = FALSE /\ late = 0 /\ misled = FALSE
  /\ host \in [pc : {"new"}, why : {"launch"}, stops : {0}, page : {1}, ok : {TRUE},
               txm : BOOLEAN, detached : {FALSE}]

Goto(p) == [host EXCEPT !.pc = p]

-----------------------------------------------------------------------------
(* GdbClient                                                               *)

\* The answer to a command the debugger executes only while the app is
\* stopped.
Stopped(answer) == IF app.st = "stopped" THEN answer ELSE "E"

\* send, _read_packet: the command is executed and answered; the host takes
\* the oldest answer there is, or "" when it has waited long enough or the
\* connection is gone.
Exchange(answer) ==
  LET all == IF broken THEN wire ELSE Append(wire, answer) IN
  (IF all # << >> THEN {[reply |-> Head(all), wire |-> Tail(all), late |-> late]}
   ELSE {[reply |-> "", wire |-> << >>, late |-> late]})
    \cup (IF ~broken /\ late < LateAnswers THEN {[reply |-> "", wire |-> all, late |-> late + 1]} ELSE {})

\* The host goes on with the reply.
Continues(x, h) == wire' = x.wire /\ late' = x.late /\ host' = h

\* sendall on a broken connection may raise, which ends the conversation.
SendRaises ==
  /\ broken
  /\ host.pc \notin {"new", "launched", "await", "finally", "over"}
  /\ host' = Goto("finally")
  /\ UNCHANGED <<app, wire, broken, late, misled>>

\* The job is cancelled: a command the script waits for is abandoned and the
\* script told to stop.
Cancelled ==
  /\ host.pc \notin {"new", "launched", "finally", "over"}
  /\ host' = Goto("finally")
  /\ UNCHANGED <<app, wire, broken, late, misled>>

\* ScriptHost.run: the script has returned - with a reason that is noted - or
\* a failure is raised again.
ScriptOver == Goto("finally")

-----------------------------------------------------------------------------
(* enable_jit                                                              *)

\* _launch_and_attach: the app is started suspended, in place of one that
\* runs; the image or the start may fail.
Launch ==
  /\ host.pc = "new"
  /\ \/ app' = [app EXCEPT !.st = "suspended"] /\ host' = Goto("launched")
     \/ UNCHANGED app /\ host' = Goto("over")
  /\ UNCHANGED <<wire, broken, late, misled>>

\* ... then the connection to its debugger is opened, which may fail and
\* leaves the app as it is.
Connect ==
  /\ host.pc = "launched"
  /\ host' \in {Goto("noack"), Goto("over")}
  /\ UNCHANGED <<app, wire, broken, late, misled>>

\* start_no_ack_mode
StartNoAckMode ==
  /\ host.pc = "noack"
  /\ \E x \in Exchange("OK") : Continues(x, Goto("attach"))
  /\ UNCHANGED <<app, broken, misled>>

\* attach: anything but a stop ends it; without TXM attaching is enough and
\* the debugger leaves again.
Attach ==
  /\ host.pc = "attach"
  /\ app' = IF broken THEN app ELSE [app EXCEPT !.st = "stopped"]
  /\ \E x \in Exchange("launch") :
       Continues(x, IF x.reply \in Stops /\ host.txm THEN Goto("resume") ELSE Goto("finally"))
  /\ UNCHANGED <<broken, misled>>

-----------------------------------------------------------------------------
(* main of jit_host.js                                                     *)

\* MUTANT: only breakpoints count, not every stop.
CountedBreakpoints(h) == IF h.why \in {"signal", "unknown"} THEN h.stops ELSE h.stops + 1

\* One more round of the loop.
Counted(h) == h.stops + 1

\* The head of the loop: the limit, then "c".
Resume ==
  /\ host.pc = "resume"
  /\ IF host.stops >= MaxBreakpoints
     THEN host' = ScriptOver /\ UNCHANGED app
     ELSE /\ host' = [Goto("await") EXCEPT !.stops = Counted(host)]
          /\ app' = IF app.st = "stopped" /\ ~broken THEN [app EXCEPT !.st = "running"] ELSE app
  /\ UNCHANGED <<wire, broken, late, misled>>

\* What the app stopped for, as the answer says; without thread and pc the
\* loop goes on.
AwaitStop ==
  /\ host.pc = "await"
  /\ \/ /\ wire # << >>
        /\ wire' = Tail(wire)
        /\ host' = CASE Head(wire) \in Stops -> [Goto("inspect") EXCEPT !.why = Head(wire)]
                     [] Head(wire) = "exit" -> ScriptOver
                     [] OTHER -> Goto("resume")
     \/ /\ wire = << >>          \* WAIT_FOR_APP is over, or the connection
        /\ host' = ScriptOver /\ UNCHANGED wire
  /\ UNCHANGED <<app, broken, late, misled>>

\* The instruction at pc decides between a breakpoint and a signal, which is
\* passed on (its answer is the next stop).
Inspect ==
  /\ host.pc = "inspect"
  /\ \E x \in Exchange(Stopped(IF app.why = "signal" THEN "other" ELSE "brk")) :
       Continues(x, IF x.reply = "brk" THEN Goto("step") ELSE Goto("signal"))
  /\ UNCHANGED <<app, broken, misled>>

\* vCont;S: counted as the next round by the loop.
PassSignalOn ==
  /\ host.pc = "signal"
  /\ app' = IF app.st = "stopped" /\ ~broken THEN [app EXCEPT !.st = "running"] ELSE app
  /\ host' = IF host.stops >= MaxBreakpoints THEN ScriptOver
             ELSE [Goto("await") EXCEPT !.stops = Counted(host)]
  /\ UNCHANGED <<wire, broken, late, misled>>

\* The step over the breakpoint; unknown ones are skipped before.
StepOver ==
  /\ host.pc = "step"
  /\ IF host.why = "unknown"
     THEN host' = Goto("resume") /\ UNCHANGED <<wire, late>>
     ELSE \E x \in Exchange(Stopped("OK")) : Continues(x, Goto("handle"))
  /\ UNCHANGED <<app, broken, misled>>

\* JIT26Detach, _send: sent, noted as done, no answer awaited.
Detach ==
  /\ host.pc = "handle" /\ host.why = "detach"
  /\ host' = [ScriptOver EXCEPT !.detached = TRUE]
  /\ app' = IF app.st = "stopped" /\ ~broken THEN [app EXCEPT !.st = "free"] ELSE app
  /\ UNCHANGED <<wire, broken, late, misled>>

\* JIT26PrepareRegion: where the app leaves the choice the debugger allocates
\* (_M), or cannot and the app is told nothing.
PrepareRegion ==
  /\ host.pc = "handle" /\ host.why \in {"prepare", "allocate"}
  /\ LET begin == [Goto("read") EXCEPT !.page = 1, !.ok = TRUE] IN
     IF host.why = "prepare" THEN host' = begin /\ UNCHANGED <<wire, late>>
     ELSE \E answer \in {"address", "E"} : \E x \in Exchange(Stopped(answer)) :
            Continues(x, IF x.reply \in {"", "E"} THEN Goto("resume") ELSE begin)
  /\ UNCHANGED <<app, broken, misled>>

\* JIT26NewBreakpoints, JIT26HandleBrk0x69: the app's script is read, or the
\* marker written, whatever is answered.
Serve ==
  /\ host.pc = "handle" /\ host.why \in {"script", "probe", "signal", "launch"}
  /\ \E x \in Exchange(Stopped("OK")) : Continues(x, Goto("resume"))
  /\ UNCHANGED <<app, broken, misled>>

\* A region or a script of no length, a command nobody knows.
NothingAsked ==
  /\ host.pc = "handle" /\ host.why \in {"allocate", "script"}
  /\ host' = Goto("resume")
  /\ UNCHANGED <<app, wire, broken, late, misled>>

\* touch_pages: the next page, and after the last one the check of the batch.
Batch(ok, then) ==
  IF host.page < Pages THEN [host EXCEPT !.page = @ + 1, !.ok = ok]
  ELSE [(IF ok THEN Goto(then) ELSE ScriptOver) EXCEPT !.page = 1, !.ok = TRUE]

\* touch_pages, first pass: one byte of each page; two characters count as
\* one.
ReadPage ==
  /\ host.pc = "read"
  /\ \E answer \in {"byte", "E"} : \E x \in Exchange(Stopped(answer)) :
       Continues(x, Batch(host.ok /\ x.reply \in {"byte", "OK"}, "write"))
  /\ UNCHANGED <<app, broken, misled>>

\* MUTANT: the answers of the second pass are not looked at.
AcceptedUnseen(r) == TRUE

\* touch_pages: an answer to a write that is not an error.
Accepted(r) == r # "E"

\* touch_pages, second pass: the same byte written back; the device may
\* refuse.
WritePage ==
  /\ host.pc = "write"
  /\ \E answer \in {"OK", "E"} :
       /\ \E x \in Exchange(Stopped(answer)) : Continues(x, Batch(host.ok /\ Accepted(x.reply), "tell"))
       /\ app' = IF Stopped(answer) = "OK" /\ ~broken
                 THEN [app EXCEPT !.exec = @ \cup {host.page}] ELSE app
  /\ UNCHANGED <<broken, misled>>

\* setRegister(0, address): the app takes the region for its own.
TellApp ==
  /\ host.pc = "tell"
  /\ \E x \in Exchange(Stopped("OK")) : Continues(x, Goto("resume"))
  /\ misled' = (misled \/ (app.st = "stopped" /\ ~broken /\ app.exec # 1 .. Pages))
  /\ UNCHANGED <<app, broken>>

\* enable_jit, finally: detach unless that has been done, and close.
Finally ==
  /\ host.pc = "finally"
  /\ host' = Goto("over")
  /\ app' = IF ~host.detached /\ app.st = "stopped" /\ ~broken THEN [app EXCEPT !.st = "free"] ELSE app
  /\ wire' = << >>
  /\ UNCHANGED <<broken, late, misled>>

-----------------------------------------------------------------------------

\* The app asks for something else, crashes or quits.
AppStops ==
  /\ app.st = "running" /\ host.pc # "over"
  /\ \/ \E why \in Stops \ {"launch"} :
          /\ app' = [st |-> "stopped", why |-> why, exec |-> {}]
          /\ wire' = IF broken THEN wire ELSE Append(wire, why)
     \/ app' = [app EXCEPT !.st = "dead"] /\ wire' = IF broken THEN wire ELSE Append(wire, "exit")
  /\ UNCHANGED <<broken, host, late, misled>>

Breaks ==
  /\ ~broken /\ host.pc \notin {"new", "launched", "over"}
  /\ broken' = TRUE
  /\ UNCHANGED <<app, wire, host, late, misled>>

HostStep ==
  \/ Launch \/ Connect \/ StartNoAckMode \/ Attach \/ Resume \/ AwaitStop \/ Inspect
  \/ PassSignalOn \/ StepOver \/ Detach \/ PrepareRegion \/ Serve \/ NothingAsked \/ ReadPage \/ WritePage
  \/ TellApp \/ Finally \/ SendRaises

DebuggerNext == HostStep \/ Cancelled \/ AppStops \/ Breaks

DebuggerSpec == DebuggerInit /\ [][DebuggerNext]_debuggerVars

\* Every await of the host has a time limit.
DebuggerFairness == WF_debuggerVars(HostStep)

-----------------------------------------------------------------------------

\* The app is told of a region only when every page of it has been released:
\* a refused write, a refused read, a half-read batch must not get that far.
\* Stated for answers that come in time: a late one shifts those behind it.
TellsTruth == late = 0 => ~misled

\* What the conversation has before it: parts, stops of the app that still
\* count, phases of one, pages of the region.
PartsLeft(pc) ==
  CASE pc = "new" -> 6 [] pc = "launched" -> 5 [] pc = "noack" -> 4 [] pc = "attach" -> 3
    [] pc = "finally" -> 1 [] pc = "over" -> 0 [] OTHER -> 2
StopLeft(pc) ==
  CASE pc = "await" -> 7 [] pc = "inspect" -> 6 [] pc \in {"signal", "step"} -> 5 [] pc = "handle" -> 4
    [] pc = "read" -> 3 [] pc = "write" -> 2 [] pc = "tell" -> 1 [] OTHER -> 0
JitLeft(h) == <<PartsLeft(h.pc), MaxBreakpoints - h.stops, StopLeft(h.pc), Pages - h.page>>

\* The conversation does not go in circles: however the app stops, asks or
\* answers, every step of the host uses up a page, a phase, one of the stops
\* that count or a part of the conversation.
JitGetsOn == [][host' = host \/ Nearer(JitLeft(host'), JitLeft(host))]_debuggerVars

\* The conversation ends: through the limit when an app stops for ever, and
\* when it is silent, exits, or the connection breaks.
JitEnds == host.pc # "new" ~> host.pc = "over"
=============================================================================
