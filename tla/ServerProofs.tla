----------------------------- MODULE ServerProofs -----------------------------
(***************************************************************************)
(* Theorems about Server for any number of requests: the inductive         *)
(* invariant, no lost cancellation, no work behind an answered request,    *)
(* and that the server implements the contract of RpcContract.             *)
(***************************************************************************)
EXTENDS Server, SequenceTheorems, TLAPS

(***************************************************************************)
(* Type correctness, action by action.                                     *)
(***************************************************************************)

\* Striking a request out keeps the order numbers.
LEMMA UnregisteredType ==
  ASSUME TypeOK, NEW r \in Ids
  PROVE  Unregistered(r) \in [Ids -> 0..entered]
BY DEF Unregistered, TypeOK

\* What remains of the queue is a queue.
LEMMA StartsType ==
  ASSUME TypeOK, NEW r \in Ids, Starts(r)
  PROVE  ready' \in Seq(Ids)
BY HeadTailProperties DEF Starts, TypeOK

\* The steps of the main loop keep the types.
LEMMA MainStepType ==
  ASSUME TypeOK, NEW r \in Ids, MainStep(r)
  PROVE  TypeOK'
<1>1. CASE DispatchQuick(r)
  <2>1. ready' \in Seq(Ids)
    BY <1>1, StartsType DEF DispatchQuick
  <2> QED BY <1>1, <2>1 DEF DispatchQuick, Ends, Starts, TypeOK, book, Results
<1>2. CASE DispatchCancel(r)
  <2>1. ready' \in Seq(Ids)
    BY <1>2, StartsType DEF DispatchCancel
  <2> QED BY <1>2, <2>1 DEF DispatchCancel, Ends, Starts, TypeOK, book, Results
<1>3. CASE DispatchWork(r)
  <2>1. ready' \in Seq(Ids)
    BY <1>3, StartsType DEF DispatchWork
  <2>2. entered' \in Nat /\ jobs' \in [Ids -> 0..entered']
    BY <1>3 DEF DispatchWork, TypeOK
  <2> QED BY <1>3, <2>1, <2>2 DEF DispatchWork, Starts, TypeOK, Pcs
<1>4. CASE Resumes(r)
  <2>1. jobs' \in [Ids -> 0..entered']
    BY <1>4, UnregisteredType DEF Resumes, TypeOK
  <2>2. hook' \in [Ids -> BOOLEAN] /\ second' \in [Ids -> BOOLEAN]
    BY <1>4 DEF Resumes, TypeOK
  <2>3. worker' \in [Ids -> Pcs]
    BY <1>4 DEF Resumes, TypeOK, Pcs
  <2>4. /\ task' \in [Ids -> {"none", "ready", "await", "done"}]
        /\ reply' \in [Ids -> Results \cup {"none"}]
    <3>1. task' = task \/ task' = [task EXCEPT ![r] = "done"]
      BY <1>4 DEF Resumes, Ends
    <3>2. reply' = reply \/ reply' = [reply EXCEPT ![r] = result[r]]
      BY <1>4 DEF Resumes, Ends
    <3> QED BY <3>1, <3>2 DEF TypeOK
  <2> QED BY <1>4, <2>1, <2>2, <2>3, <2>4 DEF Resumes, TypeOK
<1>5. CASE QuestionSent(r)
  BY <1>5 DEF QuestionSent, Moves, main, book, TypeOK, Pcs
<1> QED BY <1>1, <1>2, <1>3, <1>4, <1>5 DEF MainStep

\* The steps of the threads keep the types.
LEMMA ThreadType ==
  ASSUME TypeOK, NEW r \in Ids,
         ThreadStep(r) \/ WorkEnds(r) \/ Asks(r) \/ AnswerArrives(r)
           \/ Helps(r) \/ HelperEnds(r)
  PROVE  TypeOK'
<1> USE DEF Moves, main, book, TypeOK, Pcs, Results
<1>1. CASE ThreadStarts(r)
  BY <1>1 DEF ThreadStarts
<1>2. CASE ReadsFlag(r)
  BY <1>2 DEF ReadsFlag
<1>3. CASE WorkEnds(r)
  BY <1>3 DEF WorkEnds, EndsWith
<1>4. CASE LoopCloses(r) \/ ThreadReturns(r) \/ Asks(r) \/ AnswerArrives(r)
  BY <1>4 DEF LoopCloses, ThreadReturns, Asks, AnswerArrives
<1>5. CASE Helps(r) \/ HelperEnds(r)
  BY <1>5 DEF Helps, HelperEnds
<1> QED BY <1>1, <1>2, <1>3, <1>4, <1>5 DEF ThreadStep

\* The end of the input keeps the types.
LEMMA EofType == TypeOK /\ Eof => TypeOK'
<1> SUFFICES ASSUME TypeOK, Eof PROVE TypeOK'
  OBVIOUS
<1>1. ready' \in Seq(Ids)
  BY DEF Eof
<1>2. entered' \in Nat /\ jobs' \in [Ids -> 0..entered']
  BY DEF Eof, TypeOK
<1>3. worker' \in [Ids -> Pcs]
  BY DEF Eof, TypeOK, Pcs
<1>4. reply' \in [Ids -> Results \cup {"none"}]
  BY DEF Eof, TypeOK, Results
<1>5. /\ cancelled' \in [Ids -> BOOLEAN]
      /\ hook' \in [Ids -> BOOLEAN]
  BY DEF Eof, TypeOK
<1>6. inner' \in [Ids -> BOOLEAN]
  BY DEF Eof, TypeOK, Reaches
<1>7. task' \in [Ids -> {"none", "ready", "await", "done"}]
  BY DEF Eof, TypeOK
<1> QED BY <1>1, <1>2, <1>3, <1>4, <1>5, <1>6, <1>7 DEF Eof, TypeOK

\* Every step keeps the types.
LEMMA NextType == TypeOK /\ [Next]_vars => TypeOK'
<1> SUFFICES ASSUME TypeOK, [Next]_vars PROVE TypeOK'
  OBVIOUS
<1>1. ASSUME NEW r \in Ids, NEW m \in Menu[r], NEW t \in Ids \ {r}, Request(r, m, t)
      PROVE  TypeOK'
  <2>1. m \in AllMethods
    BY ServerAssumption
  <2>2. ready' \in Seq(Ids)
    BY <1>1, AppendProperties DEF Request, TypeOK
  <2> QED BY <1>1, <2>1, <2>2 DEF Request, TypeOK, book
<1>2. ASSUME NEW r \in Ids, MainStep(r) PROVE TypeOK'
  BY <1>2, MainStepType
<1>3. ASSUME NEW r \in Ids,
             ThreadStep(r) \/ WorkEnds(r) \/ Asks(r) \/ AnswerArrives(r)
               \/ Helps(r) \/ HelperEnds(r)
      PROVE  TypeOK'
  BY <1>3, ThreadType
<1>4. CASE Eof
  BY <1>4, EofType
<1>5. CASE Exits
  BY <1>5 DEF Exits, main, book, TypeOK
<1>6. CASE UNCHANGED vars
  BY <1>6 DEF vars, TypeOK
<1> QED BY <1>1, <1>2, <1>3, <1>4, <1>5, <1>6 DEF Next

(***************************************************************************)
(* The inductive invariant.                                                *)
(***************************************************************************)

\* A request enters with nothing running for it.
LEMMA RequestFits ==
  ASSUME Inv, NEW r \in Ids, NEW m \in Menu[r], NEW t \in Ids \ {r}, Request(r, m, t)
  PROVE  JobsAreOpen' /\ TaskFits' /\ HelperFits' /\ HookFits' /\ CancelHeard'
<1> USE DEF Inv
<1>1. JobsAreOpen'
  BY DEF Request, JobsAreOpen, InJobs, book, TypeOK
<1>2. TaskFits'
  BY DEF Request, TaskFits, Active, TypeOK
<1>3. HookFits'
  BY DEF Request, HookFits, TaskFits, Isolated, TypeOK
<1>4. CancelHeard'
  BY DEF Request, CancelHeard, TaskFits, Isolated, TypeOK
<1>9. HelperFits'
  BY DEF Request, HelperFits, TaskFits, Active, Isolated, TypeOK
<1> QED BY <1>9, <1>1, <1>2, <1>3, <1>4

\* The main loop's steps keep the invariant.
LEMMA DispatchQuickFits ==
  ASSUME Inv, NEW r \in Ids, DispatchQuick(r)
  PROVE  JobsAreOpen' /\ TaskFits' /\ HelperFits' /\ HookFits' /\ CancelHeard'
<1> USE DEF Inv
<1>1. JobsAreOpen' /\ TaskFits'
  BY DEF DispatchQuick, Starts, Ends, JobsAreOpen, TaskFits, InJobs, Active, book, TypeOK
<1>2. HookFits' /\ CancelHeard'
  BY DEF DispatchQuick, Starts, Ends, HookFits, CancelHeard, Isolated
<1>9. HelperFits'
  BY DEF DispatchQuick, Starts, Ends, HelperFits, TaskFits, Active, Isolated, TypeOK
<1> QED BY <1>9, <1>1, <1>2

\* Work begins with a queued thread.
LEMMA DispatchWorkFits ==
  ASSUME Inv, NEW r \in Ids, DispatchWork(r)
  PROVE  JobsAreOpen' /\ TaskFits' /\ HelperFits' /\ HookFits' /\ CancelHeard'
<1> USE DEF Inv
<1>1. JobsAreOpen'
  BY DEF DispatchWork, Starts, JobsAreOpen, InJobs, TypeOK
<1>2. TaskFits'
  BY DEF DispatchWork, Starts, TaskFits, Active, TypeOK
<1>3. HookFits' /\ CancelHeard'
  BY DEF DispatchWork, Starts, HookFits, CancelHeard, Isolated, TypeOK
<1>9. HelperFits'
  BY DEF DispatchWork, Starts, HelperFits, TaskFits, Active, Isolated, TypeOK
<1> QED BY <1>9, <1>1, <1>2, <1>3

\* A cancellation reaches work that is under way, since its hook is set.
LEMMA DispatchCancelFits ==
  ASSUME Inv, NEW r \in Ids, DispatchCancel(r)
  PROVE  JobsAreOpen' /\ TaskFits' /\ HelperFits' /\ HookFits' /\ CancelHeard'
<1> USE DEF Inv
<1> DEFINE t == target[r]
<1>1. t \in Ids
  BY DEF DispatchCancel, TaskFits
<1>2. JobsAreOpen' /\ TaskFits'
  BY DEF DispatchCancel, Starts, Ends, JobsAreOpen, TaskFits, InJobs, Active, book, TypeOK
<1>3. HookFits'
  BY <1>1 DEF DispatchCancel, Starts, HookFits, Isolated, TypeOK
<1>4. CancelHeard'
  BY <1>1 DEF DispatchCancel, Starts, HookFits, CancelHeard, Reaches, Isolated, TypeOK
<1>9. HelperFits'
  BY DEF DispatchCancel, Starts, Ends, HelperFits, TaskFits, Active, Isolated, TypeOK
<1> QED BY <1>9, <1>2, <1>3, <1>4

\* The answer comes when the thread is through.
LEMMA ResumesFits ==
  ASSUME Inv, NEW r \in Ids, Resumes(r)
  PROVE  JobsAreOpen' /\ TaskFits' /\ HelperFits' /\ HookFits' /\ CancelHeard'
<1> USE DEF Inv
<1> DEFINE more == method[r] = "store.install" /\ ~second[r] /\ result[r] = "ok"
<1>0. HelperFits'
  BY DEF Resumes, Ends, HelperFits, TaskFits, Active, Isolated, TypeOK
<1>1. CASE more
  <2>1. JobsAreOpen'
    BY <1>1 DEF Resumes, JobsAreOpen, InJobs
  <2>2. TaskFits'
    BY <1>1 DEF Resumes, TaskFits, Active, TypeOK
  <2>3. HookFits' /\ CancelHeard'
    BY <1>1 DEF Resumes, HookFits, CancelHeard, Isolated, TypeOK
  <2> QED BY <1>0, <2>1, <2>2, <2>3
<1>2. CASE ~more
  <2>1. JobsAreOpen'
    <3>1. /\ task' = [task EXCEPT ![r] = "done"]
          /\ jobs' = [jobs EXCEPT ![r] = 0]
      BY <1>2 DEF Resumes, Ends, Unregistered
    <3>2. /\ task \in [Ids -> {"none", "ready", "await", "done"}]
          /\ jobs \in [Ids -> 0..entered]
      BY DEF TypeOK
    <3> QED BY <3>1, <3>2 DEF JobsAreOpen, InJobs
  <2>2. TaskFits'
    BY <1>2 DEF Resumes, Ends, TaskFits, Active, TypeOK
  <2>3. HookFits' /\ CancelHeard'
    BY <1>2 DEF Resumes, HookFits, CancelHeard, Isolated, TypeOK
  <2> QED BY <1>0, <2>1, <2>2, <2>3
<1> QED BY <1>1, <1>2

\* The worker reads the flag after it has set the hook.
LEMMA ThreadFits ==
  ASSUME Inv, NEW r \in Ids,
         \/ ThreadStep(r) \/ WorkEnds(r) \/ Asks(r) \/ AnswerArrives(r)
         \/ QuestionSent(r) \/ Helps(r) \/ HelperEnds(r)
  PROVE  JobsAreOpen' /\ TaskFits' /\ HelperFits' /\ HookFits' /\ CancelHeard'
<1> USE DEF Inv, Moves, main, book
<1>1. CASE ThreadStarts(r)
  <2>1. JobsAreOpen' /\ TaskFits'
    BY <1>1 DEF ThreadStarts, JobsAreOpen, InJobs, TaskFits, Active, TypeOK
  <2>2. HookFits' /\ CancelHeard'
    BY <1>1 DEF ThreadStarts, HookFits, CancelHeard, Isolated, TypeOK
  <2>3. HelperFits'
    BY <1>1 DEF ThreadStarts, HelperFits, TaskFits, Active, Isolated, TypeOK
  <2> QED BY <2>1, <2>2, <2>3
<1>2. CASE ReadsFlag(r)
  <2>1. JobsAreOpen' /\ TaskFits'
    BY <1>2 DEF ReadsFlag, JobsAreOpen, InJobs, TaskFits, Active, TypeOK
  <2>2. HookFits' /\ CancelHeard'
    BY <1>2 DEF ReadsFlag, HookFits, CancelHeard, Isolated, TypeOK
  <2>3. HelperFits'
    BY <1>2 DEF ReadsFlag, HelperFits, TaskFits, Active, Isolated, TypeOK
  <2> QED BY <2>1, <2>2, <2>3
<1>3. CASE WorkEnds(r)
  <2>1. JobsAreOpen' /\ TaskFits'
    BY <1>3 DEF WorkEnds, JobsAreOpen, InJobs, TaskFits, Active, TypeOK
  <2>2. HookFits' /\ CancelHeard'
    BY <1>3 DEF WorkEnds, EndsWith, HookFits, CancelHeard, Isolated, TypeOK
  <2>3. HelperFits'
    BY <1>3 DEF WorkEnds, EndsWith, HelperFits, TaskFits, Active, Isolated, TypeOK
  <2> QED BY <2>1, <2>2, <2>3
<1>4. CASE LoopCloses(r) \/ ThreadReturns(r)
  <2>1. JobsAreOpen' /\ TaskFits'
    BY <1>4 DEF LoopCloses, ThreadReturns, JobsAreOpen, InJobs, TaskFits, Active, TypeOK
  <2>2. HookFits' /\ CancelHeard'
    BY <1>4 DEF LoopCloses, ThreadReturns, HookFits, CancelHeard, Isolated, TypeOK
  <2>3. HelperFits'
    BY <1>4 DEF LoopCloses, ThreadReturns, HelperFits, TaskFits, Active, Isolated, TypeOK
  <2> QED BY <2>1, <2>2, <2>3
<1>5. CASE Asks(r) \/ QuestionSent(r) \/ AnswerArrives(r)
  <2>1. JobsAreOpen' /\ TaskFits'
    BY <1>5 DEF Asks, QuestionSent, AnswerArrives, JobsAreOpen, InJobs, TaskFits, Active,
                TypeOK
  <2>2. HookFits' /\ CancelHeard'
    BY <1>5 DEF Asks, QuestionSent, AnswerArrives, HookFits, CancelHeard, TaskFits,
                Isolated, TypeOK
  <2>3. HelperFits'
    BY <1>5 DEF Asks, QuestionSent, AnswerArrives, HelperFits, TaskFits, Active, Isolated, TypeOK
  <2> QED BY <2>1, <2>2, <2>3
<1>6. CASE Helps(r) \/ HelperEnds(r)
  <2>1. JobsAreOpen' /\ TaskFits' /\ HookFits' /\ CancelHeard'
    BY <1>6 DEF Helps, HelperEnds, JobsAreOpen, InJobs, TaskFits, HookFits, CancelHeard,
                Active, Isolated
  <2>2. HelperFits'
    <3>1. CASE Helps(r)
      <4>1. phase = "serving" => reply[r] = "none"
        BY <3>1 DEF Helps, TaskFits, Active
      <4>2. /\ Isolated(r) /\ worker[r] = "working"
            /\ helper' = [helper EXCEPT ![r] = TRUE]
            /\ UNCHANGED <<phase, method, second, worker, result, reply>>
        BY <3>1 DEF Helps
      <4> QED BY <4>1, <4>2 DEF HelperFits, Isolated, TypeOK
    <3>2. CASE HelperEnds(r)
      BY <3>2 DEF HelperEnds, HelperFits, Isolated, TypeOK
    <3> QED BY <1>6, <3>1, <3>2
  <2> QED BY <2>1, <2>2
<1> QED BY <1>1, <1>2, <1>3, <1>4, <1>5, <1>6 DEF ThreadStep

\* Whoever is told at the end of the input hears it, too.
LEMMA EofFits ==
  ASSUME Inv, Eof
  PROVE  JobsAreOpen' /\ TaskFits' /\ HelperFits' /\ HookFits' /\ CancelHeard'
<1> USE DEF Inv
<1>1. JobsAreOpen'
  BY DEF Eof, JobsAreOpen, InJobs
<1>2. TaskFits'
  BY DEF Eof, TaskFits, TypeOK
<1>3. HookFits'
  BY DEF Eof, HookFits, TypeOK
<1>4. CancelHeard'
  BY DEF Eof, CancelHeard, HookFits, Reaches, Isolated, TypeOK
<1>9. HelperFits'
  BY DEF Eof, HelperFits, TaskFits, Active, Isolated, TypeOK
<1> QED BY <1>9, <1>1, <1>2, <1>3, <1>4

\* Every step keeps the invariant.
LEMMA InvStep == Inv /\ [Next]_vars => Inv'
<1> SUFFICES ASSUME Inv, [Next]_vars PROVE Inv'
  OBVIOUS
<1>1. TypeOK'
  BY NextType DEF Inv
<1>2. JobsAreOpen' /\ TaskFits' /\ HelperFits' /\ HookFits' /\ CancelHeard'
  <2>1. CASE Exits
    BY <2>1 DEF Exits, main, book, Inv, JobsAreOpen, TaskFits, HelperFits, HookFits,
                CancelHeard, InJobs, Active, Isolated
  <2>2. CASE UNCHANGED vars
    BY <2>2 DEF vars, Inv, JobsAreOpen, TaskFits, HelperFits, HookFits, CancelHeard, InJobs,
                Active, Isolated
  <2> QED BY <2>1, <2>2, RequestFits, DispatchQuickFits, DispatchWorkFits,
             DispatchCancelFits, ResumesFits, ThreadFits, EofFits DEF Next, MainStep
<1> QED BY <1>1, <1>2 DEF Inv

\* The inductive invariant holds of every request, however many there are.
THEOREM Invariant == Spec => []Inv
<1>1. Init => Inv
  BY DEF Init, Inv, TypeOK, JobsAreOpen, InJobs, TaskFits, Active, HelperFits, HookFits,
         CancelHeard, Isolated, Pcs, Results, AllMethods
<1> QED BY <1>1, InvStep, PTL DEF Spec

\* A cancellation is never lost between main loop and worker thread
\* (Job.cancel against Job.isolated).
THEOREM CancellationsAreHeard == Spec => []CancelHeard
BY Invariant, PTL DEF Inv

\* A request that has been answered has no worker thread left, and a helper
\* thread only if the answer was "cancelled".
THEOREM AnswersComeLast == Spec => []AnsweredIsOver
<1>1. Inv => AnsweredIsOver
  BY DEF Inv, TaskFits, HelperFits, AnsweredIsOver
<1> QED BY <1>1, Invariant, PTL

(***************************************************************************)
(* The contract: what the client sees of a step of the server.             *)
(***************************************************************************)

\* A request becomes open.
LEMMA RequestCalls ==
  ASSUME Inv, NEW r \in Ids, NEW m \in Menu[r], NEW t \in Ids \ {r}, Request(r, m, t)
  PROVE  Contract!Call(r)
BY DEF Request, Contract!Call, Inv, TaskFits, TypeOK

\* A handler without an await answers.
LEMMA QuickAnswers ==
  ASSUME Inv, NEW r \in Ids, DispatchQuick(r)
  PROVE  \E answer \in Contract!Answers : Contract!Answer(r, answer)
<1>1. PICK answer \in {"ok", "error"} : Ends(r, answer)
  BY DEF DispatchQuick
<1>2. answer \in Contract!Answers
  BY DEF Contract!Answers
<1>3. Contract!Answer(r, answer)
  BY <1>1 DEF DispatchQuick, Starts, Ends, Contract!Answer, Inv, TaskFits, TypeOK
<1> QED BY <1>2, <1>3

\* A dispatch that begins to wait is invisible.
LEMMA WorkIsHidden ==
  ASSUME Inv, NEW r \in Ids, DispatchWork(r)
  PROVE  UNCHANGED Contract!contract
BY DEF DispatchWork, Starts, Contract!contract, Inv, TaskFits, TypeOK

\* "cancel" answers, and if its target is open, wants it gone.
LEMMA CancelCancels ==
  ASSUME Inv, NEW c \in Ids, DispatchCancel(c)
  PROVE  \/ Contract!Answer(c, "ok")
         \/ \E t \in Ids : Contract!Cancel(c, t)
<1>1. PICK t \in Ids : t = target[c]
  BY DEF DispatchCancel, Inv, TaskFits
<1>2. CASE InJobs(t)
  <2>1. task[t] = "await" /\ task[c] = "ready"
    BY <1>2 DEF Inv, JobsAreOpen, DispatchCancel, Starts
  <2>2. PICK answer \in {"ok", "error"} : Ends(c, answer)
    BY DEF DispatchCancel
  <2>3. phase = "serving" /\ phase' = phase
    BY DEF DispatchCancel, Starts
  <2>4. reply[t] = "none" /\ reply[c] = "none"
    BY <2>1, <2>3 DEF Inv, TaskFits
  <2>5. cancelled' = [cancelled EXCEPT ![t] = TRUE]
    BY <1>1, <1>2 DEF DispatchCancel
  <2>6. {r \in Ids : cancelled'[r]} = {r \in Ids : cancelled[r]} \cup {t}
    BY <2>5 DEF Inv, TypeOK
  <2>7. Contract!Cancel(c, t)
    BY <2>1, <2>2, <2>3, <2>4, <2>6 DEF Ends, Contract!Cancel, Inv, TypeOK
  <2> QED BY <2>7
<1>3. CASE ~InJobs(t)
  BY <1>1, <1>3 DEF DispatchCancel, Starts, Ends, Contract!Answer, Inv, TaskFits, TypeOK
<1> QED BY <1>2, <1>3

\* A finished worker's result is the answer; "cancelled" only if wanted.
LEMMA ResumeAnswers ==
  ASSUME Inv, NEW r \in Ids, Resumes(r)
  PROVE  \/ UNCHANGED Contract!contract
         \/ \E answer \in Contract!Answers : Contract!Answer(r, answer)
<1>1. CASE UNCHANGED <<jobs, task, reply>>
  BY <1>1 DEF Resumes, Contract!contract
<1>2. CASE Ends(r, result[r])
  <2>1. PICK answer \in Contract!Answers : answer = result[r]
    BY DEF Inv, TypeOK, Results, Contract!Answers
  <2>2. answer = "cancelled" => cancelled[r]
    BY <2>1 DEF Inv, HookFits
  <2>3. /\ phase = "serving" /\ phase' = phase /\ cancelled' = cancelled
        /\ task[r] = "await" /\ reply[r] = "none"
    BY DEF Resumes, Inv, TaskFits
  <2>4. answer # "none"
    BY DEF Contract!Answers
  <2>5. Contract!Answer(r, answer)
    BY <1>2, <2>1, <2>2, <2>3, <2>4 DEF Ends, Contract!Answer, Inv, TypeOK
  <2> QED BY <2>5
<1> QED BY <1>1, <1>2 DEF Resumes

\* What threads do is invisible.
LEMMA ThreadsAreHidden ==
  ASSUME NEW r \in Ids,
         \/ ThreadStep(r) \/ WorkEnds(r) \/ Asks(r) \/ AnswerArrives(r)
         \/ QuestionSent(r) \/ Helps(r) \/ HelperEnds(r)
  PROVE  UNCHANGED Contract!contract
BY DEF Helps, HelperEnds, ThreadStep, ThreadStarts, ReadsFlag, LoopCloses, ThreadReturns, WorkEnds, Asks,
       AnswerArrives, QuestionSent, Moves, main, Contract!contract

\* The end of the input closes the contract.
LEMMA EofCloses ==
  ASSUME Inv, Eof
  PROVE  Contract!Close
<1> DEFINE st == [r \in Ids |-> IF task[r] = "none" THEN "idle"
                                ELSE IF reply[r] = "none" THEN "open" ELSE reply[r]]
           dropped == {r \in Ids : st[r] = "open" /\ task[r] # "await"}
<1>1. dropped \in SUBSET {r \in Ids : st[r] = "open"}
  OBVIOUS
<1>2. st' = [r \in Ids |-> IF st[r] = "open" /\ r \notin dropped
                           THEN "cancelled" ELSE st[r]]
  <2>1. \A r \in Ids : task[r] # "done" => reply[r] = "none"
    BY DEF Eof, Inv, TaskFits
  <2>2. \A r \in Ids : /\ task[r] \in {"none", "ready", "await", "done"}
                       /\ reply[r] # "open"
    BY DEF Inv, TypeOK, Results
  <2>3. /\ reply' = [r \in Ids |-> IF task[r] = "await" THEN "cancelled" ELSE reply[r]]
        /\ task' = [r \in Ids |-> IF task[r] = "none" THEN "none" ELSE "done"]
    BY DEF Eof
  <2>4. \A r \in Ids : st'[r] = IF st[r] = "open" /\ r \notin dropped
                               THEN "cancelled" ELSE st[r]
    <3> SUFFICES ASSUME NEW r \in Ids
                 PROVE  st'[r] = IF st[r] = "open" /\ r \notin dropped
                                 THEN "cancelled" ELSE st[r]
      OBVIOUS
    <3>1. CASE task[r] = "done"
      BY <2>2, <2>3, <3>1
    <3>2. CASE task[r] # "done"
      BY <2>1, <2>2, <2>3, <3>2
    <3> QED BY <3>1, <3>2
  <2> QED BY <2>4
<1>3. {r \in Ids : cancelled'[r]} \in
        {w \in SUBSET Ids : {r \in Ids : cancelled[r]} \subseteq w}
  BY DEF Eof
<1> QED BY <1>1, <1>2, <1>3 DEF Eof, Contract!Close

\* The server implements the contract its clients rely on: requests answered
\* at most once, "cancelled" only for those somebody wanted gone, nothing
\* answered after the end of the input.
THEOREM ServerKeepsContract == Spec => KeepsContract
<1>1. Init => Contract!Init
  BY DEF Init, Contract!Init
<1>2. Inv /\ [Next]_vars => [Contract!Next]_(Contract!contract)
  <2> SUFFICES ASSUME Inv, [Next]_vars
               PROVE  Contract!Next \/ UNCHANGED Contract!contract
    OBVIOUS
  <2>1. ASSUME NEW r \in Ids, NEW m \in Menu[r], NEW t \in Ids \ {r}, Request(r, m, t)
        PROVE  Contract!Next
    BY <2>1, RequestCalls DEF Contract!Next
  <2>2. ASSUME NEW r \in Ids, MainStep(r)
        PROVE  Contract!Next \/ UNCHANGED Contract!contract
    <3>1. CASE DispatchQuick(r)
      BY <3>1, QuickAnswers DEF Contract!Next
    <3>2. CASE DispatchCancel(r)
      <4>1. "ok" \in Contract!Answers
        BY DEF Contract!Answers
      <4> QED BY <3>2, <4>1, CancelCancels DEF Contract!Next
    <3>3. CASE Resumes(r)
      BY <3>3, ResumeAnswers DEF Contract!Next
    <3> QED BY <2>2, <3>1, <3>2, <3>3, WorkIsHidden, ThreadsAreHidden DEF MainStep
  <2>3. ASSUME NEW r \in Ids,
               ThreadStep(r) \/ WorkEnds(r) \/ Asks(r) \/ AnswerArrives(r)
                 \/ Helps(r) \/ HelperEnds(r)
        PROVE  UNCHANGED Contract!contract
    BY <2>3, ThreadsAreHidden
  <2>4. CASE Eof
    BY <2>4, EofCloses DEF Contract!Next
  <2>5. CASE Exits
    BY <2>5 DEF Exits, main, Contract!contract
  <2>6. CASE UNCHANGED vars
    BY <2>6 DEF vars, Contract!contract
  <2> QED BY <2>1, <2>2, <2>3, <2>4, <2>5, <2>6 DEF Next
<1> QED BY <1>1, <1>2, Invariant, PTL DEF Spec, KeepsContract, Contract!Spec
=============================================================================
