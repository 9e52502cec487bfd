------------------------------ MODULE RunLoop -------------------------------
(***************************************************************************)
(* One run: the goroutines that drive it through engine.Run, the callers   *)
(* that steer or halt it, the run repository and the approval repository   *)
(* they share (internal/engine, internal/api, internal/store).             *)
(*                                                                         *)
(* engine.Run works on its own copy of the run and never reads the store   *)
(* again; what other goroutines see of it are its repository calls.  Each  *)
(* repository call (atomic under the store's lock, or one SQL statement    *)
(* or transaction) is one action, and so is each Praxis and Mnemos call    *)
(* with an effect; code between two such calls is local and belongs to the *)
(* action before or after it.  Runs share nothing but the repositories,    *)
(* which keep them apart by id, and Halt visits them one by one, so one    *)
(* run shows every interleaving a run can meet.                            *)
(*                                                                         *)
(* A repository call may be refused at any time, by a transient error of   *)
(* the SQL store or because its context has ended; a refused call changes  *)
(* nothing.  Of the events the engine publishes only the panic of a send   *)
(* to a subscriber that is leaving is kept (module EventBus has the rest). *)
(*                                                                         *)
(* Left out: audit records, logging, health marks and timestamps (none is  *)
(* read back by the loop); the contents of what layers return beyond what  *)
(* the loop branches on.                                                   *)
(***************************************************************************)
EXTENDS RunStatus, Integers, Sequences, FiniteSets

CONSTANTS
  Submitters,       \* the goroutine of the Submit call; none if the run was
                    \* saved and enqueued for workers
  Resumers,         \* slots for the goroutines Steer(approve) spawns
  Workers,          \* other hosts' goroutines that load the run and drive it
                    \* (internal/scheduler); none in cmd/olymp serve
  Steerers,         \* concurrent Steer and Halt callers
  Commands,         \* the commands they issue
  MaxIterations,    \* Goal.MaxIterations
  MaxActions,       \* most actions a decision has
  MaxDecisions,     \* bound: decisions made over the whole run
  Criteria,         \* kinds in Goal.Criteria
  ReadOnly, RequireApproval,  \* the IntentPolicy
  HasDeadline,      \* Goal.Deadline is set (it may pass at any time)
  GateEnabled,      \* Config.EnableApprovalGate
  CtxMayEnd,        \* a driver's context may be cancelled
  StoreNeedsCtx,    \* the store's calls fail under a cancelled context (SQL)
  StoreMayFail,     \* any call of the store may fail (a transient SQL error)
  PublishMayPanic,  \* a subscriber may leave while an event is sent to it
  ServeMayEnd,      \* the process of the API may end and be started again
  NoDecision

Drivers == Submitters \cup Resumers \cup Workers

Decision == [id: 1..MaxDecisions, actions: 0..MaxActions, gated: BOOLEAN]

ASSUME RunLoopAssumption ==
  /\ \A g, h \in Submitters : g = h
  /\ Submitters \cap (Resumers \cup Workers) = {}
  /\ Resumers \cap Workers = {}
  /\ Commands \subseteq {"pause", "cancel", "approve", "deny", "resume", "halt"}
  /\ MaxIterations \in Nat \ {0}
  /\ MaxActions \in Nat
  /\ MaxDecisions \in Nat
  /\ {ReadOnly, RequireApproval, HasDeadline, GateEnabled, CtxMayEnd, StoreNeedsCtx,
      StoreMayFail, PublishMayPanic, ServeMayEnd} \subseteq BOOLEAN
  /\ NoDecision \notin Decision

VARIABLES
  store,      \* the run as the repository has it
  approval,   \* the approval row of the run: its state and the decision it is for
  me,         \* per driver: where it is in engine.Run, and its local variables
  ctxDone,    \* drivers whose context has been cancelled
  storeUp,    \* whether the store answers a call made now
  steer,      \* per steerer: the command in progress, and whether the run awaited
              \* approval when it was read
  decided,    \* decisions made so far, the last one's id
  calls,      \* history: Praxis calls made, per decision and action
  answered,   \* history: calls Praxis answered with a terminal result
  learned,    \* history: results whose outcome reached Mnemos
  verdicts,   \* history: per decision, how its approval was resolved
  unsaved     \* history: decisions taken up again whose removal from the row
              \* was refused

history == <<calls, answered, learned, verdicts, unsaved>>
vars == <<store, approval, me, ctxDone, storeUp, steer, decided,
          calls, answered, learned, verdicts, unsaved>>

Iteration == 0..MaxIterations
Run == [status: Status, iteration: Iteration, pending: Decision \cup {NoDecision},
        completedAt: BOOLEAN, steps: SUBSET (Iteration \X LoopStage)]

Results == Seq({"succeeded", "failed"})
ActionIds == (1..MaxDecisions) \X (1..MaxActions)

\* Positions in engine.Run: before a transition, inside a stage, at a write.
Labels ==
  {"off", "load", "start", "top", "observe", "recall", "understand", "signals",
   "decide", "deliberate", "gate", "raise", "park", "unpark", "act", "execute", "acted",
   "skip", "skipped", "learn", "append", "learnt", "complete", "completed", "again", "fail", "failed"}

Driver == [pc: Labels, run: Run, decision: Decision \cup {NoDecision},
           results: Results, written: Nat, ok: BOOLEAN]

TypeOK ==
  /\ store \in Run
  /\ approval \in [state: {"none", "pending", "approve", "deny"}, id: 0..MaxDecisions]
  /\ me \in [Drivers -> Driver]
  /\ ctxDone \subseteq Drivers
  /\ steer \in [Steerers -> [pc: {"idle", "apply", "follow"},
                             cmd: Commands \cup {"none"}, waits: BOOLEAN]]
  /\ decided \in 0..MaxDecisions
  /\ calls \in [ActionIds -> 0..2]
  /\ answered \subseteq ActionIds
  /\ learned \subseteq ActionIds
  /\ verdicts \in [1..MaxDecisions -> SUBSET {"approve", "deny"}]
  /\ unsaved \subseteq 1..MaxDecisions
  /\ storeUp \in BOOLEAN

-----------------------------------------------------------------------------
NewRun == [status |-> "pending", iteration |-> 0, pending |-> NoDecision,
           completedAt |-> FALSE, steps |-> {}]

At(label, run) == [pc |-> label, run |-> run, decision |-> NoDecision,
                   results |-> <<>>, written |-> 0, ok |-> TRUE]
Off == At("off", NewRun)
Idle == [pc |-> "idle", cmd |-> "none", waits |-> FALSE]

\* The intent has been validated and the run saved.
Init ==
  /\ store = NewRun
  /\ approval = [state |-> "none", id |-> 0]
  /\ me = [g \in Drivers |-> IF g \in Submitters THEN At("start", NewRun) ELSE Off]
  /\ ctxDone = {}
  /\ storeUp = TRUE
  /\ steer = [s \in Steerers |-> Idle]
  /\ decided = 0
  /\ calls = [a \in ActionIds |-> 0]
  /\ answered = {}
  /\ learned = {}
  /\ verdicts = [d \in 1..MaxDecisions |-> {}]
  /\ unsaved = {}

\* Run.Validate, as far as a run the program builds can fail it.
Valid(run) == run.status \in Terminal => run.completedAt

\* Whether a call of g to the store succeeds now.
StoreOk(g) == storeUp /\ ~(StoreNeedsCtx /\ g \in ctxDone)

Goto(g, label) == me' = [me EXCEPT ![g].pc = label]
Return(g) == me' = [me EXCEPT ![g] = Off]

\* engine.transition: the local status, then Runs.UpdateStatus.
Transition(g, from, to, then) ==
  /\ me[g].pc = from
  /\ me' = [me EXCEPT ![g].run.status = to, ![g].pc = IF StoreOk(g) THEN then ELSE "fail"]
  /\ store' = IF StoreOk(g) THEN [store EXCEPT !.status = to] ELSE store
  /\ UNCHANGED <<approval, ctxDone, storeUp, steer, decided, history>>

\* Runs.Save overwrites the whole row with the driver's copy.
Save(g, run) == store' = IF StoreOk(g) /\ Valid(run) THEN run ELSE store

-----------------------------------------------------------------------------
\* The end of engine.stage: the provenance step is appended and the run saved.
\* An error of the layer or of the save leads to fail.  Only steps without an
\* error are kept here.
EndStage(g, from, stage, ok, then) ==
  LET run == IF ok THEN [me[g].run EXCEPT !.steps = @ \cup {<<me[g].run.iteration, stage>>}]
                   ELSE me[g].run
  IN /\ me[g].pc = from
     /\ me' = [me EXCEPT ![g].run = run, ![g].pc = IF ok /\ StoreOk(g) THEN then ELSE "fail"]
     /\ Save(g, run)
     /\ UNCHANGED <<approval, ctxDone, storeUp, steer, decided, history>>

\* Entry of engine.Run: Validate, then the intent type is looked up.
Start(g) ==
  /\ me[g].pc = "start"
  /\ \/ ~Valid(me[g].run) /\ Return(g)
     \/ Valid(me[g].run) /\ Goto(g, IF StoreOk(g) THEN "top" ELSE "fail")
  /\ UNCHANGED <<store, approval, ctxDone, storeUp, steer, decided, history>>

Parked(run) == run.status = "awaiting_approval" /\ run.pending # NoDecision

\* Head of the loop: the limits, then the resume path or the fresh one.
OverLimitNoMax(g) == g \in ctxDone                          \* mutant
OverLimit(g) ==
  g \in ctxDone \/ me[g].run.iteration >= MaxIterations

HeadReturns(g) ==                                          \* mutant
  /\ me[g].pc = "top" /\ (OverLimit(g) \/ HasDeadline)
  /\ Return(g)
  /\ UNCHANGED <<store, approval, ctxDone, storeUp, steer, decided, history>>
HeadFails(g) ==
  /\ me[g].pc = "top"
  /\ OverLimit(g) \/ HasDeadline
  /\ Goto(g, "fail")
  /\ UNCHANGED <<store, approval, ctxDone, storeUp, steer, decided, history>>

HeadFresh(g) ==
  /\ me[g].pc = "top"
  /\ ~OverLimit(g)
  /\ ~Parked(me[g].run)
  /\ Goto(g, "observe")
  /\ UNCHANGED <<store, approval, ctxDone, storeUp, steer, decided, history>>

\* approvalGranted asks only whether a pending row is on file.
HeadParked(g) ==
  /\ me[g].pc = "top"
  /\ ~OverLimit(g)
  /\ Parked(me[g].run)
  /\ \/ ~StoreOk(g) /\ Goto(g, "fail")
     \/ StoreOk(g) /\ approval.state = "pending" /\ Return(g)
     \/ /\ StoreOk(g)
        /\ approval.state # "pending"
        /\ me' = [me EXCEPT ![g].decision = me[g].run.pending,
                            ![g].run.pending = NoDecision, ![g].pc = "unpark"]
  /\ UNCHANGED <<store, approval, ctxDone, storeUp, steer, decided, history>>

UnparkKeepsPending(g) ==                                   \* mutant
  /\ me[g].pc = "unpark"
  /\ Goto(g, IF me[g].decision.actions > 0 /\ ~ReadOnly THEN "act" ELSE "skip")
  /\ UNCHANGED <<store, approval, ctxDone, storeUp, steer, decided, history>>
\* The decision is taken out of the row; an error of that Save is ignored.
Unpark(g) ==
  /\ me[g].pc = "unpark"
  /\ Save(g, me[g].run)
  /\ unsaved' = IF StoreOk(g) THEN unsaved ELSE unsaved \cup {me[g].decision.id}
  /\ Goto(g, IF me[g].decision.actions > 0 /\ ~ReadOnly THEN "act" ELSE "skip")
  /\ UNCHANGED <<approval, ctxDone, storeUp, steer, decided, calls, answered, learned, verdicts>>

Observe(g) == Transition(g, "observe", "observing", "recall")
Recall(g, ok) == EndStage(g, "recall", "observing", ok, "understand")
Understand(g) == Transition(g, "understand", "understanding", "signals")
Signals(g, ok) == EndStage(g, "signals", "understanding", ok, "decide")
Decide(g) == Transition(g, "decide", "deciding", "deliberate")

RequiresApproval(d) == d.gated \/ (RequireApproval /\ d.actions > 0)

Deliberate(g, ok, actions, gated) ==
  LET d == [id |-> decided + 1, actions |-> actions, gated |-> gated]
      run == IF ok THEN [me[g].run EXCEPT !.steps = @ \cup {<<me[g].run.iteration, "deciding">>}]
                   ELSE me[g].run
      then == IF RequiresApproval(d) THEN "gate"
              ELSE IF actions > 0 /\ ~ReadOnly THEN "act" ELSE "skip"
  IN /\ me[g].pc = "deliberate"
     /\ decided < MaxDecisions
     /\ decided' = decided + 1
     /\ me' = [me EXCEPT ![g].run = run, ![g].decision = d,
                         ![g].pc = IF ok /\ StoreOk(g) THEN then ELSE "fail"]
     /\ Save(g, run)
     /\ UNCHANGED <<approval, ctxDone, storeUp, steer, history>>

\* The gate: the status is published before the approval is raised, and the
\* approval is raised before the pending decision is saved.
GateOnDecisionOnly(g) ==                                   \* mutant
  Transition(g, "gate", "awaiting_approval",
             IF GateEnabled /\ me[g].decision.gated THEN "raise" ELSE "act")
Gate(g) ==
  Transition(g, "gate", "awaiting_approval",
             IF GateEnabled THEN "raise"
             ELSE IF me[g].decision.actions > 0 /\ ~ReadOnly THEN "act" ELSE "skip")

Raise(g) ==
  /\ me[g].pc = "raise"
  /\ approval' = IF StoreOk(g) THEN [state |-> "pending", id |-> me[g].decision.id] ELSE approval
  /\ me' = [me EXCEPT ![g].run.pending = me[g].decision, ![g].pc = "park"]
  /\ UNCHANGED <<store, ctxDone, storeUp, steer, decided, history>>

Park(g) ==
  /\ me[g].pc = "park"
  /\ Save(g, me[g].run)
  /\ Return(g)
  /\ UNCHANGED <<approval, ctxDone, storeUp, steer, decided, history>>

Act(g) == Transition(g, "act", "acting", "execute")

AllDonePastEnd(g, results) == Len(results) > me[g].decision.actions    \* mutant
AllDone(g, results) == Len(results) = me[g].decision.actions

\* One Praxis call.  Answers: succeeded, failed and retryable, failed for good
\* (ends the stage), or no answer (an error, which ends the stage).
Execute(g, answer) ==
  LET d == me[g].decision
      a == <<d.id, Len(me[g].results) + 1>>
      end == answer \in {"failed for good", "error"}
      results == IF end THEN me[g].results ELSE Append(me[g].results, answer)
  IN /\ me[g].pc = "execute"
     /\ calls' = [calls EXCEPT ![a] = IF @ < 2 THEN @ + 1 ELSE @]
     /\ answered' = IF answer = "error" THEN answered ELSE answered \cup {a}
     /\ me' = [me EXCEPT ![g].results = results, ![g].ok = ~end,
                         ![g].pc = IF end \/ AllDone(g, results) THEN "acted" ELSE @]
     /\ UNCHANGED <<store, approval, ctxDone, storeUp, steer, decided, learned, verdicts, unsaved>>

Acted(g) == EndStage(g, "acted", "acting", me[g].ok, "learn")

\* A read-only intent or a decision without actions: transition, step and
\* Save, with the Save's error ignored.
SkipToLearning(g) == Transition(g, "skip", "learning", "skipped")      \* mutant
SkipActing(g) == Transition(g, "skip", "acting", "skipped")
Skipped(g) ==
  LET run == [me[g].run EXCEPT !.steps = @ \cup {<<me[g].run.iteration, "acting">>}]
  IN /\ me[g].pc = "skipped"
     /\ me' = [me EXCEPT ![g].run = run, ![g].pc = "learn"]
     /\ Save(g, run)
     /\ UNCHANGED <<approval, ctxDone, storeUp, steer, decided, history>>

Learn(g) == Transition(g, "learn", "learning", "append")

\* One outcome.Writer.Write: the event reaches Mnemos, or the stage ends in error.
AppendUnchecked(g, ok) ==                                  \* mutant
  /\ me[g].pc = "append"
  /\ me[g].written < Len(me[g].results)
  /\ me' = [me EXCEPT ![g].written = @ + 1]
  /\ learned' = IF ok THEN learned \cup {<<me[g].decision.id, me[g].written + 1>>} ELSE learned
  /\ UNCHANGED <<store, approval, ctxDone, storeUp, steer, decided, calls, answered, verdicts, unsaved>>
AppendOutcome(g, ok) ==
  /\ me[g].pc = "append"
  /\ me[g].written < Len(me[g].results)
  /\ IF ok
     THEN /\ me' = [me EXCEPT ![g].written = @ + 1]
          /\ learned' = learned \cup {<<me[g].decision.id, me[g].written + 1>>}
     ELSE /\ me' = [me EXCEPT ![g].ok = FALSE, ![g].pc = "learnt"]
          /\ UNCHANGED learned
  /\ UNCHANGED <<store, approval, ctxDone, storeUp, steer, decided, calls, answered, verdicts, unsaved>>

Appended(g) ==
  /\ me[g].pc = "append"
  /\ me[g].written = Len(me[g].results)
  /\ Goto(g, "learnt")
  /\ UNCHANGED <<store, approval, ctxDone, storeUp, steer, decided, history>>

CriterionMet(kind, results) ==
  \/ kind = "action_succeeded" /\ \E i \in DOMAIN results : results[i] = "succeeded"
  \/ kind = "user_accepted"
Satisfied(results) == \A kind \in Criteria : CriterionMet(kind, results)

Learnt(g) ==
  EndStage(g, "learnt", "learning", me[g].ok,
           IF Satisfied(me[g].results) THEN "complete" ELSE "again")

Complete(g) == Transition(g, "complete", "completed", "completed")

Completed(g) ==
  /\ me[g].pc = "completed"
  /\ Save(g, [me[g].run EXCEPT !.status = "completed", !.completedAt = TRUE])
  /\ Return(g)
  /\ UNCHANGED <<approval, ctxDone, storeUp, steer, decided, history>>

\* The next iteration starts with fresh locals.
Again(g) ==
  LET run == [me[g].run EXCEPT !.iteration = @ + 1, !.status = "observing"]
  IN /\ me[g].pc = "again"
     /\ me' = [me EXCEPT ![g] = At(IF StoreOk(g) THEN "top" ELSE "fail", run)]
     /\ store' = IF StoreOk(g) THEN [store EXCEPT !.status = "observing"] ELSE store
     /\ UNCHANGED <<approval, ctxDone, storeUp, steer, decided, history>>

\* engine.fail: UpdateStatus, then Save, both with their errors ignored.
Fail(g) ==
  /\ me[g].pc = "fail"
  /\ me' = [me EXCEPT ![g].run.status = "failed", ![g].run.completedAt = TRUE,
                      ![g].pc = "failed"]
  /\ store' = IF StoreOk(g) THEN [store EXCEPT !.status = "failed"] ELSE store
  /\ UNCHANGED <<approval, ctxDone, storeUp, steer, decided, history>>

Failed(g) ==
  /\ me[g].pc = "failed"
  /\ Save(g, me[g].run)
  /\ Return(g)
  /\ UNCHANGED <<approval, ctxDone, storeUp, steer, decided, history>>

\* engine.Resume: the goroutine of an approval loads the run it was told of.
ResumeWithoutSteps(g) ==                                   \* mutant
  /\ me[g].pc = "load"
  /\ IF Parked(store)
     THEN me' = [me EXCEPT ![g] = At("start", [store EXCEPT !.steps = {}])]
     ELSE Return(g)
  /\ UNCHANGED <<store, approval, ctxDone, storeUp, steer, decided, history>>
Resume(g) ==
  /\ me[g].pc = "load"
  /\ IF StoreOk(g) /\ Parked(store)
     THEN me' = [me EXCEPT ![g] = At("start", store)]
     ELSE Return(g)
  /\ UNCHANGED <<store, approval, ctxDone, storeUp, steer, decided, history>>

\* worker.process: whatever state the run is in, it is loaded and run.
WorkerLoadsUnstepped(w) ==                                 \* mutant
  /\ me[w].pc = "off" /\ w \notin ctxDone
  /\ me' = [me EXCEPT ![w] = At("start", [store EXCEPT !.steps = {}])]
  /\ UNCHANGED <<store, approval, ctxDone, storeUp, steer, decided, history>>
WorkerStartsOver(w) ==                                     \* mutant
  /\ me[w].pc = "off" /\ w \notin ctxDone
  /\ me' = [me EXCEPT ![w] = At("start", NewRun)]
  /\ UNCHANGED <<store, approval, ctxDone, storeUp, steer, decided, history>>
WorkerLoad(w) ==
  /\ me[w].pc = "off"
  /\ w \notin ctxDone
  /\ storeUp
  /\ me' = [me EXCEPT ![w] = At("start", store)]
  /\ UNCHANGED <<store, approval, ctxDone, storeUp, steer, decided, history>>

\* The host of a worker dies, also by a panic in publish, which nothing
\* recovers there; another worker may load the run later.
Crash(w) ==
  /\ me[w].pc # "off"
  /\ Return(w)
  /\ UNCHANGED <<store, approval, ctxDone, storeUp, steer, decided, history>>

\* The process of the API ends and is started again on the same SQL store: it
\* is killed, or publish panics in a Resume goroutine, where nothing recovers
\* it.  Nobody takes up what its goroutines were doing.
ServeEnds ==
  /\ ServeMayEnd
  /\ me' = [g \in Drivers |-> IF g \in Workers THEN me[g] ELSE Off]
  /\ steer' = [s \in Steerers |-> Idle]
  /\ UNCHANGED <<store, approval, ctxDone, storeUp, decided, history>>

\* The driver has just published: api.Submit's "submitted", or the event of a
\* transition or of a stage that ended well.
Published(g) ==
  LET d == me[g] IN
  \/ d.pc \in {"start", "recall", "understand", "signals", "decide", "deliberate", "gate",
              "raise", "act", "skip", "skipped", "complete", "completed", "again"}
  \/ d.pc = "top" /\ d.run.iteration > 0
  \/ d.pc = "execute" /\ d.results = <<>>
  \/ d.pc = "learn" /\ d.results # <<>>
  \/ d.pc = "append" /\ d.written = 0

\* A subscriber left meanwhile and publish panics: the goroutine of a Submit
\* leaves engine.Run at once, without fail, and net/http recovers it.
PublishPanics(g) ==
  /\ PublishMayPanic
  /\ Published(g)
  /\ Return(g)
  /\ UNCHANGED <<store, approval, ctxDone, storeUp, steer, decided, history>>

\* The store stops answering, or answers again.
StoreTurns ==
  /\ StoreMayFail
  /\ storeUp' = ~storeUp
  /\ UNCHANGED <<store, approval, me, ctxDone, steer, decided, history>>

\* The client of a Submit disconnects, or the host of a worker shuts down;
\* a Resume goroutine runs under context.Background.
CtxEnds(g) ==
  /\ CtxMayEnd
  /\ g \notin Resumers
  /\ me[g].pc # "off"
  /\ ctxDone' = ctxDone \cup {g}
  /\ UNCHANGED <<store, approval, me, storeUp, steer, decided, history>>

Answers == {"succeeded", "failed", "failed for good", "error"}

Step(g) ==
  \/ Start(g) \/ HeadFails(g) \/ HeadFresh(g) \/ HeadParked(g) \/ Unpark(g)
  \/ Observe(g) \/ Understand(g) \/ Decide(g)
  \/ \E ok \in BOOLEAN : Recall(g, ok) \/ Signals(g, ok) \/ AppendOutcome(g, ok)
  \/ \E ok, gated \in BOOLEAN, n \in 0..MaxActions : Deliberate(g, ok, n, gated)
  \/ Gate(g) \/ Raise(g) \/ Park(g)
  \/ \E answer \in Answers : Execute(g, answer)
  \/ Act(g) \/ Acted(g) \/ SkipActing(g) \/ Skipped(g)
  \/ Learn(g) \/ Appended(g) \/ Learnt(g)
  \/ Complete(g) \/ Completed(g) \/ Again(g) \/ Fail(g) \/ Failed(g) \/ Resume(g)

-----------------------------------------------------------------------------
\* Steer reads the run first; a terminal run refuses the command.  Halt lists
\* the runs and leaves terminal and paused ones alone.  Of what was read only
\* approve keeps something: whether the run was awaiting approval.
Refuses(cmd, status) == status \in Terminal \/ (cmd = "halt" /\ status = "paused")

Issue(s, cmd) ==
  /\ steer[s].pc = "idle"
  /\ storeUp
  /\ ~Refuses(cmd, store.status)
  /\ steer' = [steer EXCEPT ![s] =
                 [pc |-> "apply", cmd |-> cmd,
                  waits |-> cmd = "approve" /\ store.status = "awaiting_approval"]]
  /\ UNCHANGED <<store, approval, me, ctxDone, storeUp, decided, history>>

Applying(s, cmd) == steer[s].pc = "apply" /\ steer[s].cmd = cmd
ThenFollow(s) == steer' = [steer EXCEPT ![s].pc = "follow"]
ThenIdle(s) == steer' = [steer EXCEPT ![s] = Idle]

\* Runs.UpdateStatus by a steerer: status only, whatever the run is doing now.
\* If it is refused, Steer returns the error or ignores it.
WriteStatus(status) ==
  /\ store' = IF storeUp THEN [store EXCEPT !.status = status] ELSE store
  /\ UNCHANGED <<approval, me, ctxDone, storeUp, decided, history>>

Pause(s) == Applying(s, "pause") /\ WriteStatus("paused") /\ ThenIdle(s)
Cancel(s) == Applying(s, "cancel") /\ WriteStatus("cancelled") /\ ThenIdle(s)
ResumePaused(s) == Applying(s, "resume") /\ WriteStatus("observing") /\ ThenIdle(s)

\* Approvals.Resolve: there must be a pending row; exactly one caller gets it.
ResolveAgain(verdict) ==                                   \* mutant
  /\ approval.state \in {"pending", verdict}
  /\ approval' = [approval EXCEPT !.state = verdict]
  /\ verdicts' = [verdicts EXCEPT ![approval.id] = @ \cup {verdict}]
ResolveDenyLeavesRow(verdict) ==                           \* mutant
  /\ approval.state = "pending"
  /\ approval' = [approval EXCEPT !.state = IF verdict = "deny" THEN @ ELSE verdict]
  /\ verdicts' = [verdicts EXCEPT ![approval.id] = @ \cup {verdict}]
Resolvable == storeUp /\ approval.state = "pending"
Resolve(verdict) ==
  /\ Resolvable
  /\ approval' = [approval EXCEPT !.state = verdict]
  /\ verdicts' = [verdicts EXCEPT ![approval.id] = @ \cup {verdict}]

\* Steer(approve): resolve, then spawn Resume if the run was awaiting approval
\* when it was read (bound: a free slot of Resumers).
Approve(s) ==
  /\ Applying(s, "approve")
  /\ Resolve("approve")
  /\ IF steer[s].waits
     THEN \E g \in Resumers : me[g].pc = "off" /\ me' = [me EXCEPT ![g] = At("load", NewRun)]
     ELSE UNCHANGED me
  /\ ThenIdle(s)
  /\ UNCHANGED <<store, ctxDone, storeUp, decided, calls, answered, learned, unsaved>>

\* Resolve answers NotFound, or fails: Steer returns the error.
ApproveRefused(s) ==
  /\ Applying(s, "approve")
  /\ ~Resolvable
  /\ ThenIdle(s)
  /\ UNCHANGED <<store, approval, me, ctxDone, storeUp, decided, history>>

\* Deny what is pending, if anything is (the error is ignored).
DenyPending ==
  /\ \/ Resolve("deny")
     \/ ~Resolvable /\ UNCHANGED <<approval, verdicts>>
  /\ UNCHANGED <<store, me, ctxDone, storeUp, decided, calls, answered, learned, unsaved>>

\* Steer(deny) resolves first and cancels second.
Deny(s) == Applying(s, "deny") /\ DenyPending /\ ThenFollow(s)
DenyCancels(s) ==
  /\ steer[s].pc = "follow" /\ steer[s].cmd = "deny"
  /\ WriteStatus("cancelled")
  /\ ThenIdle(s)

\* Halt pauses first and denies second, and skips a run it cannot pause.
Halt(s) ==
  /\ Applying(s, "halt")
  /\ WriteStatus("paused")
  /\ IF storeUp THEN ThenFollow(s) ELSE ThenIdle(s)
HaltDenies(s) ==
  /\ steer[s].pc = "follow" /\ steer[s].cmd = "halt"
  /\ DenyPending
  /\ ThenIdle(s)

SteerStep(s) ==
  \/ Pause(s) \/ Cancel(s) \/ ResumePaused(s) \/ Approve(s) \/ ApproveRefused(s)
  \/ Deny(s) \/ DenyCancels(s) \/ Halt(s) \/ HaltDenies(s)

Next ==
  \/ \E g \in Drivers : Step(g) \/ CtxEnds(g)
  \/ \E w \in Workers : WorkerLoad(w) \/ Crash(w)
  \/ \E g \in Submitters : PublishPanics(g)
  \/ ServeEnds \/ StoreTurns
  \/ \E s \in Steerers : SteerStep(s) \/ \E cmd \in Commands : Issue(s, cmd)

Spec == Init /\ [][Next]_vars

\* Goroutines that can run do run, and layer calls return (their clients have
\* timeouts).  Nobody is obliged to steer, nor a worker to load.
FairSpec ==
  /\ Spec
  /\ \A g \in Drivers : WF_vars(Step(g))
  /\ \A s \in Steerers : WF_vars(SteerStep(s))

-----------------------------------------------------------------------------
Driving(g) == me[g].pc \notin {"off", "load"}

\* "The engine is single-threaded per Run": at any time at most one goroutine
\* is inside engine.Run for it, although each approval spawns one.
SingleDriver == \A g, h \in Drivers : Driving(g) /\ Driving(h) => g = h

\* With the gate on, Praxis is called for a decision that requires approval
\* only after that very decision was approved.
Called(d) == \E i \in 1..MaxActions : calls[<<d, i>>] > 0
OnlyApprovedExecutes ==
  \A g \in Drivers :
    me[g].pc = "execute" /\ RequiresApproval(me[g].decision)
      => "approve" \in verdicts[me[g].decision.id]

\* A denied decision is never executed.
DeniedNeverExecutes ==
  \A d \in 1..MaxDecisions : "deny" \in verdicts[d] => ~Called(d)

\* No action of a decision is sent to Praxis twice.
ExecutedOnce == \A a \in ActionIds : calls[a] <= 1

\* ... and with workers that load the run again it happens only to a decision
\* that was taken up although the Save that takes it out of the row failed.
RepeatNeedsLostSave == \A a \in ActionIds : calls[a] > 1 => a[1] \in unsaved

\* A run stored as completed with its completion time has gone through all
\* five stages in every iteration, across suspensions at the gate.
LoopIntegrity ==
  store.status = "completed" /\ store.completedAt =>
    \A i \in 0..store.iteration, stage \in LoopStage : <<i, stage>> \in store.steps

\* ... and every result Praxis returned for it has reached Mnemos.
CompletedHasLearned == store.status = "completed" => answered \subseteq learned

\* Outcome closure in general: when nobody drives the run any more and it has
\* ended, every result is in Mnemos.
OutcomeClosure ==
  store.status \in Terminal /\ (\A g \in Drivers : me[g].pc = "off") => answered \subseteq learned

\* The stored iteration never goes back, and no provenance step is lost.
ProgressKept ==
  [][store'.iteration >= store.iteration /\ store.steps \subseteq store'.steps]_vars

\* A run shown in one of the loop's stages is really being driven.
InFlightIsDriven ==
  store.status \in LoopStage => \E g \in Drivers : Driving(g)

\* Who strands a run in a step: the process ends, publish panics, or a driver
\* leaves while the store refuses its last writes.  And the resume command
\* writes observing over a run that nobody drives.
Strands ==
  \/ ServeEnds
  \/ \E g \in Submitters : PublishPanics(g)
  \/ \E g \in Drivers : Driving(g) /\ ~Driving(g)' /\ ~StoreOk(g)
  \/ \E s \in Steerers : ResumePaused(s)

\* Nothing else leaves a run shown in a stage of the loop without a driver.
StrandedOnlyByExit == [][InFlightIsDriven /\ ~InFlightIsDriven' => Strands]_vars

\* completed, failed and cancelled are final.
TerminalIsFinal == [][store.status \in Terminal => store'.status = store.status]_vars

\* The stored status only moves along the table of run_fsm.go.
FSM == INSTANCE RunFSM WITH status <- store.status
FollowsFSM == FSM!Spec

\* Every goroutine that enters engine.Run leaves it.
DriversReturn == \A g \in Drivers : me[g].pc # "off" ~> me[g].pc = "off"

\* An approval that was accepted takes the run out of awaiting_approval.
ApprovedResumes ==
  approval.state = "approve" /\ store.status = "awaiting_approval"
    ~> store.status # "awaiting_approval"
=============================================================================
