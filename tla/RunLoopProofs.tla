--------------------------- MODULE RunLoopProofs ----------------------------
(***************************************************************************)
(* Theorems about RunLoop for every set of goroutines, steerers, commands  *)
(* and every bound: its types, and what holds of the goroutines at every   *)
(* place of the loop; then what a status promises to who reads it in the   *)
(* store.  completed: every result Praxis returned is in Mnemos, and every *)
(* stage is recorded.  A stage of the loop: some goroutine is in the loop, *)
(* or has left it in one of the ways that Strands names.  RunLoop          *)
(* implements RunFSM.  And a driver's copy of the run is never behind its  *)
(* row, as long as one goroutine at a time drives it.                      *)
(***************************************************************************)
EXTENDS RunLoop, TLAPS

(***************************************************************************)
(* Types                                                                   *)
(***************************************************************************)
\* Positions between the head of the loop and its end, in an iteration that
\* has no pending decision left to take up.
Fresh ==
  {"observe", "recall", "understand", "signals", "decide", "deliberate", "gate", "raise",
   "act", "execute", "acted", "skip", "skipped", "learn", "append", "learnt",
   "complete", "completed", "again"}

Decided ==
  {"gate", "raise", "park", "unpark", "act", "execute", "acted", "skip", "skipped",
   "learn", "append", "learnt"}

\* What the locals of a driver are at each position.
Locals(d) ==
  /\ d.pc \in Fresh \cup {"park", "unpark"} => d.run.iteration < MaxIterations
  /\ d.pc \in Decided => d.decision \in Decision
  /\ d.pc = "deliberate" => d.run.status = "deciding"
  /\ d.pc \in {"act", "execute"} => Len(d.results) < d.decision.actions
  /\ d.pc \in {"acted", "learn", "append"} => Len(d.results) <= d.decision.actions
  /\ d.pc \notin {"execute", "acted", "learn", "append", "learnt", "complete",
                  "completed", "again", "fail", "failed"} => d.results = <<>>

TypeInv == TypeOK /\ \A g \in Drivers : Locals(me[g])

(***************************************************************************)
(* The shapes a step of a driver has                                       *)
(***************************************************************************)
\* From where to where the steps lead that only work on the run; most of them
\* may also fail.
Flow ==
  {<<"start", "top">>, <<"top", "observe">>, <<"unpark", "act">>, <<"unpark", "skip">>,
   <<"observe", "recall">>, <<"recall", "understand">>, <<"understand", "signals">>,
   <<"signals", "decide">>, <<"decide", "deliberate">>, <<"gate", "raise">>, <<"gate", "act">>,
   <<"gate", "skip">>, <<"act", "execute">>, <<"acted", "learn">>, <<"skip", "skipped">>,
   <<"skipped", "learn">>, <<"learn", "append">>, <<"append", "append">>, <<"append", "learnt">>,
   <<"learnt", "complete">>, <<"learnt", "again">>, <<"complete", "completed">>, <<"fail", "failed">>}
  \cup ((Labels \ {"off", "load", "raise", "park", "unpark", "failed"}) \X {"fail"})

\* The store afterwards: the status changed, the driver's copy saved, or neither.
Stored(g) ==
  /\ store' \in Run
  /\ store'.pending \in {store.pending, me[g].run.pending}
  /\ ~StoreOk(g) => store' = store

Aside == UNCHANGED <<approval, ctxDone, storeUp, steer, decided, calls, answered, verdicts>>

\* g works on: the decision in hand and the results stay as they are.
WorksAs(g, d) ==
  /\ me' = [me EXCEPT ![g] = d]
  /\ <<me[g].pc, d.pc>> \in Flow
  /\ d.run.iteration = me[g].run.iteration
  /\ d.run.pending = me[g].run.pending
  /\ me[g].pc = "start" => d.run = me[g].run
  /\ d.decision = me[g].decision
  /\ d.results = me[g].results
  /\ d.pc = "observe" => me[g].run.iteration < MaxIterations /\ ~Parked(me[g].run)
  /\ d.pc = "act" => d.decision.actions > 0
  /\ d.pc = "deliberate" => d.run.status = "deciding"
  /\ me[g].pc = "gate" /\ d.pc = "act" => ~GateEnabled

Works(g) ==
  /\ \E d \in Driver : WorksAs(g, d)
  /\ Stored(g)
  /\ learned' \subseteq ActionIds
  /\ unsaved' \subseteq 1..MaxDecisions
  /\ Aside

\* g returns from engine.Run.
Leaves(g) ==
  /\ me[g].pc # "off"
  /\ me' = [me EXCEPT ![g] = Off]
  /\ Stored(g)
  /\ me[g].pc = "load" => store' = store
  /\ Aside
  /\ UNCHANGED <<learned, unsaved>>

\* g takes up the decision that was pending.
TakesUp(g) ==
  /\ me[g].pc = "top"
  /\ me[g].run.iteration < MaxIterations
  /\ Parked(me[g].run)
  /\ approval.state # "pending"
  /\ me' = [me EXCEPT ![g].decision = me[g].run.pending,
                      ![g].run.pending = NoDecision, ![g].pc = "unpark"]
  /\ UNCHANGED <<store, approval, ctxDone, storeUp, steer, decided, history>>

\* Every way the loop changes its copy of the run gives a run.
LEMMA RunUpdates ==
  ASSUME NEW r \in Run
  PROVE  /\ \A s \in Status : [r EXCEPT !.status = s] \in Run
         /\ \A s \in LoopStage : [r EXCEPT !.steps = @ \cup {<<r.iteration, s>>}] \in Run
         /\ \A d \in Decision \cup {NoDecision} : [r EXCEPT !.pending = d] \in Run
         /\ \A s \in Status : [r EXCEPT !.status = s, !.completedAt = TRUE] \in Run
         /\ r.iteration < MaxIterations =>
              [r EXCEPT !.iteration = @ + 1, !.status = "observing"] \in Run
<1> USE RunLoopAssumption
<1> USE DEF Run
<1>1. \A s \in LoopStage : [r EXCEPT !.steps = @ \cup {<<r.iteration, s>>}] \in Run
  OBVIOUS
<1>2. r.iteration < MaxIterations => r.iteration + 1 \in Iteration
  BY DEF Iteration
<1>3. "observing" \in Status
  BY DEF Status, LoopStage
<1> QED BY <1>1, <1>2, <1>3

\* A transition is such a step.
LEMMA TransitionWorks ==
  ASSUME TypeInv, NEW g \in Drivers, NEW from, NEW to \in Status, NEW then \in Labels,
         Transition(g, from, to, then),
         <<from, then>> \in Flow, <<from, "fail">> \in Flow,
         from \notin {"start", "unpark"}, then # "observe",
         then = "act" => me[g].decision.actions > 0 /\ (from = "gate" => ~GateEnabled),
         then = "deliberate" => to = "deciding"
  PROVE  Works(g)
<1> DEFINE r == [me[g].run EXCEPT !.status = to]
           d == [me[g] EXCEPT !.run = r, !.pc = IF StoreOk(g) THEN then ELSE "fail"]
<1>1. me[g] \in Driver /\ me[g].run \in Run /\ store \in Run
  BY DEF TypeInv, TypeOK, Driver
<1>2. r \in Run /\ [store EXCEPT !.status = to] \in Run
  BY <1>1, RunUpdates
<1>3. "fail" \in Labels
  BY DEF Labels
<1>4. d \in Driver
  BY <1>1, <1>2, <1>3 DEF Driver
<1>5. me' = [me EXCEPT ![g] = d] /\ me[g].pc = from
  BY DEF Transition
<1>6. /\ d.run.iteration = me[g].run.iteration /\ d.run.pending = me[g].run.pending
      /\ d.run.status = to
  BY <1>1 DEF Driver, Run
<1>7. d.decision = me[g].decision /\ d.results = me[g].results
      /\ d.pc = IF StoreOk(g) THEN then ELSE "fail"
  BY <1>1 DEF Driver
<1> HIDE DEF d
<1>8. WorksAs(g, d)
  BY <1>5, <1>6, <1>7 DEF WorksAs
<1>9. Stored(g)
  BY <1>1, <1>2 DEF Transition, Stored, Run
<1> QED BY <1>4, <1>8, <1>9 DEF Works, Transition, Aside, history, TypeInv, TypeOK

\* So is the end of a stage.
LEMMA EndStageWorks ==
  ASSUME TypeInv, NEW g \in Drivers, NEW from, NEW stage \in LoopStage, NEW ok \in BOOLEAN,
         NEW then \in Labels, EndStage(g, from, stage, ok, then),
         <<from, then>> \in Flow, <<from, "fail">> \in Flow,
         from \notin {"start", "unpark"}, then \notin {"observe", "act", "deliberate"}
  PROVE  Works(g)
<1> DEFINE r == IF ok THEN [me[g].run EXCEPT !.steps = @ \cup {<<me[g].run.iteration, stage>>}]
                      ELSE me[g].run
           d == [me[g] EXCEPT !.run = r, !.pc = IF ok /\ StoreOk(g) THEN then ELSE "fail"]
<1>1. me[g] \in Driver /\ me[g].run \in Run /\ store \in Run
  BY DEF TypeInv, TypeOK, Driver
<1>2. r \in Run /\ r.iteration = me[g].run.iteration /\ r.pending = me[g].run.pending
  <2>1. r \in Run
    BY <1>1, RunUpdates
  <2> QED BY <1>1, <2>1 DEF Run
<1>3. "fail" \in Labels
  BY DEF Labels
<1>4. me' = [me EXCEPT ![g] = d] /\ me[g].pc = from /\ Save(g, r)
  BY DEF EndStage
<1>5. Aside /\ UNCHANGED <<learned, unsaved>>
  BY DEF EndStage, Aside, history
<1> HIDE DEF r
<1>6. d \in Driver
  BY <1>1, <1>2, <1>3 DEF Driver
<1>7. /\ d.run.iteration = me[g].run.iteration /\ d.run.pending = me[g].run.pending
      /\ d.decision = me[g].decision /\ d.results = me[g].results
      /\ d.pc = IF ok /\ StoreOk(g) THEN then ELSE "fail"
  BY <1>1, <1>2 DEF Driver
<1> HIDE DEF d
<1>8. WorksAs(g, d)
  BY <1>4, <1>7 DEF WorksAs
<1>9. Stored(g)
  BY <1>1, <1>2, <1>4 DEF Save, Stored
<1> QED BY <1>5, <1>6, <1>8, <1>9 DEF Works, TypeInv, TypeOK

\* And so is moving on without touching the store.
LEMMA GotoWorks ==
  ASSUME TypeInv, NEW g \in Drivers, NEW then \in Labels, Goto(g, then),
         <<me[g].pc, then>> \in Flow,
         then = "observe" => me[g].run.iteration < MaxIterations /\ ~Parked(me[g].run),
         then = "act" => me[g].decision.actions > 0 /\ me[g].pc # "gate",
         then # "deliberate", UNCHANGED <<store, approval, ctxDone, storeUp, steer, decided, history>>
  PROVE  Works(g)
<1> DEFINE d == [me[g] EXCEPT !.pc = then]
<1>1. me[g] \in Driver /\ store \in Run
  BY DEF TypeInv, TypeOK
<1>2. me' = [me EXCEPT ![g] = d]
  BY DEF Goto
<1>3. d \in Driver /\ d.run = me[g].run /\ d.decision = me[g].decision
      /\ d.results = me[g].results /\ d.pc = then
  BY <1>1 DEF Driver
<1> HIDE DEF d
<1>4. WorksAs(g, d)
  BY <1>2, <1>3 DEF WorksAs
<1>5. Stored(g) /\ Aside /\ UNCHANGED <<learned, unsaved>>
  BY <1>1 DEF Stored, Aside, history
<1> QED BY <1>3, <1>4, <1>5 DEF Works, TypeInv, TypeOK

LEMMA ReturnLeaves ==
  ASSUME TypeInv, NEW g \in Drivers, me[g].pc # "off", Return(g), Stored(g),
         me[g].pc = "load" => store' = store,
         UNCHANGED <<approval, ctxDone, storeUp, steer, decided, history>>
  PROVE  Leaves(g)
BY DEF Leaves, Return, Aside, history

\* The stages of one iteration only work on the run.
LEMMA Steps ==
  /\ \A p \in {<<"observe", "recall">>, <<"understand", "signals">>, <<"decide", "deliberate">>,
               <<"gate", "raise">>, <<"gate", "act">>, <<"gate", "skip">>, <<"act", "execute">>,
               <<"skip", "skipped">>, <<"learn", "append">>, <<"complete", "completed">>,
               <<"recall", "understand">>, <<"signals", "decide">>, <<"acted", "learn">>,
               <<"learnt", "complete">>, <<"learnt", "again">>} :
       p \in Flow /\ <<p[1], "fail">> \in Flow /\ p[2] \in Labels
  /\ LoopStage \cup {"completed", "awaiting_approval"} \subseteq Status
  /\ LoopStage = {"observing", "understanding", "deciding", "acting", "learning"}
BY DEF Flow, Labels, LoopStage, Status, Terminal

LEMMA StagesWork ==
  ASSUME TypeInv, NEW g \in Drivers,
         \/ Observe(g) \/ Understand(g) \/ Decide(g) \/ Gate(g) \/ Act(g)
         \/ SkipActing(g) \/ Learn(g) \/ Complete(g)
         \/ Acted(g) \/ Learnt(g) \/ \E ok \in BOOLEAN : Recall(g, ok) \/ Signals(g, ok)
  PROVE  Works(g)
<1>1. me[g] \in Driver
  BY DEF TypeInv, TypeOK
<1>2. CASE Observe(g)
  BY <1>2, Steps, TransitionWorks DEF Observe
<1>3. CASE Understand(g)
  BY <1>3, Steps, TransitionWorks DEF Understand
<1>4. CASE Decide(g)
  BY <1>4, Steps, TransitionWorks DEF Decide
<1>5. CASE Act(g)
  <2>1. me[g].decision.actions > 0
    <3>1. me[g].pc = "act"
      BY <1>5 DEF Act, Transition
    <3>2. Len(me[g].results) < me[g].decision.actions /\ Len(me[g].results) \in Nat
          /\ me[g].decision.actions \in 0..MaxActions
      BY <1>1, <3>1 DEF TypeInv, Locals, Driver, Results, Decision, Decided
    <3> QED BY <3>2, RunLoopAssumption
  <2> QED BY <1>5, <2>1, Steps, TransitionWorks DEF Act
<1>6. CASE Gate(g)
  <2> DEFINE then == IF GateEnabled THEN "raise"
                     ELSE IF me[g].decision.actions > 0 /\ ~ReadOnly THEN "act" ELSE "skip"
  <2>1. then \in {"raise", "act", "skip"} /\ (then = "act" => me[g].decision.actions > 0 /\ ~GateEnabled)
    OBVIOUS
  <2>2. Transition(g, "gate", "awaiting_approval", then)
    BY <1>6 DEF Gate
  <2> HIDE DEF then
  <2> QED BY <2>1, <2>2, Steps, TransitionWorks
<1>7. CASE SkipActing(g)
  BY <1>7, Steps, TransitionWorks DEF SkipActing
<1>8. CASE Learn(g)
  BY <1>8, Steps, TransitionWorks DEF Learn
<1>9. CASE Complete(g)
  BY <1>9, Steps, TransitionWorks DEF Complete
<1>10. CASE Acted(g)
  <2>1. me[g].ok \in BOOLEAN
    BY <1>1 DEF Driver
  <2>2. <<"acted", "learn">> \in Flow /\ <<"acted", "fail">> \in Flow /\ "learn" \in Labels
        /\ "acting" \in LoopStage /\ "acted" \notin {"start", "unpark"}
        /\ "learn" \notin {"observe", "act", "deliberate"}
    BY Steps
  <2> QED BY <1>10, <2>1, <2>2, EndStageWorks, Zenon DEF Acted
<1>11. CASE Learnt(g)
  <2>1. me[g].ok \in BOOLEAN
    BY <1>1 DEF Driver
  <2> DEFINE then == IF Satisfied(me[g].results) THEN "complete" ELSE "again"
  <2>2. then \in {"complete", "again"}
    OBVIOUS
  <2>3. EndStage(g, "learnt", "learning", me[g].ok, then)
    BY <1>11 DEF Learnt
  <2> HIDE DEF then
  <2>4. <<"learnt", then>> \in Flow /\ <<"learnt", "fail">> \in Flow /\ then \in Labels
        /\ "learning" \in LoopStage /\ "learnt" \notin {"start", "unpark"}
        /\ then \notin {"observe", "act", "deliberate"}
    BY <2>2, Steps
  <2> QED BY <2>1, <2>3, <2>4, EndStageWorks, Zenon
<1>12. ASSUME NEW ok \in BOOLEAN, Recall(g, ok) PROVE Works(g)
  <2>1. <<"recall", "understand">> \in Flow /\ <<"recall", "fail">> \in Flow /\ "understand" \in Labels
        /\ "observing" \in LoopStage /\ "recall" \notin {"start", "unpark"}
        /\ "understand" \notin {"observe", "act", "deliberate"}
    BY Steps
  <2> QED BY <1>12, <2>1, EndStageWorks, Zenon DEF Recall
<1>13. ASSUME NEW ok \in BOOLEAN, Signals(g, ok) PROVE Works(g)
  <2>1. <<"signals", "decide">> \in Flow /\ <<"signals", "fail">> \in Flow /\ "decide" \in Labels
        /\ "understanding" \in LoopStage /\ "signals" \notin {"start", "unpark"}
        /\ "decide" \notin {"observe", "act", "deliberate"}
    BY Steps
  <2> QED BY <1>13, <2>1, EndStageWorks, Zenon DEF Signals
<1> QED BY <1>2, <1>3, <1>4, <1>5, <1>6, <1>7, <1>8, <1>9, <1>10, <1>11, <1>12, <1>13

\* The head of the loop, the writes without a stage, the outcomes and the exits.
LEMMA HeadShapes ==
  ASSUME TypeInv, NEW g \in Drivers,
         Start(g) \/ HeadFails(g) \/ HeadFresh(g) \/ HeadParked(g) \/ Appended(g)
  PROVE  Works(g) \/ Leaves(g) \/ TakesUp(g)
<1>1. store \in Run /\ me[g] \in Driver /\ me[g].run \in Run
  BY DEF TypeInv, TypeOK, Driver
<1>2. /\ <<"start", "top">> \in Flow /\ <<"start", "fail">> \in Flow /\ <<"top", "fail">> \in Flow
      /\ <<"top", "observe">> \in Flow /\ <<"append", "learnt">> \in Flow
      /\ {"top", "fail", "observe", "learnt"} \subseteq Labels
  BY DEF Flow, Labels
<1>3. CASE Start(g)
  <2>1. CASE Return(g)
    BY <1>1, <1>3, <2>1, ReturnLeaves DEF Start, Stored
  <2>2. CASE ~Return(g)
    <3> DEFINE then == IF StoreOk(g) THEN "top" ELSE "fail"
    <3>1. Goto(g, then) /\ then \in {"top", "fail"}
      BY <1>3, <2>2 DEF Start
    <3> HIDE DEF then
    <3> QED BY <1>2, <1>3, <3>1, GotoWorks DEF Start
  <2> QED BY <2>1, <2>2
<1>4. CASE HeadFails(g)
  BY <1>2, <1>4, GotoWorks DEF HeadFails
<1>5. CASE HeadFresh(g)
  <2>1. me[g].run.iteration < MaxIterations
    BY <1>1, <1>5, RunLoopAssumption DEF HeadFresh, OverLimit, Run, Iteration
  <2> QED BY <1>2, <1>5, <2>1, GotoWorks DEF HeadFresh
<1>6. CASE HeadParked(g)
  <2>1. me[g].run.iteration < MaxIterations
    BY <1>1, <1>6, RunLoopAssumption DEF HeadParked, OverLimit, Run, Iteration
  <2>2. CASE ~StoreOk(g)
    BY <1>2, <1>6, <2>2, GotoWorks DEF HeadParked
  <2>3. CASE StoreOk(g) /\ approval.state = "pending"
    BY <1>1, <1>6, <2>3, ReturnLeaves DEF HeadParked, Stored
  <2>4. CASE StoreOk(g) /\ approval.state # "pending"
    BY <1>6, <2>1, <2>4 DEF HeadParked, TakesUp
  <2> QED BY <2>2, <2>3, <2>4
<1>7. CASE Appended(g)
  BY <1>2, <1>7, GotoWorks DEF Appended
<1> QED BY <1>3, <1>4, <1>5, <1>6, <1>7

\* A save leaves the store with the run of the driver or as it was.
LEMMA SaveStored ==
  ASSUME TypeInv, NEW g \in Drivers, NEW r \in Run, r.pending = me[g].run.pending, Save(g, r)
  PROVE  Stored(g)
BY DEF Save, Stored, TypeInv, TypeOK

LEMMA ExitShapes ==
  ASSUME TypeInv, NEW g \in Drivers,
         Park(g) \/ Completed(g) \/ Failed(g) \/ (Resume(g) /\ ~(StoreOk(g) /\ Parked(store)))
  PROVE  Leaves(g)
<1>1. store \in Run /\ me[g] \in Driver /\ me[g].run \in Run
  BY DEF TypeInv, TypeOK, Driver
<1>2. CASE Park(g)
  BY <1>1, <1>2, SaveStored, ReturnLeaves DEF Park
<1>3. CASE Completed(g)
  <2> DEFINE r == [me[g].run EXCEPT !.status = "completed", !.completedAt = TRUE]
  <2>1. r \in Run /\ r.pending = me[g].run.pending
    <3>1. "completed" \in Status
      BY DEF Status, Terminal
    <3> QED BY <1>1, <3>1, RunUpdates DEF Run
  <2>2. Save(g, r)
    BY <1>3 DEF Completed
  <2> HIDE DEF r
  <2> QED BY <1>3, <2>1, <2>2, SaveStored, ReturnLeaves DEF Completed
<1>4. CASE Failed(g)
  BY <1>1, <1>4, SaveStored, ReturnLeaves DEF Failed
<1>5. CASE Resume(g) /\ ~(StoreOk(g) /\ Parked(store))
  BY <1>1, <1>5, ReturnLeaves DEF Resume, Stored
<1> QED BY <1>2, <1>3, <1>4, <1>5

LEMMA WriteShapes ==
  ASSUME TypeInv, NEW g \in Drivers,
         Unpark(g) \/ Skipped(g) \/ Fail(g) \/ \E ok \in BOOLEAN : AppendOutcome(g, ok)
  PROVE  Works(g)
<1>1. store \in Run /\ me[g] \in Driver /\ me[g].run \in Run /\ learned \subseteq ActionIds
      /\ unsaved \subseteq 1..MaxDecisions
  BY DEF TypeInv, TypeOK, Driver
<1>2. /\ <<"unpark", "act">> \in Flow /\ <<"unpark", "skip">> \in Flow
      /\ <<"skipped", "learn">> \in Flow /\ <<"fail", "failed">> \in Flow
      /\ <<"append", "append">> \in Flow /\ <<"append", "learnt">> \in Flow
      /\ {"act", "skip", "learn", "failed", "append", "learnt"} \subseteq Labels
      /\ "failed" \in Status /\ "acting" \in LoopStage
  BY DEF Flow, Labels, Status, Terminal, LoopStage
<1>3. CASE Unpark(g)
  <2> DEFINE then == IF me[g].decision.actions > 0 /\ ~ReadOnly THEN "act" ELSE "skip"
             d == [me[g] EXCEPT !.pc = then]
  <2>1. then \in {"act", "skip"} /\ (then = "act" => me[g].decision.actions > 0)
    OBVIOUS
  <2>2. me' = [me EXCEPT ![g] = d] /\ me[g].pc = "unpark" /\ Save(g, me[g].run)
    BY <1>3 DEF Unpark, Goto
  <2>3. Aside /\ learned' = learned /\ unsaved' \subseteq 1..MaxDecisions
    <3>1. me[g].decision.id \in 1..MaxDecisions
      BY <2>2 DEF TypeInv, Locals, Decided, Decision
    <3> QED BY <1>3, <3>1 DEF Unpark, Aside, TypeInv, TypeOK
  <2> HIDE DEF then
  <2>4. d \in Driver /\ d.run = me[g].run /\ d.decision = me[g].decision
        /\ d.results = me[g].results /\ d.pc = then
    BY <1>1, <1>2, <2>1 DEF Driver
  <2> HIDE DEF d
  <2>5. WorksAs(g, d)
    BY <1>2, <2>1, <2>2, <2>4 DEF WorksAs, Save
  <2> QED BY <1>1, <2>2, <2>3, <2>4, <2>5, SaveStored DEF Works
<1>4. CASE Skipped(g)
  <2> DEFINE r == [me[g].run EXCEPT !.steps = @ \cup {<<me[g].run.iteration, "acting">>}]
             d == [me[g] EXCEPT !.run = r, !.pc = "learn"]
  <2>1. r \in Run /\ r.iteration = me[g].run.iteration /\ r.pending = me[g].run.pending
    <3>1. r \in Run
      BY <1>1, <1>2, RunUpdates
    <3> QED BY <1>1, <3>1 DEF Run
  <2>2. me' = [me EXCEPT ![g] = d] /\ me[g].pc = "skipped" /\ Save(g, r)
    BY <1>4 DEF Skipped
  <2>3. Aside /\ UNCHANGED <<learned, unsaved>>
    BY <1>4 DEF Skipped, Aside, history
  <2> HIDE DEF r
  <2>4. d \in Driver /\ d.run = r /\ d.decision = me[g].decision
        /\ d.results = me[g].results /\ d.pc = "learn"
    BY <1>1, <1>2, <2>1 DEF Driver
  <2> HIDE DEF d
  <2>5. WorksAs(g, d)
    BY <1>2, <2>1, <2>2, <2>4 DEF WorksAs
  <2> QED BY <1>1, <2>1, <2>2, <2>3, <2>4, <2>5, SaveStored DEF Works
<1>5. CASE Fail(g)
  <2> DEFINE r == [me[g].run EXCEPT !.status = "failed", !.completedAt = TRUE]
             d == [me[g] EXCEPT !.run = r, !.pc = "failed"]
  <2>1. r \in Run /\ r.iteration = me[g].run.iteration /\ r.pending = me[g].run.pending
    <3>1. r \in Run
      BY <1>1, <1>2, RunUpdates
    <3> QED BY <1>1, <3>1 DEF Run
  <2>2. me' = [me EXCEPT ![g] = d] /\ me[g].pc = "fail"
    BY <1>5 DEF Fail
  <2>3. Aside /\ UNCHANGED <<learned, unsaved>>
    BY <1>5 DEF Fail, Aside, history
  <2>4. Stored(g)
    BY <1>1, <1>2, <1>5, RunUpdates DEF Fail, Stored, Run
  <2> HIDE DEF r
  <2>5. d \in Driver /\ d.run = r /\ d.decision = me[g].decision
        /\ d.results = me[g].results /\ d.pc = "failed"
    BY <1>1, <1>2, <2>1 DEF Driver
  <2> HIDE DEF d
  <2>6. WorksAs(g, d)
    BY <1>2, <2>1, <2>2, <2>5 DEF WorksAs
  <2> QED BY <1>1, <2>3, <2>4, <2>5, <2>6 DEF Works
<1>6. ASSUME NEW ok \in BOOLEAN, AppendOutcome(g, ok) PROVE Works(g)
  <2>1. me[g].pc = "append" /\ me[g].written < Len(me[g].results) /\ me[g].written \in Nat
        /\ Len(me[g].results) \in Nat
    BY <1>1, <1>6 DEF AppendOutcome, Driver, Results
  <2>2. Aside /\ Stored(g) /\ unsaved' = unsaved
    BY <1>1, <1>6 DEF AppendOutcome, Aside, Stored
  <2>3. CASE ok
    <3> DEFINE d == [me[g] EXCEPT !.written = @ + 1]
    <3>1. me' = [me EXCEPT ![g] = d]
          /\ learned' = learned \cup {<<me[g].decision.id, me[g].written + 1>>}
      BY <1>6, <2>3 DEF AppendOutcome
    <3>2. d \in Driver /\ d.run = me[g].run /\ d.decision = me[g].decision
          /\ d.results = me[g].results /\ d.pc = "append"
      BY <1>1, <2>1 DEF Driver
    <3> HIDE DEF d
    <3>3. WorksAs(g, d)
      BY <1>2, <2>1, <3>1, <3>2 DEF WorksAs
    <3>4. me[g].decision \in Decision /\ Len(me[g].results) <= me[g].decision.actions
      BY <2>1 DEF TypeInv, Locals, Decided
    <3>5. <<me[g].decision.id, me[g].written + 1>> \in ActionIds
      BY <2>1, <3>4, RunLoopAssumption DEF ActionIds, Decision
    <3> QED BY <1>1, <2>2, <3>1, <3>2, <3>3, <3>5 DEF Works
  <2>4. CASE ~ok
    <3> DEFINE d == [me[g] EXCEPT !.ok = FALSE, !.pc = "learnt"]
    <3>1. me' = [me EXCEPT ![g] = d] /\ learned' = learned
      BY <1>6, <2>4 DEF AppendOutcome
    <3>2. d \in Driver /\ d.run = me[g].run /\ d.decision = me[g].decision
          /\ d.results = me[g].results /\ d.pc = "learnt"
      BY <1>1, <1>2, <2>1 DEF Driver
    <3> HIDE DEF d
    <3>3. WorksAs(g, d)
      BY <1>2, <2>1, <3>1, <3>2 DEF WorksAs
    <3> QED BY <1>1, <2>2, <3>1, <3>2, <3>3 DEF Works
  <2> QED BY <2>3, <2>4
<1> QED BY <1>3, <1>4, <1>5, <1>6

Shapes(g) ==
  \/ Works(g) \/ Leaves(g) \/ TakesUp(g) \/ Raise(g) \/ Again(g)
  \/ Resume(g) /\ StoreOk(g) /\ Parked(store)
  \/ \E answer \in Answers : Execute(g, answer)
  \/ \E ok, gated \in BOOLEAN, n \in 0..MaxActions : Deliberate(g, ok, n, gated)

LEMMA StepShapes ==
  ASSUME TypeInv, NEW g \in Drivers, Step(g)
  PROVE  Shapes(g)
BY StagesWork, HeadShapes, ExitShapes, WriteShapes, Zenon DEF Step, Shapes

\* A panic in publish makes the goroutine of a Submit return, the store left.
LEMMA PanicLeaves ==
  ASSUME TypeInv, NEW g \in Submitters, PublishPanics(g)
  PROVE  g \in Drivers /\ Leaves(g) /\ store' = store
<1>1. g \in Drivers /\ me[g].pc # "off" /\ me[g].pc # "load"
  BY DEF PublishPanics, Published, Drivers
<1> QED BY <1>1 DEF PublishPanics, Return, Leaves, Stored, Aside, history, TypeInv, TypeOK

(***************************************************************************)
(* Types                                                                   *)
(***************************************************************************)
LEMMA Moved ==
  ASSUME TypeInv, NEW g \in Drivers, NEW d \in Driver, Locals(d), me' = [me EXCEPT ![g] = d]
  PROVE  me' \in [Drivers -> Driver] /\ \A h \in Drivers : Locals(me'[h])
BY DEF TypeInv, TypeOK

LEMMA OffType == Off \in Driver /\ Locals(Off)
BY RunLoopAssumption
   DEF Off, At, NewRun, Driver, Run, Status, Labels, Results, Iteration, Locals, Fresh, Decided

LEMMA AtType ==
  ASSUME NEW label \in {"load", "start", "top", "fail"}, NEW r \in Run
  PROVE  At(label, r) \in Driver /\ Locals(At(label, r))
BY DEF At, Driver, Labels, Results, Locals, Fresh, Decided

LEMMA WorksType ==
  ASSUME TypeInv, NEW g \in Drivers, Works(g)
  PROVE  TypeInv'
<1>1. PICK d \in Driver : WorksAs(g, d)
  BY DEF Works
<1>2. me[g] \in Driver /\ d.results \in Results /\ Len(d.results) \in Nat
  BY DEF TypeInv, TypeOK, Driver, Results
<1>3. Locals(d)
  <2>1. d.pc \in Fresh \cup {"park", "unpark"} => d.run.iteration < MaxIterations
    BY <1>1 DEF WorksAs, Flow, TypeInv, Locals, Fresh
  <2>2. d.pc \in Decided => d.decision \in Decision
    BY <1>1 DEF WorksAs, Flow, TypeInv, Locals, Decided
  <2>3. d.pc \notin {"execute", "acted", "learn", "append", "learnt", "complete",
                     "completed", "again", "fail", "failed"} => d.results = <<>>
    BY <1>1 DEF WorksAs, Flow, TypeInv, Locals
  <2>4. d.pc \in {"act", "execute"} => Len(d.results) < d.decision.actions
    BY <1>1, <2>3 DEF WorksAs, Flow, TypeInv, Locals
  <2>5. d.pc \in {"acted", "learn", "append"} => Len(d.results) <= d.decision.actions
    <3>1. CASE me[g].pc = "skipped"
      <4>1. d.results = <<>> /\ d.decision \in Decision
        BY <1>1, <3>1 DEF WorksAs, TypeInv, Locals, Decided
      <4> QED BY <4>1, RunLoopAssumption DEF Decision
    <3>2. CASE me[g].pc # "skipped"
      BY <1>1, <3>2 DEF WorksAs, Flow, TypeInv, Locals
    <3> QED BY <3>1, <3>2
  <2>6. d.pc = "deliberate" => d.run.status = "deciding"
    BY <1>1 DEF WorksAs
  <2> QED BY <2>1, <2>2, <2>3, <2>4, <2>5, <2>6 DEF Locals
<1>4. me' = [me EXCEPT ![g] = d]
  BY <1>1 DEF WorksAs
<1> QED BY <1>3, <1>4, Moved DEF Works, Stored, Aside, TypeInv, TypeOK

LEMMA LeavesType ==
  ASSUME TypeInv, NEW g \in Drivers, Leaves(g)
  PROVE  TypeInv'
BY OffType, Moved DEF Leaves, Stored, Aside, TypeInv, TypeOK

LEMMA TakesUpType ==
  ASSUME TypeInv, NEW g \in Drivers, TakesUp(g)
  PROVE  TypeInv'
<1> DEFINE r == [me[g].run EXCEPT !.pending = NoDecision]
           d == [me[g] EXCEPT !.decision = me[g].run.pending, !.run = r, !.pc = "unpark"]
<1>1. me[g] \in Driver /\ me[g].run \in Run
  BY DEF TypeInv, TypeOK, Driver
<1>2. me[g].run.pending \in Decision
  BY <1>1 DEF TakesUp, Parked, Run
<1>3. r \in Run /\ r.iteration = me[g].run.iteration
  BY <1>1, RunUpdates DEF Run
<1>4. me' = [me EXCEPT ![g] = d]
  BY DEF TakesUp
<1> HIDE DEF r
<1>5. d \in Driver /\ d.pc = "unpark" /\ d.run = r /\ d.decision = me[g].run.pending
      /\ d.results = me[g].results
  BY <1>1, <1>2, <1>3 DEF Driver, Labels
<1> HIDE DEF d
<1>6. me[g].results = <<>> /\ me[g].run.iteration < MaxIterations
  BY DEF TakesUp, TypeInv, Locals
<1>7. Locals(d)
  BY <1>2, <1>3, <1>5, <1>6 DEF Locals, Fresh, Decided
<1> QED BY <1>4, <1>5, <1>7, Moved DEF TakesUp, history, TypeInv, TypeOK

LEMMA RaiseType ==
  ASSUME TypeInv, NEW g \in Drivers, Raise(g)
  PROVE  TypeInv'
<1> DEFINE r == [me[g].run EXCEPT !.pending = me[g].decision]
           d == [me[g] EXCEPT !.run = r, !.pc = "park"]
<1>1. me[g] \in Driver /\ me[g].run \in Run /\ me[g].pc = "raise"
  BY DEF Raise, TypeInv, TypeOK, Driver
<1>2. /\ me[g].decision \in Decision /\ me[g].run.iteration < MaxIterations
      /\ me[g].results = <<>>
  BY <1>1 DEF TypeInv, Locals, Fresh, Decided
<1>3. r \in Run /\ r.iteration = me[g].run.iteration
  BY <1>1, <1>2, RunUpdates DEF Run
<1>4. me' = [me EXCEPT ![g] = d]
  BY DEF Raise
<1> HIDE DEF r
<1>5. d \in Driver /\ d.pc = "park" /\ d.run = r /\ d.decision = me[g].decision
      /\ d.results = me[g].results
  BY <1>1, <1>3 DEF Driver, Labels
<1> HIDE DEF d
<1>6. Locals(d)
  BY <1>2, <1>3, <1>5 DEF Locals, Fresh, Decided
<1>7. approval' \in [state: {"none", "pending", "approve", "deny"}, id: 0..MaxDecisions]
  BY <1>2, RunLoopAssumption DEF Raise, Decision, TypeInv, TypeOK
<1> QED BY <1>4, <1>5, <1>6, <1>7, Moved DEF Raise, history, TypeInv, TypeOK

LEMMA AgainType ==
  ASSUME TypeInv, NEW g \in Drivers, Again(g)
  PROVE  TypeInv'
<1> DEFINE r == [me[g].run EXCEPT !.iteration = @ + 1, !.status = "observing"]
           label == IF StoreOk(g) THEN "top" ELSE "fail"
<1>1. me[g].run \in Run /\ store \in Run /\ me[g].run.iteration < MaxIterations
  BY DEF Again, TypeInv, TypeOK, Driver, Locals, Fresh
<1>2. r \in Run /\ "observing" \in Status
  BY <1>1, RunUpdates DEF Status, LoopStage
<1>3. me' = [me EXCEPT ![g] = At(label, r)] /\ label \in {"top", "fail"}
  BY DEF Again
<1>4. store' \in Run
  BY <1>1, <1>2, RunUpdates DEF Again
<1> HIDE DEF r, label
<1>5. At(label, r) \in Driver /\ Locals(At(label, r))
  BY <1>2, <1>3, AtType
<1> QED BY <1>3, <1>4, <1>5, Moved DEF Again, history, TypeInv, TypeOK

LEMMA ResumeType ==
  ASSUME TypeInv, NEW g \in Drivers, Resume(g), StoreOk(g), Parked(store)
  PROVE  TypeInv'
<1>1. store \in Run /\ me' = [me EXCEPT ![g] = At("start", store)]
  BY DEF Resume, TypeInv, TypeOK
<1> QED BY <1>1, AtType, Moved DEF Resume, history, TypeInv, TypeOK

LEMMA AnswerType ==
  ASSUME NEW s \in Results, NEW answer \in {"succeeded", "failed"}
  PROVE  Append(s, answer) \in Results /\ Len(Append(s, answer)) = Len(s) + 1 /\ Len(s) \in Nat
BY DEF Results

LEMMA ExecuteType ==
  ASSUME TypeInv, NEW g \in Drivers, NEW answer \in Answers, Execute(g, answer)
  PROVE  TypeInv'
<1> DEFINE a == <<me[g].decision.id, Len(me[g].results) + 1>>
           end == answer \in {"failed for good", "error"}
           results == IF end THEN me[g].results ELSE Append(me[g].results, answer)
           label == IF end \/ AllDone(g, results) THEN "acted" ELSE me[g].pc
           d == [me[g] EXCEPT !.results = results, !.ok = ~end, !.pc = label]
<1>1. me[g] \in Driver /\ me[g].pc = "execute" /\ me' = [me EXCEPT ![g] = d]
  BY DEF Execute, TypeInv, TypeOK
<1>2. /\ me[g].decision \in Decision /\ me[g].run.iteration < MaxIterations
      /\ Len(me[g].results) < me[g].decision.actions
      /\ me[g].results \in Results /\ Len(me[g].results) \in Nat
  BY <1>1 DEF TypeInv, Locals, Fresh, Decided, Driver, Results
<1>3. me[g].decision.actions \in 0..MaxActions /\ me[g].decision.id \in 1..MaxDecisions
  BY <1>2 DEF Decision
<1>4. a \in ActionIds
  <2>1. Len(me[g].results) + 1 \in 1..MaxActions
    BY <1>2, <1>3, RunLoopAssumption
  <2> QED BY <1>3, <2>1 DEF ActionIds
<1>5. \/ end /\ results = me[g].results
      \/ answer \in {"succeeded", "failed"} /\ results = Append(me[g].results, answer)
  BY DEF Answers
<1>6. calls' \in [ActionIds -> 0..2] /\ answered' \subseteq ActionIds
  <2>1. calls' = [calls EXCEPT ![a] = IF calls[a] < 2 THEN calls[a] + 1 ELSE calls[a]]
    BY DEF Execute
  <2>2. answered' \subseteq answered \cup {a}
    BY DEF Execute
  <2>3. calls[a] \in 0..2
    BY <1>4 DEF TypeInv, TypeOK
  <2> HIDE DEF a
  <2> QED BY <1>4, <2>1, <2>2, <2>3 DEF TypeInv, TypeOK
<1>7. label = "acted" \/ (label = "execute" /\ Len(results) # me[g].decision.actions)
  <2>1. CASE end \/ AllDone(g, results)
    BY <2>1
  <2>2. CASE ~(end \/ AllDone(g, results))
    <3>1. Len(results) # me[g].decision.actions
      BY <2>2 DEF AllDone
    <3> HIDE DEF results, end
    <3> QED BY <1>1, <2>2, <3>1
  <2> QED BY <2>1, <2>2
<1>8. end \in BOOLEAN
  OBVIOUS
<1> HIDE DEF a, results, end, label
<1>9. results \in Results /\ Len(results) \in Nat /\ Len(results) <= me[g].decision.actions
  <2>1. me[g].decision.actions \in Nat
    BY <1>3, RunLoopAssumption
  <2>2. CASE results = me[g].results
    BY <1>2, <2>1, <2>2
  <2>3. CASE answer \in {"succeeded", "failed"} /\ results = Append(me[g].results, answer)
    BY <1>2, <2>1, <2>3, AnswerType
  <2> QED BY <1>5, <2>2, <2>3
<1>10. d \in Driver /\ d.results = results /\ d.run = me[g].run
       /\ d.decision = me[g].decision /\ d.pc = label
  BY <1>1, <1>7, <1>8, <1>9 DEF Driver, Labels
<1> HIDE DEF d
<1>11. Locals(d)
  <2>1. label = "execute" => Len(results) < me[g].decision.actions
    BY <1>3, <1>7, <1>9, RunLoopAssumption
  <2> QED BY <1>2, <1>7, <1>9, <1>10, <2>1 DEF Locals, Fresh, Decided
<1>12. UNCHANGED <<store, approval, ctxDone, storeUp, steer, decided, learned, verdicts, unsaved>>
  BY DEF Execute
<1> QED BY <1>1, <1>6, <1>10, <1>11, <1>12, Moved DEF TypeInv, TypeOK

LEMMA DeliberateType ==
  ASSUME TypeInv, NEW g \in Drivers, NEW ok \in BOOLEAN, NEW gated \in BOOLEAN,
         NEW n \in 0..MaxActions, Deliberate(g, ok, n, gated)
  PROVE  TypeInv'
<1> DEFINE c == [id |-> decided + 1, actions |-> n, gated |-> gated]
           r == IF ok THEN [me[g].run EXCEPT !.steps = @ \cup {<<me[g].run.iteration, "deciding">>}]
                      ELSE me[g].run
           then == IF RequiresApproval(c) THEN "gate"
                   ELSE IF n > 0 /\ ~ReadOnly THEN "act" ELSE "skip"
           label == IF ok /\ StoreOk(g) THEN then ELSE "fail"
           d == [me[g] EXCEPT !.run = r, !.decision = c, !.pc = label]
<1>1. me[g] \in Driver /\ me[g].run \in Run /\ store \in Run /\ me[g].pc = "deliberate"
  BY DEF Deliberate, TypeInv, TypeOK, Driver
<1>2. me[g].run.iteration < MaxIterations /\ me[g].results = <<>>
  BY <1>1 DEF TypeInv, Locals, Fresh
<1>3. decided' = decided + 1 /\ decided' \in 0..MaxDecisions /\ c \in Decision
  BY RunLoopAssumption DEF Deliberate, TypeInv, TypeOK, Decision
<1>4. r \in Run /\ r.iteration = me[g].run.iteration
  <2>1. "deciding" \in LoopStage
    BY DEF LoopStage
  <2>2. r \in Run
    BY <1>1, <2>1, RunUpdates
  <2> QED BY <1>1, <2>2 DEF Run
<1>5. label \in {"gate", "act", "skip", "fail"} /\ (label = "act" => c.actions > 0)
  OBVIOUS
<1>6. me' = [me EXCEPT ![g] = d] /\ Save(g, r)
  BY DEF Deliberate
<1>7. store' \in Run
  BY <1>1, <1>4, <1>6 DEF Save
<1> HIDE DEF r, label
<1>8. d \in Driver /\ d.run = r /\ d.decision = c /\ d.pc = label /\ d.results = me[g].results
  BY <1>1, <1>3, <1>4, <1>5 DEF Driver, Labels
<1> HIDE DEF d, c
<1>9. Locals(d)
  BY <1>2, <1>3, <1>4, <1>5, <1>8 DEF Locals, Fresh, Decided
<1>10. UNCHANGED <<approval, ctxDone, storeUp, steer, history>>
  BY DEF Deliberate
<1> QED BY <1>3, <1>6, <1>7, <1>8, <1>9, <1>10, Moved DEF history, TypeInv, TypeOK

\* A resolution that is accepted.
LEMMA ResolveType ==
  ASSUME TypeInv, NEW verdict \in {"approve", "deny"}, Resolve(verdict)
  PROVE  /\ approval' \in [state: {"none", "pending", "approve", "deny"}, id: 0..MaxDecisions]
         /\ approval'.id = approval.id /\ approval'.state = verdict
         /\ verdicts' \in [1..MaxDecisions -> SUBSET {"approve", "deny"}]
         /\ \A d \in 1..MaxDecisions :
              verdicts'[d] = IF d = approval.id THEN verdicts[d] \cup {verdict} ELSE verdicts[d]
BY DEF Resolve, Resolvable, TypeInv, TypeOK

LEMMA WriteStatusType ==
  ASSUME TypeInv, NEW status \in Status, WriteStatus(status)
  PROVE  store' \in Run /\ store'.pending = store.pending
<1>1. store \in Run /\ store' = IF storeUp THEN [store EXCEPT !.status = status] ELSE store
  BY DEF WriteStatus, TypeInv, TypeOK
<1> QED BY <1>1, RunUpdates DEF Run

\* A steerer writes the status, resolves the approval, or both in turn.
Writes ==
  \E status \in {"paused", "cancelled", "observing"} : WriteStatus(status)
Grants ==
  /\ Resolve("approve")
  /\ \/ UNCHANGED me
     \/ \E g \in Resumers : me[g].pc = "off" /\ me' = [me EXCEPT ![g] = At("load", NewRun)]
  /\ UNCHANGED <<store, ctxDone, storeUp, decided, calls, answered, learned, unsaved>>
Refused ==
  UNCHANGED <<store, approval, me, ctxDone, storeUp, decided, history>>

SteerType == [pc: {"idle", "apply", "follow"}, cmd: Commands \cup {"none"}, waits: BOOLEAN]

LEMMA SteerShapes ==
  ASSUME TypeInv, NEW s \in Steerers, SteerStep(s) \/ \E cmd \in Commands : Issue(s, cmd)
  PROVE  /\ steer' \in [Steerers -> SteerType]
         /\ Writes \/ Grants \/ DenyPending \/ Refused
<1>1. steer \in [Steerers -> SteerType] /\ store \in Run
  BY DEF TypeInv, TypeOK, SteerType
<1>2. Idle \in SteerType
  BY DEF Idle, SteerType
<1>3. steer[s] \in SteerType /\ [steer[s] EXCEPT !.pc = "follow"] \in SteerType
  BY <1>1 DEF SteerType
<1>4. ThenIdle(s) \/ ThenFollow(s) => steer' \in [Steerers -> SteerType]
  BY <1>1, <1>2, <1>3 DEF ThenIdle, ThenFollow
<1>5. CASE Pause(s) \/ Cancel(s) \/ ResumePaused(s)
  BY <1>4, <1>5 DEF Pause, Cancel, ResumePaused, Writes
<1>6. CASE Approve(s)
  BY <1>4, <1>6 DEF Approve, Grants
<1>7. CASE ApproveRefused(s)
  BY <1>4, <1>7 DEF ApproveRefused, Refused
<1>8. CASE Deny(s) \/ HaltDenies(s)
  BY <1>4, <1>8 DEF Deny, HaltDenies
<1>9. CASE DenyCancels(s) \/ Halt(s)
  BY <1>4, <1>9 DEF DenyCancels, Halt, Writes
<1>10. ASSUME NEW cmd \in Commands, Issue(s, cmd)
       PROVE  steer' \in [Steerers -> SteerType] /\ Refused
  <2>1. [pc |-> "apply", cmd |-> cmd,
         waits |-> cmd = "approve" /\ store.status = "awaiting_approval"] \in SteerType
    BY DEF SteerType
  <2> QED BY <1>1, <1>10, <2>1 DEF Issue, Refused
<1> QED BY <1>5, <1>6, <1>7, <1>8, <1>9, <1>10 DEF SteerStep

LEMMA SteerTypeStep ==
  ASSUME TypeInv, NEW s \in Steerers, SteerStep(s) \/ \E cmd \in Commands : Issue(s, cmd)
  PROVE  TypeInv'
<1>1. steer' \in [Steerers -> SteerType]
  BY SteerShapes
<1>2. CASE Writes
  <2>1. PICK status \in {"paused", "cancelled", "observing"} : WriteStatus(status)
    BY <1>2 DEF Writes
  <2>2. status \in Status
    BY DEF Status, Terminal, LoopStage
  <2> QED BY <1>1, <2>1, <2>2, WriteStatusType DEF WriteStatus, history, SteerType, TypeInv, TypeOK
<1>3. CASE Grants
  <2>1. me' \in [Drivers -> Driver] /\ \A h \in Drivers : Locals(me'[h])
    <3>1. CASE UNCHANGED me
      BY <3>1 DEF TypeInv, TypeOK
    <3>2. ASSUME NEW g \in Resumers, me' = [me EXCEPT ![g] = At("load", NewRun)]
          PROVE  me' \in [Drivers -> Driver] /\ \A h \in Drivers : Locals(me'[h])
      <4>1. g \in Drivers
        BY DEF Drivers
      <4>2. NewRun \in Run
        BY RunLoopAssumption DEF NewRun, Run, Status, Iteration
      <4> QED BY <3>2, <4>1, <4>2, AtType, Moved
    <3> QED BY <1>3, <3>1, <3>2 DEF Grants
  <2> QED BY <1>1, <1>3, <2>1, ResolveType DEF Grants, SteerType, TypeInv, TypeOK
<1>4. CASE DenyPending
  <2>1. CASE Resolve("deny")
    BY <1>1, <1>4, <2>1, ResolveType DEF DenyPending, SteerType, TypeInv, TypeOK
  <2>2. CASE ~Resolve("deny")
    BY <1>1, <1>4, <2>2 DEF DenyPending, SteerType, TypeInv, TypeOK
  <2> QED BY <2>1, <2>2
<1>5. CASE Refused
  BY <1>1, <1>5 DEF Refused, history, SteerType, TypeInv, TypeOK
<1> QED BY <1>2, <1>3, <1>4, <1>5, SteerShapes

LEMMA TypeStep == TypeInv /\ [Next]_vars => TypeInv'
<1> SUFFICES ASSUME TypeInv, [Next]_vars PROVE TypeInv'
  OBVIOUS
<1>1. ASSUME NEW g \in Drivers, Step(g) PROVE TypeInv'
  <2>1. Shapes(g)
    BY <1>1, StepShapes
  <2> QED BY <2>1, WorksType, LeavesType, TakesUpType, RaiseType, AgainType, ResumeType,
             ExecuteType, DeliberateType, Zenon DEF Shapes
<1>2. ASSUME NEW g \in Drivers, CtxEnds(g) PROVE TypeInv'
  BY <1>2 DEF CtxEnds, history, TypeInv, TypeOK
<1>3. ASSUME NEW w \in Workers, WorkerLoad(w) PROVE TypeInv'
  <2>1. w \in Drivers /\ store \in Run /\ me' = [me EXCEPT ![w] = At("start", store)]
    BY <1>3 DEF WorkerLoad, Drivers, TypeInv, TypeOK
  <2> QED BY <1>3, <2>1, AtType, Moved DEF WorkerLoad, history, TypeInv, TypeOK
<1>4. ASSUME NEW w \in Workers, Crash(w) PROVE TypeInv'
  <2>1. w \in Drivers /\ me' = [me EXCEPT ![w] = Off]
    BY <1>4 DEF Crash, Return, Drivers
  <2> QED BY <1>4, <2>1, OffType, Moved DEF Crash, history, TypeInv, TypeOK
<1>5. ASSUME NEW s \in Steerers, SteerStep(s) \/ \E cmd \in Commands : Issue(s, cmd)
      PROVE  TypeInv'
  BY <1>5, SteerTypeStep
<1>6. ASSUME NEW g \in Submitters, PublishPanics(g) PROVE TypeInv'
  BY <1>6, PanicLeaves, LeavesType
<1>7. CASE ServeEnds
  <2>1. me' \in [Drivers -> Driver] /\ \A g \in Drivers : Locals(me'[g])
    BY <1>7, OffType DEF ServeEnds, TypeInv, TypeOK
  <2>2. steer' \in [Steerers -> SteerType]
    BY <1>7 DEF ServeEnds, Idle, SteerType
  <2> QED BY <1>7, <2>1, <2>2 DEF ServeEnds, history, SteerType, TypeInv, TypeOK
<1>8. CASE StoreTurns
  BY <1>8 DEF StoreTurns, history, TypeInv, TypeOK
<1>9. CASE UNCHANGED vars
  BY <1>9 DEF vars, TypeInv, TypeOK
<1> QED BY <1>1, <1>2, <1>3, <1>4, <1>5, <1>6, <1>7, <1>8, <1>9 DEF Next

LEMMA TypeInit == Init => TypeInv
<1> SUFFICES ASSUME Init PROVE TypeInv
  OBVIOUS
<1>1. NewRun \in Run /\ store = NewRun
  BY RunLoopAssumption DEF Init, NewRun, Run, Status, Iteration
<1>2. \A g \in Drivers : me[g] \in Driver /\ Locals(me[g])
  BY <1>1, AtType, OffType DEF Init
<1>3. me \in [Drivers -> Driver]
  BY <1>2 DEF Init
<1>4. steer \in [Steerers -> [pc: {"idle", "apply", "follow"}, cmd: Commands \cup {"none"},
                              waits: BOOLEAN]]
  BY DEF Init, Idle
<1> QED BY <1>1, <1>2, <1>3, <1>4, RunLoopAssumption DEF Init, TypeInv, TypeOK

\* Type correctness, for any number of drivers, workers and steerers.
THEOREM TypeCorrect == Spec => []TypeOK
<1>1. TypeInv => TypeOK
  BY DEF TypeInv
<1> QED BY <1>1, TypeInit, TypeStep, PTL DEF Spec

(***************************************************************************)
(* Who may be in the loop                                                  *)
(***************************************************************************)
\* A run has one token: a driver inside engine.Run, the goroutine of an
\* accepted approval, or the pending approval row that can still start one.
\* Only while a driver parks do its token and the next one overlap.
Token ==
  /\ SingleDriver
  /\ \A g, h \in Drivers : me[g].pc = "load" /\ me[h].pc = "load" => g = h
  /\ \A g, h \in Drivers : me[g].pc = "load" /\ Driving(h) => me[h].pc = "park"
  /\ approval.state = "pending" => \A g \in Drivers : me[g].pc \in {"off", "park"}

\* Why the overlap is harmless: what is pending in the store (p), seen from a
\* driver.  While one parks nothing is pending there yet, so Resume gives up: the
\* decision just made was saved, and a resumed one with it taken out, at the end
\* of deciding, however many writes before that were refused.
PendingFits(g, d, p) ==
  /\ d.pc \in {"load", "unpark"} => g \in Resumers
  /\ d.pc \in Fresh \cup {"unpark"} => d.run.pending = NoDecision
  /\ d.pc \in {"gate", "raise", "park"} => p = NoDecision
  /\ d.pc \in {"start", "top"} /\ d.run.pending # NoDecision =>
       d.run.status = "awaiting_approval" /\ g \in Resumers

StoredPending == \A g \in Drivers : PendingFits(g, me[g], store.pending)

DriverInv == Token /\ StoredPending

\* Whoever is in the loop, other than parking, is the only goroutine of the run.
LEMMA Alone ==
  ASSUME Token, NEW g \in Drivers, Driving(g), me[g].pc # "park"
  PROVE  approval.state # "pending" /\ \A h \in Drivers \ {g} : me[h].pc = "off"
BY DEF Token, SingleDriver, Driving

LEMMA AloneStep ==
  ASSUME DriverInv, NEW g \in Drivers, Driving(g), me[g].pc # "park",
         \A h \in Drivers \ {g} : me'[h] = me[h],
         me'[g].pc # "load", approval'.state = "pending" => me'[g].pc \in {"off", "park"},
         PendingFits(g, me'[g], store'.pending)
  PROVE  DriverInv'
<1>1. \A h \in Drivers \ {g} : me'[h].pc = "off"
  BY Alone DEF DriverInv
<1>2. Token'
  BY <1>1 DEF Token, SingleDriver, Driving
<1>3. \A h \in Drivers \ {g} : PendingFits(h, me'[h], store'.pending)
  BY <1>1 DEF PendingFits, Fresh
<1>4. StoredPending'
  BY <1>3 DEF DriverInv, StoredPending
<1> QED BY <1>2, <1>4 DEF DriverInv

LEMMA WorksAlone ==
  ASSUME TypeInv, DriverInv, NEW g \in Drivers, Works(g)
  PROVE  DriverInv'
<1>1. PICK d \in Driver : WorksAs(g, d)
  BY DEF Works
<1>2. me[g] \in Driver /\ me'[g] = d /\ \A h \in Drivers \ {g} : me'[h] = me[h]
  BY <1>1 DEF WorksAs, TypeInv, TypeOK
<1>3. Driving(g) /\ me[g].pc # "park" /\ d.pc \notin {"load", "park", "off", "start", "unpark"}
  BY <1>1 DEF WorksAs, Flow, Driving, Labels
<1>4. PendingFits(g, me[g], store.pending)
  BY DEF DriverInv, StoredPending
<1>5. PendingFits(g, d, store'.pending)
  <2>1. store'.pending \in {store.pending, me[g].run.pending}
    BY DEF Works, Stored
  <2>2. CASE me[g].pc \in Fresh
    <3>1. d.pc \in Fresh \cup {"fail"} /\ d.pc # "gate" /\ (d.pc = "raise" => me[g].pc = "gate")
      BY <1>1, <2>2 DEF WorksAs, Flow, Fresh
    <3> QED BY <1>1, <1>4, <2>1, <2>2, <3>1 DEF PendingFits, WorksAs, Fresh
  <2>3. CASE me[g].pc = "start"
    <3>1. d.pc \in {"top", "fail"} /\ d.run = me[g].run
      BY <1>1, <2>3 DEF WorksAs, Flow
    <3> QED BY <1>4, <2>1, <2>3, <3>1 DEF PendingFits, Fresh
  <2>4. CASE me[g].pc = "top"
    <3>1. (d.pc = "observe" /\ ~Parked(me[g].run)) \/ d.pc = "fail"
      BY <1>1, <2>4 DEF WorksAs, Flow
    <3> QED BY <1>1, <1>4, <2>1, <2>4, <3>1 DEF PendingFits, WorksAs, Parked, Fresh
  <2>5. CASE me[g].pc = "unpark"
    <3>1. d.pc \in {"act", "skip"}
      BY <1>1, <2>5 DEF WorksAs, Flow
    <3> QED BY <1>1, <1>4, <2>5, <3>1 DEF PendingFits, WorksAs, Fresh
  <2>6. CASE me[g].pc \notin Fresh \cup {"start", "top", "unpark"}
    <3>1. d.pc \in {"fail", "failed"}
      BY <1>1, <2>6 DEF WorksAs, Flow, Fresh, Labels
    <3> QED BY <3>1 DEF PendingFits, Fresh
  <2> QED BY <2>2, <2>3, <2>4, <2>5, <2>6
<1> QED BY <1>2, <1>3, <1>5, AloneStep, Alone DEF Works, Aside, DriverInv

LEMMA LeavesAlone ==
  ASSUME TypeInv, DriverInv, NEW g \in Drivers, Leaves(g)
  PROVE  DriverInv'
<1>1. /\ me'[g].pc = "off" /\ \A h \in Drivers \ {g} : me'[h] = me[h]
      /\ approval' = approval /\ ctxDone' = ctxDone
  BY DEF Leaves, Aside, Off, At, TypeInv, TypeOK
<1>2. Token'
  BY <1>1 DEF DriverInv, Token, SingleDriver, Driving
<1>3. ASSUME NEW h \in Drivers PROVE PendingFits(h, me'[h], store'.pending)
  <2>1. CASE me'[h].pc \in {"off", "load"}
    BY <1>1, <2>1 DEF PendingFits, Fresh, DriverInv, StoredPending
  <2>2. CASE me'[h].pc \notin {"off", "load"}
    <3>1. h # g /\ Driving(h) /\ me[h] = me'[h]
      BY <1>1, <2>2 DEF Driving
    <3>2. me[g].pc = "load"
      BY <3>1 DEF DriverInv, Token, SingleDriver, Driving, Leaves
    <3>3. store' = store
      BY <3>2 DEF Leaves
    <3> QED BY <3>1, <3>3 DEF DriverInv, StoredPending
  <2> QED BY <2>1, <2>2
<1> QED BY <1>1, <1>2, <1>3 DEF DriverInv, StoredPending

LEMMA TakesUpAlone ==
  ASSUME TypeInv, DriverInv, NEW g \in Drivers, TakesUp(g)
  PROVE  DriverInv'
<1>1. me[g] \in Driver /\ me[g].run \in Run /\ me[g].pc = "top"
  BY DEF TakesUp, TypeInv, TypeOK, Driver
<1>2. /\ me'[g].pc = "unpark" /\ me'[g].run.pending = NoDecision
      /\ me'[g].run.status = me[g].run.status /\ \A h \in Drivers \ {g} : me'[h] = me[h]
  BY <1>1 DEF TakesUp, TypeInv, TypeOK, Driver, Run
<1>3. g \in Resumers /\ me[g].run.status = "awaiting_approval"
  BY <1>1 DEF TakesUp, Parked, DriverInv, StoredPending, PendingFits
<1>4. PendingFits(g, me'[g], store'.pending)
  BY <1>2, <1>3 DEF PendingFits, Fresh
<1>5. Driving(g) /\ approval' = approval /\ ctxDone' = ctxDone /\ approval.state # "pending"
  BY <1>1 DEF Driving, TakesUp
<1> QED BY <1>1, <1>2, <1>4, <1>5, AloneStep

LEMMA RaiseAlone ==
  ASSUME TypeInv, DriverInv, NEW g \in Drivers, Raise(g)
  PROVE  DriverInv'
<1>1. me[g] \in Driver /\ me[g].pc = "raise" /\ Driving(g)
  BY DEF Raise, Driving, TypeInv, TypeOK
<1>2. me'[g].pc = "park" /\ \A h \in Drivers \ {g} : me'[h] = me[h]
  BY <1>1 DEF Raise, TypeInv, TypeOK, Driver
<1>3. store.pending = NoDecision
  BY <1>1 DEF DriverInv, StoredPending, PendingFits
<1>4. PendingFits(g, me'[g], store'.pending)
  BY <1>2, <1>3 DEF PendingFits, Fresh, Raise
<1> QED BY <1>1, <1>2, <1>4, AloneStep DEF Raise

LEMMA AgainAlone ==
  ASSUME TypeInv, DriverInv, NEW g \in Drivers, Again(g)
  PROVE  DriverInv'
<1>1. /\ me[g] \in Driver /\ me[g].run \in Run /\ store \in Run
      /\ me[g].pc = "again" /\ Driving(g)
  BY DEF Again, Driving, TypeInv, TypeOK, Driver
<1>2. me[g].run.pending = NoDecision
  BY <1>1 DEF DriverInv, StoredPending, PendingFits, Fresh
<1>3. /\ me'[g].pc \in {"top", "fail"} /\ me'[g].run.pending = NoDecision
      /\ \A h \in Drivers \ {g} : me'[h] = me[h]
  BY <1>1, <1>2 DEF Again, At, TypeInv, TypeOK, Run
<1>4. approval' = approval
  BY DEF Again
<1>5. PendingFits(g, me'[g], store'.pending)
  BY <1>3 DEF PendingFits, Fresh
<1> QED BY <1>1, <1>3, <1>4, <1>5, AloneStep, Alone DEF DriverInv

\* A resume goroutine that finds something pending is alone: a driver that
\* parks has not saved its decision yet.
LEMMA ResumeAlone ==
  ASSUME TypeInv, DriverInv, NEW g \in Drivers, Resume(g), StoreOk(g), Parked(store)
  PROVE  DriverInv'
<1>1. me[g].pc = "load" /\ g \in Resumers
  BY DEF Resume, DriverInv, StoredPending, PendingFits
<1>2. ASSUME NEW h \in Drivers \ {g} PROVE me[h].pc = "off"
  <2>1. ~Driving(h)
    <3> SUFFICES ASSUME Driving(h) PROVE FALSE
      OBVIOUS
    <3>1. me[h].pc = "park"
      BY <1>1 DEF DriverInv, Token
    <3>2. store.pending = NoDecision
      BY <3>1 DEF DriverInv, StoredPending, PendingFits
    <3> QED BY <3>2 DEF Parked
  <2> QED BY <1>1, <2>1 DEF Driving, DriverInv, Token
<1>3. /\ me'[g].pc = "start" /\ me'[g].run = store
      /\ \A h \in Drivers \ {g} : me'[h] = me[h]
  BY DEF Resume, At, TypeInv, TypeOK
<1>4. approval' = approval /\ ctxDone' = ctxDone /\ store' = store
      /\ approval.state # "pending"
  BY <1>1 DEF Resume, DriverInv, Token
<1>5. Token'
  BY <1>2, <1>3, <1>4 DEF Token, SingleDriver, Driving
<1>6. PendingFits(g, me'[g], store'.pending)
  BY <1>1, <1>3 DEF PendingFits, Fresh, Parked
<1>7. \A h \in Drivers \ {g} : PendingFits(h, me'[h], store'.pending)
  BY <1>2, <1>3 DEF PendingFits, Fresh
<1> QED BY <1>4, <1>5, <1>6, <1>7 DEF DriverInv, StoredPending

LEMMA ExecuteAlone ==
  ASSUME TypeInv, DriverInv, NEW g \in Drivers, NEW answer \in Answers, Execute(g, answer)
  PROVE  DriverInv'
<1>1. me[g] \in Driver /\ me[g].pc = "execute" /\ Driving(g)
  BY DEF Execute, Driving, TypeInv, TypeOK
<1>2. /\ me'[g].pc \in {"execute", "acted"} /\ me'[g].run = me[g].run
      /\ \A h \in Drivers \ {g} : me'[h] = me[h]
  BY <1>1 DEF Execute, TypeInv, TypeOK, Driver
<1>3. store' = store /\ approval' = approval /\ ctxDone' = ctxDone
  BY DEF Execute
<1>4. PendingFits(g, me'[g], store'.pending)
  BY <1>1, <1>2, <1>3 DEF PendingFits, Fresh, DriverInv, StoredPending
<1> QED BY <1>1, <1>2, <1>3, <1>4, AloneStep, Alone DEF DriverInv

LEMMA DeliberateAlone ==
  ASSUME TypeInv, DriverInv, NEW g \in Drivers, NEW ok \in BOOLEAN, NEW gated \in BOOLEAN,
         NEW n \in 0..MaxActions, Deliberate(g, ok, n, gated)
  PROVE  DriverInv'
<1> DEFINE c == [id |-> decided + 1, actions |-> n, gated |-> gated]
           r == IF ok THEN [me[g].run EXCEPT !.steps = @ \cup {<<me[g].run.iteration, "deciding">>}]
                      ELSE me[g].run
           then == IF RequiresApproval(c) THEN "gate"
                   ELSE IF n > 0 /\ ~ReadOnly THEN "act" ELSE "skip"
           label == IF ok /\ StoreOk(g) THEN then ELSE "fail"
<1>1. me[g] \in Driver /\ me[g].run \in Run /\ me[g].pc = "deliberate" /\ Driving(g)
  BY DEF Deliberate, Driving, TypeInv, TypeOK, Driver
<1>2. r.pending = me[g].run.pending
  BY <1>1 DEF Run
<1>3. me' = [me EXCEPT ![g].run = r, ![g].decision = c, ![g].pc = label] /\ Save(g, r)
  BY DEF Deliberate
<1>4. label \in {"gate", "act", "skip", "fail"}
  OBVIOUS
<1>5. approval' = approval /\ ctxDone' = ctxDone
  BY DEF Deliberate
<1> HIDE DEF c, r, label
<1>6. /\ me'[g].pc = label /\ me'[g].run = r /\ \A h \in Drivers \ {g} : me'[h] = me[h]
  BY <1>1, <1>3 DEF TypeInv, TypeOK, Driver
<1>7. me[g].run.pending = NoDecision
  BY <1>1 DEF PendingFits, Fresh, DriverInv, StoredPending
<1>8. label # "fail" => store'.pending = NoDecision
  <2>1. Valid(r)
    BY <1>1 DEF Valid, Terminal, TypeInv, Locals, r, Run
  <2>2. label # "fail" => StoreOk(g)
    BY DEF label
  <2> QED BY <1>2, <1>3, <1>7, <2>1, <2>2 DEF Save
<1>9. PendingFits(g, me'[g], store'.pending)
  BY <1>2, <1>4, <1>6, <1>7, <1>8 DEF PendingFits, Fresh
<1> QED BY <1>1, <1>4, <1>5, <1>6, <1>9, AloneStep, Alone DEF DriverInv

\* An approval starts a goroutine only when it takes away the pending row.
LEMMA SteerAlone ==
  ASSUME TypeInv, DriverInv, NEW s \in Steerers,
         SteerStep(s) \/ \E cmd \in Commands : Issue(s, cmd)
  PROVE  DriverInv'
<1>1. CASE Writes
  <2>1. PICK status \in {"paused", "cancelled", "observing"} : WriteStatus(status)
    BY <1>1 DEF Writes
  <2>2. status \in Status
    BY DEF Status, Terminal, LoopStage
  <2>3. store'.pending = store.pending
    BY <2>1, <2>2, WriteStatusType
  <2> QED BY <2>1, <2>3 DEF WriteStatus, DriverInv, Token, SingleDriver, Driving, StoredPending
<1>2. CASE Grants
  <2>1. /\ approval.state = "pending" /\ approval'.state = "approve"
        /\ store' = store /\ ctxDone' = ctxDone
    BY <1>2, ResolveType DEF Grants, Resolve, Resolvable
  <2>2. CASE UNCHANGED me
    BY <2>1, <2>2 DEF DriverInv, Token, SingleDriver, Driving, StoredPending
  <2>3. ASSUME NEW g \in Resumers, me[g].pc = "off", me' = [me EXCEPT ![g] = At("load", NewRun)]
        PROVE  DriverInv'
    <3>1. /\ me'[g].pc = "load" /\ \A h \in Drivers \ {g} : me'[h] = me[h]
          /\ g \in Drivers
      BY <2>3 DEF At, Drivers, TypeInv, TypeOK
    <3>2. \A h \in Drivers : me[h].pc \in {"off", "park"}
      BY <2>1 DEF DriverInv, Token
    <3>3. Token'
      BY <2>1, <3>1, <3>2 DEF DriverInv, Token, SingleDriver, Driving
    <3>4. PendingFits(g, me'[g], store'.pending)
      BY <3>1 DEF PendingFits, Fresh
    <3> QED BY <2>1, <3>1, <3>3, <3>4 DEF DriverInv, StoredPending
  <2> QED BY <1>2, <2>2, <2>3 DEF Grants
<1>3. CASE DenyPending
  <2>1. /\ store' = store /\ me' = me /\ ctxDone' = ctxDone
        /\ approval'.state = "pending" => approval.state = "pending"
    BY <1>3, ResolveType DEF DenyPending
  <2> QED BY <2>1 DEF DriverInv, Token, SingleDriver, Driving, StoredPending
<1>4. CASE Refused
  BY <1>4 DEF Refused, DriverInv, Token, SingleDriver, Driving, StoredPending
<1> QED BY <1>1, <1>2, <1>3, <1>4, SteerShapes

LEMMA DriverStep ==
  ASSUME Workers = {}
  PROVE  TypeInv /\ DriverInv /\ [Next]_vars => DriverInv'
<1> SUFFICES ASSUME TypeInv, DriverInv, [Next]_vars PROVE DriverInv'
  OBVIOUS
<1>1. ASSUME NEW g \in Drivers, Step(g) PROVE DriverInv'
  <2>1. Shapes(g)
    BY <1>1, StepShapes
  <2> QED BY <2>1, WorksAlone, LeavesAlone, TakesUpAlone, RaiseAlone, AgainAlone, ResumeAlone,
             ExecuteAlone, DeliberateAlone, Zenon DEF Shapes
<1>2. ASSUME NEW g \in Drivers, CtxEnds(g) PROVE DriverInv'
  BY <1>2 DEF CtxEnds, history, DriverInv, Token, SingleDriver, Driving, StoredPending
<1>3. ASSUME NEW s \in Steerers, SteerStep(s) \/ \E cmd \in Commands : Issue(s, cmd)
      PROVE  DriverInv'
  BY <1>3, SteerAlone
<1>4. ASSUME NEW g \in Submitters, PublishPanics(g) PROVE DriverInv'
  BY <1>4, PanicLeaves, LeavesAlone
<1>5. CASE ServeEnds
  <2>1. \A g \in Drivers : me'[g].pc = "off"
    BY <1>5 DEF ServeEnds, Off, At
  <2> QED BY <2>1 DEF DriverInv, Token, SingleDriver, Driving, StoredPending, PendingFits, Fresh
<1>6. CASE StoreTurns
  BY <1>6 DEF StoreTurns, DriverInv, Token, SingleDriver, Driving, StoredPending
<1>7. CASE UNCHANGED vars
  BY <1>7 DEF vars, DriverInv, Token, SingleDriver, Driving, StoredPending
<1> QED BY <1>1, <1>2, <1>3, <1>4, <1>5, <1>6, <1>7 DEF Next

LEMMA DriverInit == Init => DriverInv
<1> SUFFICES ASSUME Init PROVE DriverInv
  OBVIOUS
<1>1. \A g \in Drivers : /\ me[g].pc \in {"off", "start"} /\ me[g].run.pending = NoDecision
                         /\ me[g].pc = "start" => g \in Submitters
  BY DEF Init, Off, At, NewRun
<1>2. store.pending = NoDecision /\ approval.state = "none"
  BY DEF Init, NewRun
<1>3. Token
  BY <1>1, <1>2, RunLoopAssumption DEF Token, SingleDriver, Driving
<1>4. \A g \in Drivers : PendingFits(g, me[g], store.pending)
  BY <1>1 DEF PendingFits, Fresh
<1> QED BY <1>3, <1>4 DEF DriverInv, StoredPending

\* The engine is single-threaded per run when only Submit and approvals start
\* it: the claim of the comment on Engine, for any number of steerers.
THEOREM OneDriver ==
  ASSUME Workers = {}
  PROVE  Spec => []SingleDriver
<1>1. TypeInv /\ DriverInv /\ [Next]_vars => (TypeInv /\ DriverInv)'
  BY TypeStep, DriverStep
<1>2. DriverInv => SingleDriver
  BY DEF DriverInv, Token
<1> QED BY <1>1, <1>2, TypeInit, DriverInit, PTL DEF Spec

(***************************************************************************)
(* What the gate lets through                                              *)
(***************************************************************************)
Unused(d) == verdicts[d] = {} /\ ~Called(d)
Granted(d) == verdicts[d] = {"approve"} /\ ~Called(d)

\* Whatever names a decision names one that was made.
Bounded ==
  /\ approval.id <= decided
  /\ store.pending # NoDecision => store.pending.id <= decided
  /\ \A g \in Drivers :
       /\ me[g].decision # NoDecision => me[g].decision.id <= decided
       /\ me[g].run.pending # NoDecision => me[g].run.pending.id <= decided

\* Somebody may still come for the decision that is pending in the store.
Awaited == approval.state = "pending" \/ \E g \in Drivers : me[g].pc = "load"

\* What has become of the decisions.  What may still be fetched is what the
\* approval row is about.
Ledger ==
  /\ \A d \in 1..MaxDecisions : d > decided => Unused(d)
  /\ approval.state = "pending" => approval.id \in 1..MaxDecisions /\ Unused(approval.id)
  /\ \A d \in 1..MaxDecisions : Called(d) => "deny" \notin verdicts[d]
  /\ ExecutedOnce
  /\ Awaited /\ store.pending # NoDecision => store.pending.id = approval.id

\* What may be said of the decision a driver has in hand, or goes to fetch.
Cleared(g) ==
  /\ me[g].pc = "load" => approval.id \in 1..MaxDecisions /\ Granted(approval.id)
  /\ me[g].pc \in {"start", "top"} /\ me[g].run.pending # NoDecision
       => Granted(me[g].run.pending.id)
  /\ me[g].pc = "unpark" => Granted(me[g].decision.id)
  /\ me[g].pc \in {"gate", "raise"} => Unused(me[g].decision.id)
  /\ me[g].pc \in {"act", "execute"} =>
       /\ "deny" \notin verdicts[me[g].decision.id]
       /\ GateEnabled /\ RequiresApproval(me[g].decision)
            => "approve" \in verdicts[me[g].decision.id]
       /\ \A i \in 1..MaxActions :
            i > Len(me[g].results) => calls[<<me[g].decision.id, i>>] = 0
  /\ Awaited /\ me[g].pc = "park" => me[g].run.pending.id = approval.id

GateInv == Bounded /\ Ledger /\ \A g \in Drivers : Cleared(g)

(***************************************************************************)
(* ... is an invariant                                                     *)
(***************************************************************************)
LEMMA BoundedSteps ==
  ASSUME TypeInv, Bounded, NEW g \in Drivers, Shapes(g)
  PROVE  Bounded'
<1>1. /\ me[g] \in Driver /\ me[g].run \in Run /\ store \in Run
      /\ me \in [Drivers -> Driver] /\ decided \in Nat
  BY RunLoopAssumption DEF TypeInv, TypeOK, Driver
<1>2. CASE Works(g)
  <2>1. PICK d \in Driver : WorksAs(g, d)
    BY <1>2 DEF Works
  <2>2. d.decision = me[g].decision /\ d.run.pending = me[g].run.pending
        /\ me' = [me EXCEPT ![g] = d]
    BY <2>1 DEF WorksAs
  <2> QED BY <1>1, <1>2, <2>2 DEF Works, Stored, Aside, Bounded
<1>3. CASE Leaves(g)
  BY <1>1, <1>3 DEF Leaves, Stored, Aside, Bounded, Off, At, NewRun
<1>4. CASE TakesUp(g)
  <2>1. /\ me'[g].decision = me[g].run.pending /\ me'[g].run.pending = NoDecision
        /\ \A h \in Drivers \ {g} : me'[h] = me[h]
    BY <1>1, <1>4 DEF TakesUp, Driver, Run
  <2> QED BY <1>4, <2>1 DEF TakesUp, Bounded
<1>5. CASE Raise(g)
  <2>1. /\ me'[g].run.pending = me[g].decision /\ me'[g].decision = me[g].decision
        /\ \A h \in Drivers \ {g} : me'[h] = me[h]
    BY <1>1, <1>5 DEF Raise, Driver, Run
  <2>2. me[g].decision # NoDecision
    BY <1>5, RunLoopAssumption DEF Raise, TypeInv, Locals, Decided
  <2>3. approval'.id \in {approval.id, me[g].decision.id}
    BY <1>5 DEF Raise
  <2>4. me[g].decision.id <= decided /\ approval.id <= decided
    BY <2>2 DEF Bounded
  <2>5. decided' = decided /\ store' = store
    BY <1>5 DEF Raise
  <2> QED BY <2>1, <2>2, <2>3, <2>4, <2>5 DEF Bounded
<1>6. CASE Again(g)
  <2>1. /\ me'[g].run.pending = me[g].run.pending /\ me'[g].decision = NoDecision
        /\ \A h \in Drivers \ {g} : me'[h] = me[h]
    BY <1>1, <1>6 DEF Again, At, Run
  <2>2. store'.pending = store.pending
    BY <1>1, <1>6 DEF Again, Run
  <2> QED BY <1>6, <2>1, <2>2 DEF Again, Bounded
<1>7. CASE Resume(g) /\ StoreOk(g) /\ Parked(store)
  <2>1. /\ me'[g].run = store /\ me'[g].decision = NoDecision
        /\ \A h \in Drivers \ {g} : me'[h] = me[h]
    BY <1>1, <1>7 DEF Resume, At
  <2> QED BY <1>7, <2>1 DEF Resume, Bounded
<1>8. ASSUME NEW answer \in Answers, Execute(g, answer) PROVE Bounded'
  <2>1. /\ me'[g].run = me[g].run /\ me'[g].decision = me[g].decision
        /\ \A h \in Drivers \ {g} : me'[h] = me[h]
    BY <1>1, <1>8 DEF Execute, Driver
  <2>2. UNCHANGED <<store, approval, decided>>
    BY <1>8 DEF Execute
  <2> QED BY <2>1, <2>2 DEF Bounded
<1>9. ASSUME NEW ok \in BOOLEAN, NEW gated \in BOOLEAN, NEW n \in 0..MaxActions,
             Deliberate(g, ok, n, gated)
      PROVE  Bounded'
  <2> DEFINE r == IF ok THEN [me[g].run EXCEPT !.steps = @ \cup {<<me[g].run.iteration, "deciding">>}]
                        ELSE me[g].run
  <2>1. r.pending = me[g].run.pending
    BY <1>1 DEF Run
  <2>2. Save(g, r) /\ decided' = decided + 1 /\ approval' = approval
    BY <1>9 DEF Deliberate
  <2>3. me'[g].run = r /\ me'[g].decision.id = decided + 1
        /\ \A h \in Drivers \ {g} : me'[h] = me[h]
    BY <1>1, <1>9 DEF Deliberate, Driver
  <2> HIDE DEF r
  <2>4. store'.pending \in {store.pending, me[g].run.pending}
    BY <2>1, <2>2 DEF Save
  <2>5. approval.id \in Nat /\ \A d \in Decision : d.id \in Nat
    BY RunLoopAssumption DEF TypeInv, TypeOK, Decision
  <2>6. ASSUME NEW p \in Decision \cup {NoDecision}, p # NoDecision => p.id <= decided
        PROVE  p # NoDecision => p.id <= decided'
    BY <1>1, <2>2, <2>5, <2>6
  <2>7. approval.id <= decided'
    BY <1>1, <2>2, <2>5 DEF Bounded
  <2>8. store'.pending # NoDecision => store'.pending.id <= decided'
    BY <1>1, <2>4, <2>6 DEF Bounded, Run
  <2>9. ASSUME NEW h \in Drivers
        PROVE  /\ me'[h].decision # NoDecision => me'[h].decision.id <= decided'
               /\ me'[h].run.pending # NoDecision => me'[h].run.pending.id <= decided'
    <3>1. me[h].decision \in Decision \cup {NoDecision}
          /\ me[h].run.pending \in Decision \cup {NoDecision}
      BY <1>1 DEF Driver, Run
    <3>2. CASE h = g
      BY <1>1, <2>1, <2>2, <2>3, <2>6, <3>1, <3>2 DEF Bounded
    <3>3. CASE h # g
      BY <2>3, <2>6, <3>1, <3>3 DEF Bounded
    <3> QED BY <3>2, <3>3
  <2> QED BY <2>2, <2>7, <2>8, <2>9 DEF Bounded
<1> QED BY <1>2, <1>3, <1>4, <1>5, <1>6, <1>7, <1>8, <1>9, Zenon DEF Shapes

\* Nobody is awaited while a goroutine is in the loop, other than parking.
LEMMA NobodyAwaited ==
  ASSUME Token, NEW g \in Drivers, Driving(g), me[g].pc # "park"
  PROVE  ~Awaited
BY Alone DEF Awaited, Driving

\* A goroutine keeps what it has when decisions and their approvals stand still.
LEMMA ClearedFrame ==
  ASSUME NEW h \in Drivers, Cleared(h), me'[h] = me[h], approval'.id = approval.id,
         UNCHANGED <<calls, verdicts>>, Awaited' => Awaited
  PROVE  Cleared(h)'
BY DEF Cleared, Granted, Unused, Called

LEMMA OffCleared ==
  ASSUME NEW h \in Drivers, me'[h].pc = "off"
  PROVE  Cleared(h)'
BY DEF Cleared

LEMMA LedgerFrame ==
  ASSUME Ledger, UNCHANGED <<approval, decided, calls, verdicts>>,
         Awaited' /\ store'.pending # NoDecision => store'.pending.id = approval.id
  PROVE  Ledger'
BY DEF Ledger, Unused, Called, ExecutedOnce

LEMMA WorksCleared ==
  ASSUME TypeInv, DriverInv, Ledger, \A h \in Drivers : Cleared(h), NEW g \in Drivers, Works(g)
  PROVE  Ledger' /\ \A h \in Drivers : Cleared(h)'
<1>1. PICK d \in Driver : WorksAs(g, d)
  BY DEF Works
<1>2. /\ me'[g] = d /\ \A h \in Drivers \ {g} : me'[h] = me[h]
      /\ d.run.pending = me[g].run.pending /\ d.decision = me[g].decision
      /\ d.results = me[g].results
  BY <1>1 DEF WorksAs, TypeInv, TypeOK
<1>3. Driving(g) /\ me[g].pc # "park" /\ d.pc \notin {"load", "start", "unpark", "park", "off"}
  BY <1>1 DEF WorksAs, Flow, Driving, Labels
<1>4. UNCHANGED <<approval, decided, calls, verdicts>>
  BY DEF Works, Aside
<1>5. ~Awaited'
  BY <1>2, <1>3, <1>4, NobodyAwaited DEF Awaited, DriverInv
<1>6. Ledger'
  BY <1>4, <1>5, LedgerFrame
<1>7. Cleared(g)'
  <2>1. d.pc = "top" => me[g].pc = "start"
    BY <1>1 DEF WorksAs, Flow
  <2>2. d.pc = "raise" => me[g].pc = "gate"
    BY <1>1 DEF WorksAs, Flow
  <2>3. d.pc # "gate"
    BY <1>1 DEF WorksAs, Flow
  <2>4. CASE d.pc \in {"act", "execute"}
    <3>1. \/ me[g].pc = "act"
          \/ me[g].pc = "unpark" /\ Granted(me[g].decision.id)
          \/ me[g].pc = "gate" /\ ~GateEnabled /\ Unused(me[g].decision.id)
      BY <1>1, <2>4 DEF WorksAs, Flow, Cleared
    <3>2. me[g].pc # "act" =>
             /\ "deny" \notin verdicts[me[g].decision.id]
             /\ GateEnabled => "approve" \in verdicts[me[g].decision.id]
             /\ \A i \in 1..MaxActions : calls[<<me[g].decision.id, i>>] = 0
      <4> HAVE me[g].pc # "act"
      <4>1. ASSUME NEW i \in 1..MaxActions PROVE calls[<<me[g].decision.id, i>>] = 0
        <5>1. me[g].decision \in Decision
          BY <3>1 DEF TypeInv, Locals, Decided
        <5>2. <<me[g].decision.id, i>> \in ActionIds
          BY <5>1 DEF Decision, ActionIds
        <5>3. calls[<<me[g].decision.id, i>>] \in 0..2
          BY <5>2 DEF TypeInv, TypeOK
        <5>4. ~(calls[<<me[g].decision.id, i>>] > 0)
          BY <3>1 DEF Granted, Unused, Called
        <5> QED BY <5>3, <5>4
      <4> QED BY <3>1, <4>1 DEF Granted, Unused
    <3>3. /\ "deny" \notin verdicts[d.decision.id]
          /\ GateEnabled /\ RequiresApproval(d.decision) => "approve" \in verdicts[d.decision.id]
          /\ \A i \in 1..MaxActions : i > Len(d.results) => calls[<<d.decision.id, i>>] = 0
      BY <1>2, <3>2 DEF Cleared
    <3>4. d.pc \notin {"load", "start", "top", "unpark", "gate", "raise", "park"}
      BY <2>4
    <3> QED BY <1>2, <1>4, <1>5, <2>4, <3>3, <3>4 DEF Cleared, RequiresApproval
  <2>5. CASE d.pc \notin {"act", "execute"}
    BY <1>2, <1>3, <1>4, <1>5, <2>1, <2>2, <2>3, <2>5 DEF Cleared, Granted, Unused, Called
  <2> QED BY <2>4, <2>5
<1> QED BY <1>2, <1>4, <1>5, <1>6, <1>7, ClearedFrame

LEMMA LeavesCleared ==
  ASSUME TypeInv, DriverInv, Ledger, \A h \in Drivers : Cleared(h), NEW g \in Drivers, Leaves(g)
  PROVE  Ledger' /\ \A h \in Drivers : Cleared(h)'
<1>1. /\ me'[g].pc = "off" /\ \A h \in Drivers \ {g} : me'[h] = me[h]
  BY DEF Leaves, Off, At, TypeInv, TypeOK
<1>2. UNCHANGED <<approval, decided, calls, verdicts>>
  BY DEF Leaves, Aside
<1>3. Awaited' => Awaited
  BY <1>1, <1>2 DEF Awaited
<1>4. Awaited /\ store'.pending # NoDecision => store'.pending.id = approval.id
  <2>1. CASE store' = store
    BY <2>1 DEF Ledger
  <2>2. CASE store' # store /\ Awaited
    <3>1. Driving(g) /\ store'.pending \in {store.pending, me[g].run.pending}
      BY <2>2 DEF Leaves, Stored, Driving
    <3>2. me[g].pc = "park"
      BY <2>2, <3>1, NobodyAwaited DEF DriverInv
    <3> QED BY <2>2, <3>1, <3>2 DEF Ledger, Cleared
  <2> QED BY <2>1, <2>2
<1> QED BY <1>1, <1>2, <1>3, <1>4, LedgerFrame, ClearedFrame, OffCleared

LEMMA TakesUpCleared ==
  ASSUME TypeInv, DriverInv, Ledger, \A h \in Drivers : Cleared(h), NEW g \in Drivers, TakesUp(g)
  PROVE  Ledger' /\ \A h \in Drivers : Cleared(h)'
<1>1. me[g] \in Driver /\ me[g].run \in Run /\ me[g].pc = "top" /\ me[g].run.pending # NoDecision
  BY DEF TakesUp, Parked, TypeInv, TypeOK, Driver
<1>2. /\ me'[g].pc = "unpark" /\ me'[g].decision = me[g].run.pending
      /\ me'[g].run.pending = NoDecision /\ \A h \in Drivers \ {g} : me'[h] = me[h]
  BY <1>1 DEF TakesUp, TypeInv, TypeOK, Driver, Run
<1>3. UNCHANGED <<store, approval, decided, calls, verdicts>> /\ (Awaited' => Awaited)
  BY <1>2 DEF TakesUp, history, Awaited
<1>4. Ledger'
  BY <1>3, LedgerFrame DEF Ledger
<1>5. Granted(me'[g].decision.id)
  BY <1>1, <1>2 DEF Cleared
<1>6. Cleared(g)'
  BY <1>2, <1>3, <1>5 DEF Cleared, Granted, Called
<1> QED BY <1>2, <1>3, <1>4, <1>6, ClearedFrame

\* The row raised is about a decision nobody has ruled on or executed.
LEMMA RaiseCleared ==
  ASSUME TypeInv, DriverInv, Ledger, \A h \in Drivers : Cleared(h),
         NEW g \in Drivers, Raise(g)
  PROVE  Ledger' /\ \A h \in Drivers : Cleared(h)'
<1>1. me[g] \in Driver /\ me[g].run \in Run /\ me[g].pc = "raise" /\ Driving(g)
  BY DEF Raise, Driving, TypeInv, TypeOK, Driver
<1>2. /\ me'[g].pc = "park" /\ me'[g].run.pending = me[g].decision
      /\ \A h \in Drivers \ {g} : me'[h] = me[h]
  BY <1>1 DEF Raise, TypeInv, TypeOK, Driver, Run
<1>3. \A h \in Drivers \ {g} : me'[h].pc = "off"
  BY <1>1, <1>2, Alone DEF DriverInv
<1>4. store' = store /\ store.pending = NoDecision /\ ~Awaited
  BY <1>1, NobodyAwaited DEF Raise, DriverInv, StoredPending, PendingFits
<1>5. /\ UNCHANGED <<decided, calls, verdicts>>
      /\ approval' = IF StoreOk(g) THEN [state |-> "pending", id |-> me[g].decision.id]
                     ELSE approval
  BY DEF Raise, history
<1>6. me[g].decision.id \in 1..MaxDecisions /\ Unused(me[g].decision.id)
  BY <1>1 DEF TypeInv, Locals, Decided, Decision, Cleared
<1>7. Ledger'
  BY <1>4, <1>5, <1>6 DEF Ledger, Unused, Called, ExecutedOnce
<1>8. Cleared(g)'
  <2>1. Awaited' => approval'.id = me[g].decision.id
    BY <1>2, <1>3, <1>4, <1>5 DEF Awaited
  <2> QED BY <1>2, <2>1 DEF Cleared
<1> QED BY <1>3, <1>7, <1>8, OffCleared

LEMMA AgainCleared ==
  ASSUME TypeInv, DriverInv, Ledger, \A h \in Drivers : Cleared(h),
         NEW g \in Drivers, Again(g)
  PROVE  Ledger' /\ \A h \in Drivers : Cleared(h)'
<1>1. /\ me[g] \in Driver /\ me[g].run \in Run /\ store \in Run
      /\ me[g].pc = "again"
  BY DEF Again, TypeInv, TypeOK, Driver
<1>2. me[g].run.pending = NoDecision
  BY <1>1 DEF DriverInv, StoredPending, PendingFits, Fresh
<1>3. /\ me'[g].pc \in {"top", "fail"} /\ me'[g].run.pending = NoDecision
      /\ \A h \in Drivers \ {g} : me'[h] = me[h]
  BY <1>1, <1>2 DEF Again, At, TypeInv, TypeOK, Run
<1>4. /\ UNCHANGED <<approval, decided, calls, verdicts>> /\ store'.pending = store.pending
      /\ Awaited' => Awaited
  BY <1>1, <1>3 DEF Again, history, Run, Awaited
<1>5. Ledger'
  BY <1>4, LedgerFrame DEF Ledger
<1>6. Cleared(g)'
  BY <1>3 DEF Cleared
<1> QED BY <1>3, <1>4, <1>5, <1>6, ClearedFrame

\* What Resume fetches is the decision whose approval started it.
LEMMA ResumeCleared ==
  ASSUME TypeInv, Ledger, \A h \in Drivers : Cleared(h),
         NEW g \in Drivers, Resume(g), StoreOk(g), Parked(store)
  PROVE  Ledger' /\ \A h \in Drivers : Cleared(h)'
<1>1. /\ me'[g].pc = "start" /\ me'[g].run = store
      /\ \A h \in Drivers \ {g} : me'[h] = me[h] /\ me[g].pc = "load"
  BY DEF Resume, At, TypeInv, TypeOK
<1>2. UNCHANGED <<store, approval, decided, calls, verdicts>> /\ Awaited /\ (Awaited' => Awaited)
  BY <1>1 DEF Resume, history, Awaited
<1>3. Ledger'
  BY <1>2, LedgerFrame DEF Ledger
<1>4. store.pending.id = approval.id /\ Granted(approval.id)
  BY <1>2 DEF Ledger, Parked, Cleared, Resume
<1>5. Cleared(g)'
  BY <1>1, <1>2, <1>4 DEF Cleared, Granted, Called
<1> QED BY <1>1, <1>2, <1>3, <1>5, ClearedFrame

\* Praxis is called for the next action of a cleared decision, which has not
\* been called for before.
LEMMA ExecuteCleared ==
  ASSUME TypeInv, DriverInv, Bounded, Ledger, \A h \in Drivers : Cleared(h),
         NEW g \in Drivers, NEW answer \in Answers, Execute(g, answer)
  PROVE  Ledger' /\ \A h \in Drivers : Cleared(h)'
<1> DEFINE c == me[g].decision
           n == Len(me[g].results) + 1
           a == <<c.id, n>>
<1>1. me[g] \in Driver /\ me[g].pc = "execute" /\ Driving(g)
  BY DEF Execute, Driving, TypeInv, TypeOK
<1>2. /\ c \in Decision /\ Len(me[g].results) < c.actions
      /\ me[g].results \in Results /\ Len(me[g].results) \in Nat
  BY <1>1 DEF TypeInv, Locals, Decided, Driver, Results
<1>3. a \in ActionIds /\ c.id \in 1..MaxDecisions /\ n \in 1..MaxActions
  <2>1. c.id \in 1..MaxDecisions /\ c.actions \in 0..MaxActions
    BY <1>2 DEF Decision
  <2>2. n \in 1..MaxActions
    BY <1>2, <2>1, RunLoopAssumption
  <2> QED BY <2>1, <2>2 DEF ActionIds
<1>4. calls[a] = 0
  BY <1>1, <1>2, <1>3 DEF Cleared
<1>5. calls' = [calls EXCEPT ![a] = 1]
  <2>1. calls' = [calls EXCEPT ![a] = IF calls[a] < 2 THEN calls[a] + 1 ELSE calls[a]]
    BY DEF Execute
  <2> HIDE DEF a
  <2> QED BY <1>4, <2>1
<1>6. UNCHANGED <<store, approval, ctxDone, storeUp, decided, verdicts>>
  BY DEF Execute
<1>7. /\ me'[g].pc \in {"execute", "acted"} /\ me'[g].run = me[g].run /\ me'[g].decision = c
      /\ \A h \in Drivers \ {g} : me'[h] = me[h]
  BY <1>1 DEF Execute, TypeInv, TypeOK, Driver
<1>8. /\ approval.state # "pending" /\ \A h \in Drivers \ {g} : me'[h].pc = "off"
      /\ ~Awaited'
  BY <1>1, <1>6, <1>7, Alone DEF DriverInv, Awaited
<1>9. c.id <= decided
  BY <1>2, RunLoopAssumption DEF Bounded
<1>10. \A d \in 1..MaxDecisions, i \in 1..MaxActions :
          calls'[<<d, i>>] = IF d = c.id /\ i = n THEN 1 ELSE calls[<<d, i>>]
  BY <1>3, <1>5 DEF ActionIds, TypeInv, TypeOK
<1>11. \A d \in 1..MaxDecisions : d # c.id => Called(d)' = Called(d)
  BY <1>10 DEF Called
<1>12. "deny" \notin verdicts[c.id]
  BY <1>1 DEF Cleared
<1>13. Ledger'
  <2>1. ASSUME NEW d \in 1..MaxDecisions, d > decided PROVE Unused(d)'
    <3>1. d # c.id
      BY <1>3, <1>9, <2>1 DEF TypeInv, TypeOK
    <3> QED BY <1>6, <1>11, <2>1, <3>1 DEF Ledger, Unused
  <2>2. ASSUME NEW d \in 1..MaxDecisions, Called(d)' PROVE "deny" \notin verdicts'[d]
    BY <1>6, <1>11, <1>12, <2>2 DEF Ledger
  <2>3. ExecutedOnce'
    BY <1>3, <1>5 DEF Ledger, ExecutedOnce, TypeInv, TypeOK
  <2> QED BY <1>6, <1>8, <2>1, <2>2, <2>3 DEF Ledger
<1>14. Cleared(g)'
  <2>1. CASE me'[g].pc = "acted"
    BY <2>1 DEF Cleared
  <2>2. CASE me'[g].pc = "execute"
    <3>1. me'[g].results = Append(me[g].results, answer) /\ answer \in {"succeeded", "failed"}
      BY <1>1, <2>2 DEF Execute, Answers, TypeInv, TypeOK, Driver
    <3>2. Len(me'[g].results) = n
      BY <1>2, <3>1, AnswerType
    <3>3. \A i \in 1..MaxActions : i > n => calls'[<<c.id, i>>] = 0
      <4> TAKE i \in 1..MaxActions
      <4>1. i > n => i > Len(me[g].results) /\ i # n
        BY <1>2
      <4>2. i > Len(me[g].results) => calls[<<c.id, i>>] = 0
        BY <1>1 DEF Cleared
      <4> QED BY <1>3, <1>10, <4>1, <4>2
    <3> HIDE DEF c, n, a
    <3>4. /\ "deny" \notin verdicts[c.id]
          /\ GateEnabled /\ RequiresApproval(c) => "approve" \in verdicts[c.id]
      BY <1>1, <1>12 DEF Cleared, c
    <3> QED BY <1>6, <1>7, <2>2, <3>2, <3>3, <3>4 DEF Cleared, RequiresApproval
  <2> QED BY <1>7, <2>1, <2>2
<1> QED BY <1>8, <1>13, <1>14, OffCleared

\* A new decision is one nobody has ruled on or executed.
LEMMA DeliberateCleared ==
  ASSUME TypeInv, DriverInv, Ledger, \A h \in Drivers : Cleared(h),
         NEW g \in Drivers, NEW ok \in BOOLEAN, NEW gated \in BOOLEAN,
         NEW n \in 0..MaxActions, Deliberate(g, ok, n, gated)
  PROVE  Ledger' /\ \A h \in Drivers : Cleared(h)'
<1> DEFINE c == [id |-> decided + 1, actions |-> n, gated |-> gated]
           r == IF ok THEN [me[g].run EXCEPT !.steps = @ \cup {<<me[g].run.iteration, "deciding">>}]
                      ELSE me[g].run
           then == IF RequiresApproval(c) THEN "gate"
                   ELSE IF n > 0 /\ ~ReadOnly THEN "act" ELSE "skip"
           label == IF ok /\ StoreOk(g) THEN then ELSE "fail"
<1>1. me[g] \in Driver /\ me[g].run \in Run /\ me[g].pc = "deliberate" /\ Driving(g)
  BY DEF Deliberate, Driving, TypeInv, TypeOK, Driver
<1>2. r.pending = me[g].run.pending
  BY <1>1 DEF Run
<1>3. me' = [me EXCEPT ![g].run = r, ![g].decision = c, ![g].pc = label] /\ Save(g, r)
  BY DEF Deliberate
<1>4. /\ label \in {"gate", "act", "skip", "fail"}
      /\ label = "act" => ~RequiresApproval(c)
  OBVIOUS
<1>5. UNCHANGED <<approval, calls, verdicts>> /\ decided' = decided + 1
  BY DEF Deliberate, history
<1>6. c.id = decided + 1 /\ c.id \in 1..MaxDecisions /\ decided \in Nat
  BY RunLoopAssumption DEF Deliberate, TypeInv, TypeOK
<1>7. Unused(c.id)
  BY <1>6 DEF Ledger
<1> HIDE DEF c, r, label
<1>8. /\ me'[g].pc = label /\ me'[g].run = r /\ me'[g].decision = c
      /\ \A h \in Drivers \ {g} : me'[h] = me[h]
  BY <1>1, <1>3 DEF TypeInv, TypeOK, Driver
<1>9. me[g].run.pending = NoDecision
  BY <1>1 DEF PendingFits, Fresh, DriverInv, StoredPending
<1>10. ~Awaited' /\ ~Awaited
  BY <1>1, <1>4, <1>5, <1>8, NobodyAwaited DEF Awaited, DriverInv
<1>11. Ledger'
  <2>1. \A d \in 1..MaxDecisions : d > decided' => Unused(d)'
    BY <1>5, <1>6 DEF Ledger, Unused, Called
  <2> QED BY <1>5, <1>10, <2>1 DEF Ledger, Unused, Called, ExecutedOnce
<1>12. \A i \in 1..MaxActions : calls[<<c.id, i>>] = 0
  <2> TAKE i \in 1..MaxActions
  <2>1. calls[<<c.id, i>>] \in 0..2
    BY <1>6 DEF ActionIds, TypeInv, TypeOK
  <2> QED BY <1>7, <2>1 DEF Unused, Called
<1>13. Cleared(g)'
  <2>1. CASE label = "act"
    BY <1>2, <1>4, <1>5, <1>7, <1>8, <1>9, <1>12, <2>1 DEF Cleared, Unused, RequiresApproval
  <2>2. CASE label # "act"
    BY <1>2, <1>4, <1>5, <1>7, <1>8, <1>9, <2>2 DEF Cleared, Unused, Called
  <2> QED BY <2>1, <2>2
<1> QED BY <1>5, <1>8, <1>10, <1>11, <1>13, ClearedFrame

\* While a row is pending nobody is in the loop, so a verdict hits only what
\* is parked, and has not been executed.
LEMMA ResolveCleared ==
  ASSUME TypeInv, DriverInv, Bounded, Ledger, \A h \in Drivers : Cleared(h),
         NEW verdict \in {"approve", "deny"}, Resolve(verdict),
         UNCHANGED <<store, ctxDone, storeUp, decided, calls>>
  PROVE  /\ Ledger'
         /\ \A h \in Drivers : me'[h] = me[h] => Cleared(h)'
         /\ \A h \in Drivers : verdict = "approve" /\ me'[h].pc = "load" => Cleared(h)'
<1>1. /\ approval.state = "pending" /\ Awaited /\ approval.id \in 1..MaxDecisions
      /\ Unused(approval.id) /\ approval.id <= decided
  BY DEF Resolve, Resolvable, Awaited, Ledger, Bounded
<1>2. \A h \in Drivers : me[h].pc \in {"off", "park"}
  BY <1>1 DEF DriverInv, Token
<1>3. /\ approval'.id = approval.id /\ approval'.state = verdict
      /\ \A d \in 1..MaxDecisions :
           verdicts'[d] = IF d = approval.id THEN {verdict} ELSE verdicts[d]
  BY <1>1, ResolveType DEF Unused
<1>4. Ledger'
  <2>1. \A d \in 1..MaxDecisions : d > decided' => Unused(d)'
    <3> SUFFICES ASSUME NEW d \in 1..MaxDecisions, d > decided PROVE Unused(d)'
      OBVIOUS
    <3>1. d # approval.id
      BY <1>1, RunLoopAssumption DEF TypeInv, TypeOK
    <3> QED BY <1>3, <3>1 DEF Ledger, Unused, Called
  <2>2. \A d \in 1..MaxDecisions : Called(d)' => "deny" \notin verdicts'[d]
    BY <1>1, <1>3 DEF Ledger, Unused, Called
  <2> QED BY <1>1, <1>3, <2>1, <2>2 DEF Ledger, ExecutedOnce
<1>5. ASSUME NEW h \in Drivers, me'[h] = me[h] PROVE Cleared(h)'
  BY <1>1, <1>2, <1>3, <1>5 DEF Cleared
<1>6. ASSUME NEW h \in Drivers, verdict = "approve", me'[h].pc = "load" PROVE Cleared(h)'
  <2>1. Granted(approval.id)'
    BY <1>1, <1>3, <1>6 DEF Granted, Unused, Called
  <2> QED BY <1>1, <1>3, <1>6, <2>1 DEF Cleared, Granted, Called
<1> QED BY <1>4, <1>5, <1>6

LEMMA SteerCleared ==
  ASSUME TypeInv, DriverInv, Bounded, Ledger, \A h \in Drivers : Cleared(h), NEW s \in Steerers,
         SteerStep(s) \/ \E cmd \in Commands : Issue(s, cmd)
  PROVE  Bounded' /\ Ledger' /\ \A h \in Drivers : Cleared(h)'
<1>1. CASE Writes
  <2>1. PICK status \in {"paused", "cancelled", "observing"} : WriteStatus(status)
    BY <1>1 DEF Writes
  <2>2. status \in Status
    BY DEF Status, Terminal, LoopStage
  <2>3. store'.pending = store.pending
    BY <2>1, <2>2, WriteStatusType
  <2>4. UNCHANGED <<approval, me, ctxDone, storeUp, decided, calls, verdicts>>
    BY <2>1 DEF WriteStatus, history
  <2>5. Bounded'
    BY <2>3, <2>4 DEF Bounded
  <2> QED BY <2>3, <2>4, <2>5, LedgerFrame, ClearedFrame DEF Ledger, Awaited
<1>2. CASE Grants
  <2>1. Resolve("approve") /\ UNCHANGED <<store, ctxDone, storeUp, decided, calls>>
    BY <1>2 DEF Grants
  <2>2. approval'.id = approval.id
    BY <2>1, ResolveType
  <2>3. CASE UNCHANGED me
    <3>1. Bounded'
      BY <2>1, <2>2, <2>3 DEF Bounded
    <3> QED BY <2>1, <2>3, <3>1, ResolveCleared
  <2>4. ASSUME NEW g \in Resumers, me' = [me EXCEPT ![g] = At("load", NewRun)]
        PROVE  Bounded' /\ Ledger' /\ \A h \in Drivers : Cleared(h)'
    <3>1. /\ me'[g].pc = "load" /\ me'[g].decision = NoDecision
          /\ me'[g].run.pending = NoDecision /\ g \in Drivers
          /\ \A h \in Drivers \ {g} : me'[h] = me[h]
      BY <2>4 DEF At, NewRun, Drivers, TypeInv, TypeOK
    <3>2. Bounded'
      BY <2>1, <2>2, <3>1 DEF Bounded
    <3> QED BY <2>1, <3>1, <3>2, ResolveCleared
  <2> QED BY <1>2, <2>3, <2>4 DEF Grants
<1>3. CASE DenyPending
  <2>1. UNCHANGED <<store, me, ctxDone, storeUp, decided, calls>>
    BY <1>3 DEF DenyPending
  <2>2. CASE Resolve("deny")
    <3>1. Bounded'
      BY <2>1, <2>2, ResolveType DEF Bounded
    <3> QED BY <2>1, <2>2, <3>1, ResolveCleared
  <2>3. CASE ~Resolve("deny")
    <3>1. UNCHANGED <<approval, verdicts>>
      BY <1>3, <2>3 DEF DenyPending
    <3>2. Bounded'
      BY <2>1, <3>1 DEF Bounded
    <3> QED BY <2>1, <3>1, <3>2, LedgerFrame, ClearedFrame DEF Ledger, Awaited
  <2> QED BY <2>2, <2>3
<1>4. CASE Refused
  <2>1. UNCHANGED <<store, approval, me, ctxDone, storeUp, decided, calls, verdicts>>
    BY <1>4 DEF Refused, history
  <2>2. Bounded'
    BY <2>1 DEF Bounded
  <2> QED BY <2>1, <2>2, LedgerFrame, ClearedFrame DEF Ledger, Awaited
<1> QED BY <1>1, <1>2, <1>3, <1>4, SteerShapes

LEMMA GateStep ==
  ASSUME Workers = {}
  PROVE  TypeInv /\ DriverInv /\ GateInv /\ [Next]_vars => GateInv'
<1> SUFFICES ASSUME TypeInv, DriverInv, GateInv, [Next]_vars PROVE GateInv'
  OBVIOUS
<1> USE DEF GateInv
<1>1. ASSUME NEW g \in Drivers, Step(g) PROVE GateInv'
  <2>1. Shapes(g)
    BY <1>1, StepShapes
  <2>2. Bounded'
    BY <2>1, BoundedSteps
  <2>3. Ledger' /\ \A h \in Drivers : Cleared(h)'
    BY <2>1, WorksCleared, LeavesCleared, TakesUpCleared, RaiseCleared, AgainCleared,
       ResumeCleared, ExecuteCleared, DeliberateCleared, Zenon DEF Shapes
  <2> QED BY <2>2, <2>3
<1>2. ASSUME UNCHANGED <<store, approval, me, decided, calls, verdicts>> PROVE GateInv'
  <2>1. Bounded'
    BY <1>2 DEF Bounded
  <2> QED BY <1>2, <2>1, LedgerFrame, ClearedFrame DEF Ledger, Awaited
<1>3. ASSUME NEW g \in Drivers, CtxEnds(g) PROVE GateInv'
  BY <1>2, <1>3 DEF CtxEnds, history
<1>4. ASSUME NEW s \in Steerers, SteerStep(s) \/ \E cmd \in Commands : Issue(s, cmd)
      PROVE  GateInv'
  BY <1>4, SteerCleared
<1>5. ASSUME NEW g \in Submitters, PublishPanics(g) PROVE GateInv'
  <2>1. g \in Drivers /\ Leaves(g)
    BY <1>5, PanicLeaves
  <2> QED BY <2>1, BoundedSteps, LeavesCleared DEF Shapes
<1>6. CASE ServeEnds
  <2>1. UNCHANGED <<store, approval, decided, calls, verdicts>>
    BY <1>6 DEF ServeEnds, history
  <2>2. \A g \in Drivers : /\ me'[g].pc = "off" /\ me'[g].decision = NoDecision
                           /\ me'[g].run.pending = NoDecision
    BY <1>6 DEF ServeEnds, Off, At, NewRun
  <2>3. Bounded'
    BY <2>1, <2>2 DEF Bounded
  <2>4. Ledger'
    BY <2>1, <2>2, LedgerFrame DEF Ledger, Awaited
  <2> QED BY <2>2, <2>3, <2>4, OffCleared
<1>7. CASE StoreTurns
  BY <1>2, <1>7 DEF StoreTurns, history
<1>8. CASE UNCHANGED vars
  BY <1>2, <1>8 DEF vars
<1> QED BY <1>1, <1>3, <1>4, <1>5, <1>6, <1>7, <1>8 DEF Next

LEMMA GateInit == Init => GateInv
<1> SUFFICES ASSUME Init PROVE GateInv
  OBVIOUS
<1>1. \A g \in Drivers : /\ me[g].pc \in {"off", "start"} /\ me[g].run.pending = NoDecision
                         /\ me[g].decision = NoDecision
  BY DEF Init, Off, At, NewRun
<1>2. store.pending = NoDecision /\ approval = [state |-> "none", id |-> 0] /\ decided = 0
  BY DEF Init, NewRun
<1>3. \A d \in 1..MaxDecisions : Unused(d)
  <2> TAKE d \in 1..MaxDecisions
  <2>1. verdicts[d] = {}
    BY DEF Init
  <2>2. ASSUME NEW i \in 1..MaxActions PROVE ~(calls[<<d, i>>] > 0)
    <3>1. calls[<<d, i>>] = 0
      BY DEF Init, ActionIds
    <3> QED BY <3>1
  <2>3. ~Called(d)
    BY <2>2 DEF Called
  <2> QED BY <2>1, <2>3 DEF Unused
<1>4. Ledger
  BY <1>2, <1>3 DEF Ledger, Unused, Init, ExecutedOnce
<1>5. \A g \in Drivers : Cleared(g)
  BY <1>1 DEF Cleared
<1> QED BY <1>1, <1>2, <1>4, <1>5 DEF GateInv, Bounded

LEMMA GateInvariant ==
  ASSUME Workers = {}
  PROVE  Spec => [](TypeInv /\ GateInv)
<1>1. TypeInv /\ DriverInv /\ GateInv /\ [Next]_vars => (TypeInv /\ DriverInv /\ GateInv)'
  BY TypeStep, DriverStep, GateStep
<1> QED BY <1>1, TypeInit, DriverInit, GateInit, PTL DEF Spec

\* With the gate on, nothing that requires approval reaches Praxis without it.
THEOREM GateHolds ==
  ASSUME Workers = {}, GateEnabled = TRUE
  PROVE  Spec => []OnlyApprovedExecutes
<1>1. TypeInv /\ GateInv => OnlyApprovedExecutes
  BY DEF GateInv, Cleared, OnlyApprovedExecutes
<1> QED BY <1>1, GateInvariant, PTL

\* What was denied is not executed, neither before nor after the verdict.
THEOREM DenialsHold ==
  ASSUME Workers = {}
  PROVE  Spec => []DeniedNeverExecutes
<1>1. TypeInv /\ GateInv => DeniedNeverExecutes
  BY DEF GateInv, Ledger, DeniedNeverExecutes
<1> QED BY <1>1, GateInvariant, PTL

\* No action is sent to Praxis twice, however often the run is suspended.
THEOREM NoDoubleExecution ==
  ASSUME Workers = {}
  PROVE  Spec => []ExecutedOnce
<1>1. TypeInv /\ GateInv => ExecutedOnce
  BY DEF GateInv, Ledger
<1> QED BY <1>1, GateInvariant, PTL

(***************************************************************************)
(* Completed: everything is learned                                        *)
(***************************************************************************)
\* Results a driver has in hand and has not passed on.
Owed(d) == {<<d.decision.id, i>> : i \in (d.written + 1)..Len(d.results)}

\* What Mnemos has not (missing) is what the driver d has in hand, until it
\* fails and drops it.
Holds(d, missing) ==
  /\ d.written <= Len(d.results)
  /\ d.run.pending # NoDecision => missing = {}
  /\ d.run.status = "completed" => d.pc \in {"completed", "fail"}
  /\ d.pc \notin {"fail", "failed"} =>
       /\ d.ok => missing \subseteq Owed(d)
       /\ d.ok \/ d.pc \in {"acted", "learnt"}
       /\ d.ok /\ d.pc \in {"learnt", "complete", "completed", "again"}
            => d.written = Len(d.results)

Missing == answered \ learned

\* A run that rests completed, or parked and awaiting a decision, owes nothing.
Settled ==
  /\ store.status = "completed" => Missing = {}
  /\ Awaited /\ store.pending # NoDecision => Missing = {}
  /\ \A g \in Drivers : Driving(g) =>
       /\ Holds(me[g], Missing)
       /\ me[g].pc # "completed" => store.status # "completed"

\* One goroutine drives before and after the step: it is enough to look at g.
LEMMA OneSettled ==
  ASSUME SingleDriver, SingleDriver', NEW g \in Drivers, Driving(g) \/ Driving(g)',
         \A h \in Drivers \ {g} : me'[h] = me[h],
         store'.status = "completed" => Missing' = {},
         Awaited' /\ store'.pending # NoDecision => Missing' = {},
         Driving(g)' => /\ Holds(me'[g], Missing')
                        /\ me'[g].pc # "completed" => store'.status # "completed"
  PROVE  Settled'
<1>1. \A h \in Drivers \ {g} : ~Driving(h)'
  BY DEF SingleDriver, Driving
<1> QED BY <1>1 DEF Settled

\* Whoever works on in the loop is not awaited afterwards either.
LEMMA StillNobody ==
  ASSUME DriverInv, NEW g \in Drivers, Driving(g), me[g].pc # "park", approval' = approval,
         me'[g].pc # "load", \A h \in Drivers \ {g} : me'[h] = me[h]
  PROVE  ~Awaited'
<1>1. ~Awaited
  BY NobodyAwaited DEF DriverInv
<1> QED BY <1>1 DEF Awaited

LEMMA OwedNothing ==
  ASSUME NEW d \in Driver, d.written = Len(d.results) \/ d.results = <<>>
  PROVE  Owed(d) = {}
<1>1. d.written \in Nat /\ Len(d.results) \in Nat /\ (d.results = <<>> => Len(d.results) = 0)
  BY DEF Driver, Results
<1>2. (d.written + 1)..Len(d.results) = {}
  BY <1>1
<1> QED BY <1>2 DEF Owed

\* Steps in which no result comes in and none is passed on.
LEMMA QuietSettled ==
  ASSUME TypeInv, DriverInv, Settled, SingleDriver, SingleDriver', NEW g \in Drivers, Driving(g),
         me[g].pc \notin {"park", "completed", "fail", "failed"},
         NEW d \in Driver, me' = [me EXCEPT ![g] = d], UNCHANGED <<answered, learned>>,
         d.results = me[g].results, d.written = me[g].written, d.ok = me[g].ok,
         d.decision = me[g].decision \/ d.results = <<>>,
         d.run.pending \in {NoDecision, me[g].run.pending} \/ (d.ok /\ d.results = <<>>),
         d.run.status = me[g].run.status \/ d.run.status # "completed",
         store'.status \in {store.status, d.run.status},
         approval' = approval \/ store'.pending = NoDecision,
         \/ d.pc = "fail"
         \/ /\ d.pc \notin {"fail", "failed"}
            /\ d.ok \/ d.pc \in {"acted", "learnt"}
            /\ d.pc \in {"learnt", "complete", "again"} /\ d.ok => d.written = Len(d.results),
         d.pc \notin {"completed", "load"}
  PROVE  Settled'
<1>1. /\ Holds(me[g], Missing) /\ store.status # "completed" /\ Missing' = Missing
  BY DEF Settled, Missing
<1>2. /\ me'[g] = d /\ \A h \in Drivers \ {g} : me'[h] = me[h]
      /\ me[g] \in Driver
  BY DEF TypeInv, TypeOK
<1>3. d.ok => Missing \subseteq Owed(d)
  <2>1. CASE d.decision = me[g].decision
    <3>1. Owed(d) = Owed(me[g])
      BY <2>1 DEF Owed
    <3> QED BY <1>1, <3>1 DEF Holds
  <2>2. CASE d.results = <<>>
    <3>1. Owed(me[g]) = {}
      BY <1>2, <2>2, OwedNothing
    <3> QED BY <1>1, <3>1 DEF Holds
  <2> QED BY <2>1, <2>2
<1>4. d.run.pending # NoDecision => Missing = {}
  <2>1. d.results = <<>> => Owed(d) = {}
    BY OwedNothing
  <2> QED BY <1>1, <1>3, <2>1 DEF Holds
<1>5. d.run.status # "completed"
  BY <1>1 DEF Holds
<1>6. Holds(d, Missing')
  BY <1>1, <1>3, <1>4, <1>5 DEF Holds
<1>7. store'.status # "completed" /\ (Awaited' => store'.pending = NoDecision)
  BY <1>1, <1>2, <1>5, StillNobody
<1> QED BY <1>1, <1>2, <1>6, <1>7, OneSettled

LEMMA TransitionSettled ==
  ASSUME TypeInv, DriverInv, Settled, SingleDriver, SingleDriver', NEW g \in Drivers,
         NEW from \in {"observe", "understand", "decide", "gate", "act", "skip", "learn"},
         NEW to \in Status \ {"completed"},
         NEW then \in {"recall", "signals", "deliberate", "raise", "act", "skip", "execute",
                       "skipped", "append"},
         Transition(g, from, to, then)
  PROVE  Settled'
<1> DEFINE r == [me[g].run EXCEPT !.status = to]
           label == IF StoreOk(g) THEN then ELSE "fail"
           d == [me[g] EXCEPT !.run = r, !.pc = label]
<1>1. /\ me[g] \in Driver /\ me[g].run \in Run /\ store \in Run /\ me[g].pc = from
      /\ me' = [me EXCEPT ![g] = d] /\ UNCHANGED <<approval, answered, learned>>
  BY DEF Transition, history, TypeInv, TypeOK, Driver
<1>2. Driving(g) /\ me[g].ok
  BY <1>1 DEF Driving, Settled, Holds
<1>3. r \in Run /\ r.status = to /\ r.pending = me[g].run.pending
  BY <1>1, RunUpdates DEF Run
<1>4. label \in {then, "fail"} /\ then \in Labels /\ "fail" \in Labels
  BY DEF Labels
<1>5. store'.status \in {store.status, to}
  BY <1>1 DEF Transition, Run
<1> HIDE DEF r, label
<1>6. /\ d \in Driver /\ d.run = r /\ d.pc = label /\ d.decision = me[g].decision
      /\ d.results = me[g].results /\ d.written = me[g].written /\ d.ok = me[g].ok
  BY <1>1, <1>3, <1>4 DEF Driver
<1> HIDE DEF d
<1> QED BY <1>1, <1>2, <1>3, <1>4, <1>5, <1>6, QuietSettled

LEMMA EndStageSettled ==
  ASSUME TypeInv, DriverInv, Settled, SingleDriver, SingleDriver', NEW g \in Drivers,
         NEW from \in {"recall", "signals", "acted", "learnt"}, NEW stage \in LoopStage,
         NEW ok \in BOOLEAN, NEW then \in {"understand", "decide", "learn", "complete", "again"},
         EndStage(g, from, stage, ok, then),
         from \in {"acted", "learnt"} => ok = me[g].ok,
         then \in {"complete", "again"} => from = "learnt"
  PROVE  Settled'
<1> DEFINE r == IF ok THEN [me[g].run EXCEPT !.steps = @ \cup {<<me[g].run.iteration, stage>>}]
                      ELSE me[g].run
           label == IF ok /\ StoreOk(g) THEN then ELSE "fail"
           d == [me[g] EXCEPT !.run = r, !.pc = label]
<1>1. /\ me[g] \in Driver /\ me[g].run \in Run /\ store \in Run /\ me[g].pc = from
      /\ me' = [me EXCEPT ![g] = d] /\ UNCHANGED <<approval, answered, learned>> /\ Save(g, r)
  BY DEF EndStage, history, TypeInv, TypeOK, Driver
<1>2. /\ me[g].ok \/ from \in {"acted", "learnt"}
      /\ from = "learnt" /\ me[g].ok => me[g].written = Len(me[g].results)
  BY <1>1 DEF Driving, Settled, Holds
<1>3. r \in Run /\ r.status = me[g].run.status /\ r.pending = me[g].run.pending
  <2>1. r \in Run
    BY <1>1, RunUpdates
  <2> QED BY <1>1, <2>1 DEF Run
<1>4. label = "fail" \/ (label = then /\ ok)
  OBVIOUS
<1>5. then \in Labels /\ "fail" \in Labels
  BY DEF Labels
<1>6. store' \in {store, r}
  BY <1>1 DEF Save
<1> HIDE DEF r, label
<1>7. /\ d \in Driver /\ d.run = r /\ d.pc = label /\ d.decision = me[g].decision
      /\ d.results = me[g].results /\ d.written = me[g].written /\ d.ok = me[g].ok
  BY <1>1, <1>3, <1>4, <1>5 DEF Driver
<1> HIDE DEF d
<1>8. label # "fail" => me[g].ok
  BY <1>2, <1>4
<1>9. Driving(g)
  BY <1>1 DEF Driving
<1> QED BY <1>1, <1>2, <1>3, <1>4, <1>6, <1>7, <1>8, <1>9, QuietSettled

LEMMA StagesSettled ==
  ASSUME TypeInv, DriverInv, Settled, SingleDriver, SingleDriver', NEW g \in Drivers,
         \/ Observe(g) \/ Understand(g) \/ Decide(g) \/ Gate(g) \/ Act(g) \/ SkipActing(g)
         \/ Learn(g)
         \/ Acted(g) \/ Learnt(g) \/ \E ok \in BOOLEAN : Recall(g, ok) \/ Signals(g, ok)
  PROVE  Settled'
<1>1. me[g].ok \in BOOLEAN
  BY DEF TypeInv, TypeOK, Driver
<1>2. /\ LoopStage \cup {"awaiting_approval"} \subseteq Status \ {"completed"}
      /\ LoopStage = {"observing", "understanding", "deciding", "acting", "learning"}
  BY DEF Status, Terminal, LoopStage
<1>3. CASE Observe(g)
  BY <1>2, <1>3, TransitionSettled DEF Observe
<1>4. CASE Understand(g)
  BY <1>2, <1>4, TransitionSettled DEF Understand
<1>5. CASE Decide(g)
  BY <1>2, <1>5, TransitionSettled DEF Decide
<1>6. CASE Gate(g)
  <2> DEFINE then == IF GateEnabled THEN "raise"
                     ELSE IF me[g].decision.actions > 0 /\ ~ReadOnly THEN "act" ELSE "skip"
  <2>1. then \in {"raise", "act", "skip"} /\ Transition(g, "gate", "awaiting_approval", then)
    BY <1>6 DEF Gate
  <2> HIDE DEF then
  <2> QED BY <1>2, <2>1, TransitionSettled
<1>7. CASE Act(g)
  BY <1>2, <1>7, TransitionSettled DEF Act
<1>8. CASE SkipActing(g)
  BY <1>2, <1>8, TransitionSettled DEF SkipActing
<1>9. CASE Learn(g)
  BY <1>2, <1>9, TransitionSettled DEF Learn
<1>10. CASE Acted(g)
  BY <1>1, <1>2, <1>10, EndStageSettled DEF Acted
<1>11. CASE Learnt(g)
  <2> DEFINE then == IF Satisfied(me[g].results) THEN "complete" ELSE "again"
  <2>1. then \in {"complete", "again"} /\ EndStage(g, "learnt", "learning", me[g].ok, then)
    BY <1>11 DEF Learnt
  <2> HIDE DEF then
  <2> QED BY <1>1, <1>2, <2>1, EndStageSettled
<1>12. ASSUME NEW ok \in BOOLEAN, Recall(g, ok) PROVE Settled'
  BY <1>2, <1>12, EndStageSettled DEF Recall
<1>13. ASSUME NEW ok \in BOOLEAN, Signals(g, ok) PROVE Settled'
  BY <1>2, <1>13, EndStageSettled DEF Signals
<1> QED BY <1>3, <1>4, <1>5, <1>6, <1>7, <1>8, <1>9, <1>10, <1>11, <1>12, <1>13

\* The other steps without a result.
LEMMA HeadSettled ==
  ASSUME TypeInv, DriverInv, Settled, SingleDriver, SingleDriver', NEW g \in Drivers,
         \/ Start(g) /\ ~Return(g)
         \/ HeadFails(g) \/ HeadFresh(g) \/ Appended(g) \/ (HeadParked(g) /\ Goto(g, "fail"))
  PROVE  Settled'
<1>1. me[g] \in Driver /\ store \in Run
  BY DEF TypeInv, TypeOK
<1>2. PICK label \in {"top", "fail", "observe", "learnt"} :
        /\ Goto(g, label) /\ UNCHANGED <<store, approval, answered, learned>>
        /\ me[g].pc \in {"start", "top", "append"}
        /\ label = "learnt" => me[g].pc = "append" /\ me[g].written = Len(me[g].results)
  BY DEF Start, HeadFails, HeadFresh, HeadParked, Appended, history
<1> DEFINE d == [me[g] EXCEPT !.pc = label]
<1>3. Driving(g) /\ me[g].ok
  BY <1>2 DEF Driving, Settled, Holds
<1>4. me' = [me EXCEPT ![g] = d] /\ label \in Labels
  BY <1>2 DEF Goto, Labels
<1>5. /\ d \in Driver /\ d.run = me[g].run /\ d.pc = label /\ d.decision = me[g].decision
      /\ d.results = me[g].results /\ d.written = me[g].written /\ d.ok = me[g].ok
  BY <1>1, <1>4 DEF Driver
<1> HIDE DEF d
<1> QED BY <1>2, <1>3, <1>4, <1>5, QuietSettled

LEMMA DecisionSettled ==
  ASSUME TypeInv, DriverInv, Settled, SingleDriver, SingleDriver', NEW g \in Drivers,
         \/ Unpark(g) \/ Skipped(g) \/ Raise(g) \/ TakesUp(g)
         \/ \E ok, gated \in BOOLEAN, n \in 0..MaxActions : Deliberate(g, ok, n, gated)
  PROVE  Settled'
<1>1. me[g] \in Driver /\ me[g].run \in Run /\ store \in Run
  BY DEF TypeInv, TypeOK, Driver
<1>2. /\ me[g].pc \in {"unpark", "skipped", "raise", "top", "deliberate"}
      /\ UNCHANGED <<answered, learned>>
  BY DEF Unpark, Skipped, Raise, TakesUp, Deliberate, history
<1>3. Driving(g) /\ me[g].ok /\ me[g].results = <<>>
  BY <1>2 DEF Driving, Settled, Holds, TypeInv, Locals
\* It is enough to say what the driver becomes and what it saves.
<1>4. ASSUME NEW r \in Run, NEW c \in Decision \cup {NoDecision},
             NEW label \in {"act", "skip", "learn", "park", "unpark", "gate", "fail"},
             me' = [me EXCEPT ![g].run = r, ![g].decision = c, ![g].pc = label],
             r.status = me[g].run.status, store' \in {store, r},
             approval' = approval \/ store'.pending = NoDecision
      PROVE  Settled'
  <2> DEFINE d == [me[g] EXCEPT !.run = r, !.decision = c, !.pc = label]
  <2>1. label \in Labels /\ me' = [me EXCEPT ![g] = d]
    BY <1>4 DEF Labels
  <2>2. /\ d \in Driver /\ d.run = r /\ d.pc = label
        /\ d.results = me[g].results /\ d.written = me[g].written /\ d.ok = me[g].ok
    BY <1>1, <1>4, <2>1 DEF Driver
  <2> HIDE DEF d
  <2>3. /\ me[g].pc \notin {"park", "completed", "fail", "failed"}
        /\ d.pc \notin {"completed", "load"}
        /\ \/ d.pc = "fail"
           \/ d.pc \notin {"fail", "failed", "learnt", "complete", "again"} /\ d.ok
        /\ d.results = <<>>
    BY <1>2, <1>3, <1>4, <2>2
  <2>4. /\ store'.status \in {store.status, d.run.status} /\ d.run.status = me[g].run.status
        /\ approval' = approval \/ store'.pending = NoDecision
    BY <1>4, <2>2
  <2> QED BY <1>2, <1>3, <2>1, <2>2, <2>3, <2>4, QuietSettled
<1>5. CASE Unpark(g)
  <2>1. PICK label \in {"act", "skip"} : me' = [me EXCEPT ![g].pc = label]
    BY <1>5 DEF Unpark, Goto
  <2>2. me' = [me EXCEPT ![g].run = me[g].run, ![g].decision = me[g].decision, ![g].pc = label]
    <3>1. [me[g] EXCEPT !.pc = label]
            = [me[g] EXCEPT !.run = me[g].run, !.decision = me[g].decision, !.pc = label]
      BY <1>1 DEF Driver
    <3> QED BY <2>1, <3>1
  <2>3. me[g].decision \in Decision \cup {NoDecision}
    BY <1>1 DEF Driver
  <2>4. store' \in {store, me[g].run} /\ approval' = approval
    BY <1>5 DEF Unpark, Save
  <2> QED BY <1>1, <1>4, <2>2, <2>3, <2>4
<1>6. CASE Skipped(g)
  <2> DEFINE r == [me[g].run EXCEPT !.steps = @ \cup {<<me[g].run.iteration, "acting">>}]
  <2>1. r \in Run /\ r.status = me[g].run.status
    <3>1. "acting" \in LoopStage
      BY DEF LoopStage
    <3>2. r \in Run
      BY <1>1, <3>1, RunUpdates
    <3> QED BY <1>1, <3>2 DEF Run
  <2>2. me' = [me EXCEPT ![g].run = r, ![g].pc = "learn"] /\ store' \in {store, r}
        /\ approval' = approval
    BY <1>6 DEF Skipped, Save
  <2> HIDE DEF r
  <2>3. me' = [me EXCEPT ![g].run = r, ![g].decision = me[g].decision, ![g].pc = "learn"]
    <3>1. [me[g] EXCEPT !.run = r, !.pc = "learn"]
            = [me[g] EXCEPT !.run = r, !.decision = me[g].decision, !.pc = "learn"]
      BY <1>1 DEF Driver
    <3> QED BY <2>2, <3>1
  <2>4. me[g].decision \in Decision \cup {NoDecision}
    BY <1>1 DEF Driver
  <2> QED BY <1>4, <2>1, <2>2, <2>3, <2>4
<1>7. CASE Raise(g)
  <2> DEFINE r == [me[g].run EXCEPT !.pending = me[g].decision]
  <2>1. me[g].decision \in Decision \cup {NoDecision}
    BY <1>1 DEF Driver
  <2>2. r \in Run /\ r.status = me[g].run.status
    BY <1>1, <2>1, RunUpdates DEF Run
  <2>3. me' = [me EXCEPT ![g].run = r, ![g].pc = "park"] /\ store' = store
        /\ store.pending = NoDecision
    BY <1>1, <1>7 DEF Raise, Driver, DriverInv, StoredPending, PendingFits
  <2> HIDE DEF r
  <2>4. me' = [me EXCEPT ![g].run = r, ![g].decision = me[g].decision, ![g].pc = "park"]
    BY <1>1, <2>3 DEF TypeInv, TypeOK, Driver
  <2> QED BY <1>4, <2>1, <2>2, <2>3, <2>4
<1>8. CASE TakesUp(g)
  <2> DEFINE r == [me[g].run EXCEPT !.pending = NoDecision]
  <2>1. me[g].run.pending \in Decision \cup {NoDecision}
    BY <1>1 DEF Run
  <2>2. r \in Run /\ r.status = me[g].run.status
    BY <1>1, RunUpdates DEF Run
  <2>3. me' = [me EXCEPT ![g].run = r, ![g].decision = me[g].run.pending, ![g].pc = "unpark"]
        /\ store' = store /\ approval' = approval
    BY <1>1, <1>8 DEF TakesUp, Driver
  <2> HIDE DEF r
  <2> QED BY <1>4, <2>1, <2>2, <2>3
<1>9. ASSUME NEW ok \in BOOLEAN, NEW gated \in BOOLEAN, NEW n \in 0..MaxActions,
             Deliberate(g, ok, n, gated)
      PROVE  Settled'
  <2> DEFINE c == [id |-> decided + 1, actions |-> n, gated |-> gated]
             s == [me[g].run EXCEPT !.steps = @ \cup {<<me[g].run.iteration, "deciding">>}]
             r == IF ok THEN s ELSE me[g].run
             then == IF RequiresApproval(c) THEN "gate"
                     ELSE IF n > 0 /\ ~ReadOnly THEN "act" ELSE "skip"
             label == IF ok /\ StoreOk(g) THEN then ELSE "fail"
  <2>1. /\ me' = [me EXCEPT ![g].run = r, ![g].decision = c, ![g].pc = label]
        /\ store' \in {store, r} /\ approval' = approval
    BY <1>9 DEF Deliberate, Save
  <2>2. label \in {"gate", "act", "skip", "fail"}
    OBVIOUS
  <2>3. c \in Decision
    <3>1. decided + 1 \in 1..MaxDecisions
      <4>1. decided \in 0..MaxDecisions /\ decided < MaxDecisions
        BY <1>9 DEF Deliberate, TypeInv, TypeOK
      <4> QED BY <4>1, RunLoopAssumption
    <3> QED BY <3>1 DEF Decision
  <2>4. s \in Run /\ s.status = me[g].run.status
    <3>1. "deciding" \in LoopStage
      BY DEF LoopStage
    <3>2. s \in Run
      BY <1>1, <3>1, RunUpdates
    <3> QED BY <1>1, <3>2 DEF Run
  <2> HIDE DEF s, label, c
  <2>5. r \in Run /\ r.status = me[g].run.status
    BY <1>1, <2>4
  <2> HIDE DEF r
  <2> QED BY <1>4, <2>1, <2>2, <2>3, <2>5
<1> QED BY <1>2, <1>5, <1>6, <1>7, <1>8, <1>9

\* A result comes in: the driver has it in hand.
LEMMA ExecuteSettled ==
  ASSUME TypeInv, DriverInv, Settled, SingleDriver, SingleDriver', NEW g \in Drivers,
         NEW answer \in Answers, Execute(g, answer)
  PROVE  Settled'
<1> DEFINE n == Len(me[g].results) + 1
           a == <<me[g].decision.id, n>>
           end == answer \in {"failed for good", "error"}
           results == IF end THEN me[g].results ELSE Append(me[g].results, answer)
           label == IF end \/ AllDone(g, results) THEN "acted" ELSE "execute"
           d == [me[g] EXCEPT !.results = results, !.ok = ~end, !.pc = label]
<1>1. /\ me[g] \in Driver /\ me[g].pc = "execute" /\ Driving(g)
      /\ me[g].run.pending = NoDecision /\ approval' = approval
  BY DEF Execute, Driving, TypeInv, TypeOK, DriverInv, StoredPending, PendingFits, Fresh
<1>2. /\ me' = [me EXCEPT ![g] = d] /\ store' = store /\ learned' = learned
      /\ answered' \subseteq answered \cup {a}
  BY <1>1 DEF Execute
<1>3. /\ Holds(me[g], Missing) /\ me[g].ok /\ store.status # "completed"
      /\ me[g].run.status # "completed"
  BY <1>1 DEF Settled, Holds
<1>4. \/ end
      \/ ~end /\ answer \in {"succeeded", "failed"} /\ results = Append(me[g].results, answer)
  BY DEF Answers
<1>5. /\ end \in BOOLEAN /\ label \in {"acted", "execute"} /\ (end => label = "acted")
      /\ end => results = me[g].results
  <2>1. end \in BOOLEAN
    OBVIOUS
  <2> HIDE DEF end
  <2>2. end => results = me[g].results
    OBVIOUS
  <2> HIDE DEF results
  <2>3. label \in {"acted", "execute"} /\ (end => label = "acted")
    OBVIOUS
  <2> QED BY <2>1, <2>2, <2>3
<1>6. Missing' \subseteq Missing \cup {a}
  BY <1>2 DEF Missing
<1> HIDE DEF end, results, label
<1>7. results \in Results
  BY <1>1, <1>4, <1>5, AnswerType DEF Driver
<1>8. /\ d \in Driver /\ d.run = me[g].run /\ d.pc = label /\ d.decision = me[g].decision
      /\ d.results = results /\ d.written = me[g].written /\ d.ok = ~end
  BY <1>1, <1>5, <1>7 DEF Driver, Labels
<1>9. me[g].written \in Nat /\ Len(me[g].results) \in Nat /\ me[g].written <= Len(me[g].results)
  BY <1>1, <1>3 DEF Driver, Results, Holds
<1> HIDE DEF d, a, n
<1>10. d.written <= Len(d.results) /\ (~end => Missing' \subseteq Owed(d))
  <2>1. CASE end
    BY <1>5, <1>8, <1>9, <2>1
  <2>2. CASE ~end
    <3>1. Len(results) = n /\ n = Len(me[g].results) + 1
      BY <1>1, <1>4, <2>2, AnswerType DEF Driver, n
    <3>2. d.written <= Len(d.results) /\ n \in (d.written + 1)..Len(d.results)
          /\ (me[g].written + 1)..Len(me[g].results) \subseteq (d.written + 1)..Len(d.results)
      BY <1>8, <1>9, <3>1
    <3>3. Owed(me[g]) \cup {a} \subseteq Owed(d)
      <4> DEFINE c == me[g].decision.id
      <4>1. /\ Owed(me[g]) = {<<c, i>> : i \in (me[g].written + 1)..Len(me[g].results)}
            /\ Owed(d) = {<<c, i>> : i \in (d.written + 1)..Len(d.results)} /\ a = <<c, n>>
        BY <1>8 DEF Owed, a
      <4> HIDE DEF c
      <4> QED BY <3>2, <4>1, Zenon
    <3> QED BY <1>1, <1>3, <1>6, <3>2, <3>3 DEF Holds
  <2> QED BY <1>5, <2>1, <2>2
<1>11. Holds(d, Missing')
  BY <1>1, <1>3, <1>5, <1>8, <1>10 DEF Holds
<1>12. me'[g] = d /\ \A h \in Drivers \ {g} : me'[h] = me[h]
  BY <1>2 DEF TypeInv, TypeOK
<1>13. ~Awaited'
  BY <1>1, <1>5, <1>8, <1>12, StillNobody
<1> QED BY <1>1, <1>2, <1>3, <1>11, <1>12, <1>13, OneSettled

\* A result is passed on, or the stage ends in an error.
LEMMA AppendSettled ==
  ASSUME TypeInv, DriverInv, Settled, SingleDriver, SingleDriver', NEW g \in Drivers,
         NEW ok \in BOOLEAN, AppendOutcome(g, ok)
  PROVE  Settled'
<1>1. /\ me[g] \in Driver /\ me[g].pc = "append" /\ Driving(g)
      /\ me[g].run.pending = NoDecision /\ approval' = approval
      /\ me[g].written < Len(me[g].results)
  BY DEF AppendOutcome, Driving, TypeInv, TypeOK, DriverInv, StoredPending, PendingFits, Fresh
<1>2. /\ Holds(me[g], Missing) /\ me[g].ok /\ store.status # "completed"
      /\ me[g].run.status # "completed"
  BY <1>1 DEF Settled, Holds
<1>3. me[g].written \in Nat /\ Len(me[g].results) \in Nat
  BY <1>1 DEF Driver, Results
<1>4. store' = store /\ answered' = answered
  BY DEF AppendOutcome
<1>5. CASE ok
  <2> DEFINE d == [me[g] EXCEPT !.written = @ + 1]
             a == <<me[g].decision.id, me[g].written + 1>>
  <2>1. me' = [me EXCEPT ![g] = d] /\ learned' = learned \cup {a}
    BY <1>5 DEF AppendOutcome
  <2>2. /\ d \in Driver /\ d.run = me[g].run /\ d.pc = "append" /\ d.decision = me[g].decision
        /\ d.results = me[g].results /\ d.written = me[g].written + 1 /\ d.ok
    BY <1>1, <1>2, <1>3 DEF Driver
  <2>3. Missing' = Missing \ {a}
    BY <1>4, <2>1 DEF Missing
  <2> HIDE DEF d
  <2>4. Missing' \subseteq Owed(d)
    <3>1. \A i \in (me[g].written + 1)..Len(me[g].results) :
            i # me[g].written + 1 => i \in (d.written + 1)..Len(d.results)
      BY <1>1, <1>3, <2>2
    <3>2. ASSUME NEW x \in Missing' PROVE x \in Owed(d)
      <4>1. x \in Owed(me[g]) /\ x # a
        BY <1>1, <1>2, <2>3, <3>2 DEF Holds
      <4>2. PICK i \in (me[g].written + 1)..Len(me[g].results) : x = <<me[g].decision.id, i>>
        BY <4>1 DEF Owed
      <4>3. i \in (d.written + 1)..Len(d.results)
        BY <3>1, <4>1, <4>2
      <4> QED BY <2>2, <4>2, <4>3 DEF Owed
    <3> QED BY <3>2
  <2>5. Holds(d, Missing')
    BY <1>1, <1>2, <1>3, <2>2, <2>4 DEF Holds
  <2>6. me'[g] = d /\ \A h \in Drivers \ {g} : me'[h] = me[h]
    BY <2>1 DEF TypeInv, TypeOK
  <2>7. ~Awaited'
    BY <1>1, <2>2, <2>6, StillNobody
  <2> QED BY <1>1, <1>2, <1>4, <2>5, <2>6, <2>7, OneSettled
<1>6. CASE ~ok
  <2> DEFINE d == [me[g] EXCEPT !.ok = FALSE, !.pc = "learnt"]
  <2>1. me' = [me EXCEPT ![g] = d] /\ learned' = learned
    BY <1>6 DEF AppendOutcome
  <2>2. /\ d.run = me[g].run /\ d.pc = "learnt" /\ d.ok = FALSE
        /\ d.results = me[g].results /\ d.written = me[g].written
    BY <1>1 DEF Driver
  <2> HIDE DEF d
  <2>3. Holds(d, Missing')
    BY <1>1, <1>2, <1>3, <2>2 DEF Holds
  <2>4. me'[g] = d /\ \A h \in Drivers \ {g} : me'[h] = me[h]
    BY <2>1 DEF TypeInv, TypeOK
  <2>5. ~Awaited'
    BY <1>1, <2>2, <2>4, StillNobody
  <2> QED BY <1>1, <1>2, <1>4, <2>3, <2>4, <2>5, OneSettled
<1> QED BY <1>5, <1>6

\* The ends of an iteration.
LEMMA EndsSettled ==
  ASSUME TypeInv, DriverInv, Settled, SingleDriver, SingleDriver', NEW g \in Drivers,
         Complete(g) \/ Again(g) \/ Fail(g)
  PROVE  Settled'
<1>1. /\ me[g] \in Driver /\ me[g].run \in Run /\ store \in Run /\ Driving(g)
      /\ UNCHANGED <<approval, answered, learned>> /\ Missing' = Missing
      /\ me[g].pc # "park"
  BY DEF Complete, Again, Fail, Transition, Driving, history, TypeInv, TypeOK, Driver, Missing
<1>2. /\ Holds(me[g], Missing)
      /\ me[g].pc \in {"complete", "again", "fail"} => store.status # "completed"
  BY <1>1 DEF Settled
<1>3. me[g].pc \in {"complete", "again"} => Missing = {} /\ me[g].run.pending = NoDecision /\ me[g].ok
  <2>1. me[g].pc \in {"complete", "again"} => me[g].run.pending = NoDecision
    BY DEF DriverInv, StoredPending, PendingFits, Fresh
  <2> QED BY <1>1, <1>2, <2>1, OwedNothing DEF Holds
<1>4. CASE Complete(g)
  <2> DEFINE r == [me[g].run EXCEPT !.status = "completed"]
             label == IF StoreOk(g) THEN "completed" ELSE "fail"
             d == [me[g] EXCEPT !.run = r, !.pc = label]
  <2>1. me[g].pc = "complete" /\ me' = [me EXCEPT ![g] = d] /\ label \in {"completed", "fail"}
    BY <1>4 DEF Complete, Transition
  <2>2. store'.status = "completed" => label = "completed"
    BY <1>1, <1>2, <1>4 DEF Complete, Transition, Run
  <2> HIDE DEF label
  <2>3. d.run.pending = NoDecision /\ d.pc = label /\ d.results = me[g].results
        /\ d.written = me[g].written /\ d.ok = me[g].ok
    BY <1>1, <1>3, <2>1 DEF Driver, Run
  <2> HIDE DEF d
  <2>4. Holds(d, Missing)
    BY <1>2, <1>3, <2>1, <2>3 DEF Holds
  <2>5. me'[g] = d /\ \A h \in Drivers \ {g} : me'[h] = me[h]
    BY <2>1 DEF TypeInv, TypeOK
  <2>6. ~Awaited'
    BY <1>1, <2>1, <2>3, <2>5, StillNobody
  <2> QED BY <1>1, <1>3, <2>1, <2>2, <2>3, <2>4, <2>5, <2>6, OneSettled
<1>5. CASE Again(g)
  <2> DEFINE r == [me[g].run EXCEPT !.iteration = @ + 1, !.status = "observing"]
             label == IF StoreOk(g) THEN "top" ELSE "fail"
  <2>1. me[g].pc = "again" /\ me' = [me EXCEPT ![g] = At(label, r)] /\ label \in {"top", "fail"}
    BY <1>5 DEF Again
  <2>2. store'.status # "completed"
    BY <1>1, <1>2, <1>5 DEF Again, Run
  <2>3. r.status = "observing"
    BY <1>1 DEF Run
  <2> HIDE DEF label, r
  <2>4. Holds(At(label, r), Missing)
    BY <1>3, <2>1, <2>3 DEF Holds, At
  <2>5. me'[g] = At(label, r) /\ \A h \in Drivers \ {g} : me'[h] = me[h]
    BY <2>1 DEF TypeInv, TypeOK
  <2>6. ~Awaited'
    <3>1. me'[g].pc # "load"
      BY <2>1, <2>5 DEF At
    <3> QED BY <1>1, <2>5, <3>1, StillNobody
  <2> QED BY <1>1, <1>3, <2>1, <2>2, <2>4, <2>5, <2>6, OneSettled
<1>6. CASE Fail(g)
  <2> DEFINE d == [me[g] EXCEPT !.run.status = "failed", !.run.completedAt = TRUE, !.pc = "failed"]
  <2>1. me[g].pc = "fail" /\ me' = [me EXCEPT ![g] = d]
    <3>1. me[g].pc = "fail" /\ me' = [me EXCEPT ![g].run.status = "failed",
                                    ![g].run.completedAt = TRUE, ![g].pc = "failed"]
      BY <1>6 DEF Fail
    <3> QED BY <3>1
  <2>2. store'.status # "completed"
    <3>1. store' \in {store, [store EXCEPT !.status = "failed"]} /\ store.status # "completed"
      BY <1>1, <1>2, <1>6 DEF Fail, Settled
    <3> HIDE DEF d
    <3> QED BY <1>1, <3>1 DEF Run
  <2>3. /\ d.run.pending = me[g].run.pending /\ d.run.status = "failed" /\ d.pc = "failed"
        /\ d.results = me[g].results /\ d.written = me[g].written
    BY <1>1 DEF Driver, Run
  <2> HIDE DEF d
  <2>4. Holds(d, Missing)
    BY <1>2, <2>3 DEF Holds
  <2>5. me'[g] = d /\ \A h \in Drivers \ {g} : me'[h] = me[h]
    BY <2>1 DEF TypeInv, TypeOK
  <2>6. ~Awaited'
    BY <1>1, <2>3, <2>5, StillNobody
  <2> QED BY <1>1, <1>2, <2>1, <2>2, <2>4, <2>5, <2>6, OneSettled
<1> QED BY <1>4, <1>5, <1>6

\* The ways out with a save, and without one.
LEMMA ExitsSettled ==
  ASSUME TypeInv, DriverInv, Settled, SingleDriver, SingleDriver', NEW g \in Drivers,
         Park(g) \/ Completed(g) \/ Failed(g)
  PROVE  Settled'
<1>1. /\ me[g] \in Driver /\ me[g].run \in Run /\ Driving(g) /\ Missing' = Missing
      /\ me' = [me EXCEPT ![g] = Off] /\ approval' = approval
  BY DEF Park, Completed, Failed, Return, Driving, history, TypeInv, TypeOK, Driver, Missing
<1>2. ~Driving(g)' /\ me'[g].pc = "off" /\ \A h \in Drivers \ {g} : me'[h] = me[h]
  BY <1>1 DEF Off, At, Driving, TypeInv, TypeOK
<1>3. /\ Holds(me[g], Missing)
      /\ store.status = "completed" => Missing = {}
      /\ me[g].pc # "park" => ~Awaited'
  BY <1>1, <1>2, StillNobody DEF Settled
<1>4. CASE Park(g) \/ Failed(g)
  <2>1. store' \in {store, me[g].run} /\ me[g].pc \in {"park", "failed"}
    BY <1>4 DEF Park, Failed, Save
  <2>2. me[g].pc = "park" => store.pending = NoDecision
    BY DEF DriverInv, StoredPending, PendingFits
  <2> QED BY <1>1, <1>2, <1>3, <2>1, <2>2, OneSettled DEF Holds
<1>5. CASE Completed(g)
  <2>1. me[g].pc = "completed"
    BY <1>5 DEF Completed
  <2>2. Missing = {}
    BY <1>1, <1>3, <2>1, OwedNothing DEF Holds
  <2> QED BY <1>1, <1>2, <2>2, OneSettled
<1> QED BY <1>4, <1>5

\* Nothing but positions outside engine.Run changes.
LEMMA OutsideSettled ==
  ASSUME Settled, UNCHANGED <<store, answered, learned>>, Awaited' => Awaited,
         \A h \in Drivers : me'[h] = me[h] \/ ~Driving(h)'
  PROVE  Settled'
<1>1. Missing' = Missing
  BY DEF Missing
<1> QED BY <1>1 DEF Settled, Driving

LEMMA ReturnSettled ==
  ASSUME TypeInv, Settled, NEW g \in Drivers, Return(g),
         UNCHANGED <<store, approval, answered, learned>>
  PROVE  Settled'
<1>1. (\A h \in Drivers : me'[h] = me[h] \/ ~Driving(h)') /\ (Awaited' => Awaited)
  BY DEF Return, Off, At, Driving, Awaited, TypeInv, TypeOK
<1> QED BY <1>1, OutsideSettled

LEMMA StepSettled ==
  ASSUME TypeInv, DriverInv, Settled, SingleDriver, SingleDriver', NEW g \in Drivers, Step(g)
  PROVE  Settled'
<1>1. CASE Start(g) /\ Return(g)
  BY <1>1, ReturnSettled DEF Start, history
<1>2. CASE HeadParked(g)
  <2>1. CASE StoreOk(g) /\ approval.state = "pending"
    BY <1>2, <2>1, ReturnSettled DEF HeadParked, history
  <2>2. CASE StoreOk(g) /\ approval.state # "pending"
    <3>1. me[g].run.iteration < MaxIterations
      BY <1>2, RunLoopAssumption
         DEF HeadParked, OverLimit, TypeInv, TypeOK, Driver, Run, Iteration
    <3> QED BY <1>2, <2>2, <3>1, DecisionSettled DEF HeadParked, TakesUp
  <2>3. CASE ~StoreOk(g)
    BY <1>2, <2>3, HeadSettled DEF HeadParked
  <2> QED BY <2>1, <2>2, <2>3
<1>3. CASE Resume(g)
  <2>1. CASE StoreOk(g) /\ Parked(store)
    <3>1. /\ me'[g] = At("start", store) /\ \A h \in Drivers \ {g} : me'[h] = me[h]
          /\ UNCHANGED <<store, answered, learned>>
      BY <1>3, <2>1 DEF Resume, history, TypeInv, TypeOK
    <3>2. Missing = {} /\ Missing' = Missing /\ store.status = "awaiting_approval"
      <4>1. Awaited
        BY <1>3 DEF Resume, Awaited
      <4> QED BY <2>1, <3>1, <4>1 DEF Settled, Parked, Missing
    <3>3. Holds(At("start", store), Missing) /\ Driving(g)'
      BY <3>1, <3>2 DEF Holds, At, Driving
    <3> QED BY <3>1, <3>2, <3>3, OneSettled
  <2>2. CASE ~(StoreOk(g) /\ Parked(store))
    BY <1>3, <2>2, ReturnSettled DEF Resume, history
  <2> QED BY <2>1, <2>2
<1>4. CASE ~(Start(g) /\ Return(g)) /\ ~HeadParked(g) /\ ~Resume(g)
  BY <1>4, StagesSettled, HeadSettled, DecisionSettled, ExecuteSettled, AppendSettled,
     EndsSettled, ExitsSettled, Zenon DEF Step
<1> QED BY <1>1, <1>2, <1>3, <1>4

LEMMA SteerSettled ==
  ASSUME TypeInv, Settled, NEW s \in Steerers,
         SteerStep(s) \/ \E cmd \in Commands : Issue(s, cmd)
  PROVE  Settled'
<1>1. CASE Writes
  <2>1. PICK status \in {"paused", "cancelled", "observing"} : WriteStatus(status)
    BY <1>1 DEF Writes
  <2>2. /\ status \in Status /\ store \in Run /\ UNCHANGED <<me, answered, learned>>
        /\ Missing' = Missing
    BY <2>1 DEF Status, Terminal, LoopStage, WriteStatus, history, TypeInv, TypeOK, Missing
  <2>3. store'.status \in {store.status, status} /\ store'.pending = store.pending
        /\ approval' = approval
    BY <2>1, <2>2 DEF WriteStatus, Run
  <2> QED BY <2>2, <2>3 DEF Settled, Driving, Awaited
<1>2. CASE Grants
  <2>1. \A h \in Drivers : me'[h] = me[h] \/ ~Driving(h)'
    BY <1>2 DEF Grants, At, Driving, TypeInv, TypeOK
  <2>2. Awaited
    BY <1>2 DEF Grants, Resolve, Resolvable, Awaited
  <2> QED BY <1>2, <2>1, <2>2, OutsideSettled DEF Grants
<1>3. CASE DenyPending \/ Refused
  <2>1. Awaited' => Awaited
    BY <1>3 DEF DenyPending, Refused, Resolve, Resolvable, Awaited, history
  <2> QED BY <1>3, <2>1, OutsideSettled DEF DenyPending, Refused, history
<1> QED BY <1>1, <1>2, <1>3, SteerShapes

LEMMA SettledStep ==
  ASSUME Workers = {}
  PROVE  TypeInv /\ DriverInv /\ DriverInv' /\ Settled /\ [Next]_vars => Settled'
<1> SUFFICES ASSUME TypeInv, DriverInv, DriverInv', Settled, [Next]_vars PROVE Settled'
  OBVIOUS
<1>1. SingleDriver /\ SingleDriver'
  BY DEF DriverInv, Token
<1>2. ASSUME NEW g \in Drivers, Step(g) PROVE Settled'
  BY <1>1, <1>2, StepSettled
<1>3. ASSUME NEW g \in Drivers, CtxEnds(g) PROVE Settled'
  BY <1>3, OutsideSettled DEF CtxEnds, history, Awaited
<1>4. ASSUME NEW s \in Steerers, SteerStep(s) \/ \E cmd \in Commands : Issue(s, cmd)
      PROVE  Settled'
  BY <1>4, SteerSettled
<1>5. CASE UNCHANGED vars
  BY <1>5, OutsideSettled DEF vars, Awaited
<1>6. ASSUME NEW g \in Submitters, PublishPanics(g) PROVE Settled'
  BY <1>6, ReturnSettled DEF PublishPanics, history, Drivers
<1>7. CASE ServeEnds
  <2>1. \A h \in Drivers : me'[h] = me[h] \/ me'[h].pc = "off"
    BY <1>7 DEF ServeEnds, Off, At
  <2> QED BY <1>7, <2>1, OutsideSettled DEF ServeEnds, history, Awaited, Driving
<1>8. CASE StoreTurns
  BY <1>8, OutsideSettled DEF StoreTurns, history, Awaited
<1> QED BY <1>2, <1>3, <1>4, <1>5, <1>6, <1>7, <1>8 DEF Next

LEMMA SettledInit == Init => Settled
<1> SUFFICES ASSUME Init PROVE Settled
  OBVIOUS
<1>1. Missing = {} /\ store.status = "pending"
  BY DEF Init, NewRun, Missing
<1>2. \A g \in Drivers : Driving(g) => me[g] = At("start", NewRun)
  BY DEF Init, At, Off, Driving
<1>3. Holds(At("start", NewRun), {})
  BY DEF Holds, At, NewRun
<1> QED BY <1>1, <1>2, <1>3 DEF Settled

\* A run stored as completed has every result Praxis returned for it in
\* Mnemos, over suspensions, failed writes and what steerers do meanwhile.
THEOREM CompletedLearned ==
  ASSUME Workers = {}
  PROVE  Spec => []CompletedHasLearned
<1>1. TypeInv /\ DriverInv /\ Settled /\ [Next]_vars => (TypeInv /\ DriverInv /\ Settled)'
  BY TypeStep, DriverStep, SettledStep
<1>2. Settled => CompletedHasLearned
  BY DEF Settled, Missing, CompletedHasLearned
<1> QED BY <1>1, <1>2, TypeInit, DriverInit, SettledInit, PTL DEF Spec

(***************************************************************************)
(* In flight: who strands a run                                            *)
(***************************************************************************)
\* What a driver will leave in the row if it returns from where it is.
Leaving(d) ==
  /\ d.pc \in {"raise", "park"} => d.run.status = "awaiting_approval"
  /\ d.pc = "failed" => d.run.status = "failed" /\ d.run.completedAt
  /\ d.pc = "start" => d.run.status \notin Terminal

Manned == \A g \in Drivers : Leaving(me[g])

\* Away from the gate and the failure, a driver that goes on has nothing to
\* promise.
LEMMA GoesOn ==
  ASSUME TypeInv, NEW g \in Drivers, me[g].pc \notin {"gate", "fail"},
         \/ Works(g) \/ TakesUp(g) \/ Again(g)
         \/ \E answer \in Answers : Execute(g, answer)
         \/ \E ok, gated \in BOOLEAN, n \in 0..MaxActions : Deliberate(g, ok, n, gated)
  PROVE  /\ me'[g].pc \notin {"raise", "park", "failed", "start", "off", "load"}
         /\ \A h \in Drivers \ {g} : me'[h] = me[h]
<1>1. me \in [Drivers -> Driver] /\ me[g] \in Driver
  BY DEF TypeInv, TypeOK
<1>2. CASE Works(g)
  <2>1. PICK d \in Driver : WorksAs(g, d)
    BY <1>2 DEF Works
  <2>2. me'[g] = d /\ \A h \in Drivers \ {g} : me'[h] = me[h]
    BY <1>1, <2>1 DEF WorksAs
  <2>3. <<me[g].pc, d.pc>> \in Flow
    BY <2>1 DEF WorksAs
  <2> QED BY <2>2, <2>3 DEF Flow
<1>3. CASE TakesUp(g)
  BY <1>1, <1>3 DEF TakesUp, Driver
<1>4. CASE Again(g)
  <2> DEFINE r == [me[g].run EXCEPT !.iteration = @ + 1, !.status = "observing"]
             label == IF StoreOk(g) THEN "top" ELSE "fail"
  <2>1. label \in {"top", "fail"} /\ me' = [me EXCEPT ![g] = At(label, r)]
    BY <1>4 DEF Again
  <2> HIDE DEF r, label
  <2> QED BY <1>1, <2>1 DEF At
<1>5. ASSUME NEW answer \in Answers, Execute(g, answer)
      PROVE  /\ me'[g].pc \in {"execute", "acted"}
             /\ \A h \in Drivers \ {g} : me'[h] = me[h]
  BY <1>1, <1>5 DEF Execute, Driver
<1>6. ASSUME NEW ok \in BOOLEAN, NEW gated \in BOOLEAN, NEW n \in 0..MaxActions,
             Deliberate(g, ok, n, gated)
      PROVE  /\ me'[g].pc \in {"gate", "act", "skip", "fail"}
             /\ \A h \in Drivers \ {g} : me'[h] = me[h]
  BY <1>1, <1>6 DEF Deliberate, Driver
<1> QED BY <1>2, <1>3, <1>4, <1>5, <1>6

LEMMA GateOrFail ==
  ASSUME NEW g \in Drivers, Step(g), me[g].pc \in {"gate", "fail"}
  PROVE  Gate(g) \/ Fail(g)
BY Zenon
   DEF Step, Start, HeadFails, HeadFresh, HeadParked, Unpark, Observe, Recall, Understand, Signals,
       Decide, Deliberate, Raise, Park, Act, Execute, Acted, SkipActing, Skipped, Learn,
       AppendOutcome, Appended, Learnt, Complete, Completed, Again, Failed, Resume, Transition,
       EndStage

\* A driver stays in the loop, or what it leaves is not a stage of the loop, or
\* the store refuses what it writes last.
LEMMA StepManned ==
  ASSUME TypeInv, DriverInv, Manned, NEW g \in Drivers, Step(g)
  PROVE  /\ Leaving(me'[g]) /\ \A h \in Drivers \ {g} : me'[h] = me[h]
         /\ \/ Driving(g)'
            \/ store'.status \notin LoopStage
            \/ store' = store /\ ~Driving(g)
            \/ Driving(g) /\ ~StoreOk(g)
<1>1. /\ me \in [Drivers -> Driver] /\ me[g] \in Driver /\ me[g].run \in Run /\ store \in Run
      /\ Leaving(me[g])
  BY DEF Manned, TypeInv, TypeOK, Driver
<1>2. {"awaiting_approval", "failed", "completed"} \cap LoopStage = {} /\ "awaiting_approval" \notin Terminal
  BY DEF LoopStage, Terminal
<1>3. CASE Gate(g)
  <2>1. /\ me'[g].run.status = "awaiting_approval" /\ me'[g].pc \in {"raise", "act", "skip", "fail"}
        /\ \A h \in Drivers \ {g} : me'[h] = me[h]
    BY <1>1, <1>3 DEF Gate, Transition, Driver, Run
  <2> QED BY <2>1 DEF Leaving, Driving
<1>4. CASE Fail(g)
  <2>1. /\ me'[g].run.status = "failed" /\ me'[g].run.completedAt /\ me'[g].pc = "failed"
        /\ \A h \in Drivers \ {g} : me'[h] = me[h]
    BY <1>1, <1>4 DEF Fail, Driver, Run
  <2> QED BY <2>1 DEF Leaving, Driving
<1>5. CASE Raise(g)
  <2>1. /\ me'[g].run.status = me[g].run.status /\ me'[g].pc = "park" /\ me[g].pc = "raise"
        /\ \A h \in Drivers \ {g} : me'[h] = me[h]
    BY <1>1, <1>5 DEF Raise, Driver, Run
  <2> QED BY <1>1, <2>1 DEF Leaving, Driving
<1>6. ASSUME Return(g)
      PROVE  /\ Leaving(me'[g]) /\ \A h \in Drivers \ {g} : me'[h] = me[h]
  BY <1>1, <1>6 DEF Return, Off, At, Leaving
<1>7. CASE Park(g) \/ Failed(g)
  <2>1. CASE StoreOk(g)
    <3>1. Valid(me[g].run) /\ store' = me[g].run
      BY <1>1, <1>7, <2>1 DEF Park, Failed, Save, Valid, Leaving, Terminal
    <3> QED BY <1>1, <1>2, <1>6, <1>7, <3>1 DEF Park, Failed, Leaving
  <2>2. CASE ~StoreOk(g)
    BY <1>6, <1>7, <2>2 DEF Park, Failed, Driving
  <2> QED BY <2>1, <2>2
<1>8. CASE Completed(g) /\ ~StoreOk(g)
  BY <1>6, <1>8 DEF Completed, Driving
<1>12. CASE Completed(g) /\ StoreOk(g)
  <2> DEFINE r == [me[g].run EXCEPT !.status = "completed", !.completedAt = TRUE]
  <2>1. r.status = "completed" /\ r.completedAt
    BY <1>1 DEF Run
  <2>2. Save(g, r) /\ Return(g) /\ StoreOk(g)
    BY <1>12 DEF Completed
  <2> HIDE DEF r
  <2>3. store' = r
    BY <2>1, <2>2 DEF Save, Valid
  <2> QED BY <1>2, <1>6, <2>1, <2>2, <2>3
<1>9. CASE Resume(g)
  <2>1. CASE StoreOk(g) /\ Parked(store)
    <3>1. me'[g] = At("start", store) /\ \A h \in Drivers \ {g} : me'[h] = me[h]
      BY <1>1, <1>9, <2>1 DEF Resume
    <3> QED BY <1>2, <2>1, <3>1 DEF Parked, At, Leaving, Driving
  <2>2. CASE ~(StoreOk(g) /\ Parked(store))
    BY <1>6, <1>9, <2>2 DEF Resume, Driving
  <2> QED BY <2>1, <2>2
\* A run that is driven is valid, and nothing is pending at the head of the loop.
<1>10. ~(Start(g) /\ Return(g)) /\ ~(HeadParked(g) /\ Return(g))
  <2>1. Start(g) => Valid(me[g].run) /\ ~Return(g)
    <3> SUFFICES ASSUME Start(g) PROVE Valid(me[g].run) /\ ~Return(g)
      OBVIOUS
    <3>1. me[g].pc = "start" /\ Valid(me[g].run)
      BY <1>1 DEF Start, Leaving, Valid
    <3>2. me'[g].pc \in {"top", "fail"}
      BY <1>1, <3>1 DEF Start, Goto, Driver
    <3> QED BY <1>1, <3>1, <3>2 DEF Return, Off, At
  <2>2. HeadParked(g) => ~Return(g)
    <3> SUFFICES ASSUME HeadParked(g) PROVE ~Return(g)
      OBVIOUS
    <3>1. me[g].pc = "top"
      BY DEF HeadParked
    <3>2. approval.state # "pending"
      BY <3>1 DEF DriverInv, Token
    <3>3. me'[g].pc \in {"unpark", "fail"}
      BY <1>1, <3>2 DEF HeadParked, Goto, Driver
    <3> QED BY <1>1, <3>3 DEF Return, Off, At
  <2> QED BY <2>1, <2>2
<1>11. CASE ~Gate(g) /\ ~Fail(g) /\ ~Raise(g) /\ ~Park(g) /\ ~Failed(g) /\ ~Completed(g)
            /\ ~Resume(g)
  <2>1. me[g].pc \notin {"gate", "fail"}
    BY <1>11, GateOrFail
  <2>2. HeadFails(g) \/ HeadFresh(g) \/ Appended(g) => ~Return(g)
    BY <1>1 DEF HeadFails, HeadFresh, Appended, Goto, Return, Off, At, Driver
  <2>3. Leaves(g) => Return(g)
    BY DEF Leaves, Return
  <2>4. \/ Works(g) \/ TakesUp(g) \/ Again(g)
        \/ \E answer \in Answers : Execute(g, answer)
        \/ \E ok, gated \in BOOLEAN, n \in 0..MaxActions : Deliberate(g, ok, n, gated)
    BY <1>10, <1>11, <2>2, <2>3, StagesWork, HeadShapes, WriteShapes, Zenon DEF Step
  <2>5. /\ me'[g].pc \notin {"raise", "park", "failed", "start", "off", "load"}
        /\ \A h \in Drivers \ {g} : me'[h] = me[h]
    BY <2>1, <2>4, GoesOn
  <2> QED BY <2>5 DEF Leaving, Driving
<1> QED BY <1>3, <1>4, <1>5, <1>7, <1>8, <1>9, <1>11, <1>12

\* No steerer but resume writes a stage of the loop, and none stops a driver.
LEMMA SteerManned ==
  ASSUME TypeInv, Manned, NEW s \in Steerers, SteerStep(s) \/ \E cmd \in Commands : Issue(s, cmd)
  PROVE  /\ Manned'
         /\ \A g \in Drivers : Driving(g) => Driving(g)'
         /\ store'.status = store.status \/ store'.status \notin LoopStage \/ ResumePaused(s)
<1>1. ASSUME UNCHANGED me
      PROVE  Manned' /\ \A g \in Drivers : Driving(g) => Driving(g)'
  BY <1>1 DEF Manned, Driving
<1>2. ASSUME NEW status \in {"paused", "cancelled"}, WriteStatus(status)
      PROVE  UNCHANGED me /\ (store'.status = store.status \/ store'.status \notin LoopStage)
  <2>1. store \in Run /\ me' = me
    BY <1>2 DEF WriteStatus, TypeInv, TypeOK
  <2> QED BY <1>2, <2>1 DEF WriteStatus, LoopStage, Run
<1>3. CASE Pause(s) \/ Cancel(s) \/ DenyCancels(s) \/ Halt(s)
  BY <1>1, <1>2, <1>3 DEF Pause, Cancel, DenyCancels, Halt
<1>4. CASE ResumePaused(s)
  BY <1>1, <1>4 DEF ResumePaused, WriteStatus
<1>5. CASE Approve(s)
  <2>1. store' = store
    BY <1>5 DEF Approve
  <2>2. ASSUME NEW g \in Resumers, me[g].pc = "off", me' = [me EXCEPT ![g] = At("load", NewRun)]
        PROVE  Manned' /\ \A h \in Drivers : Driving(h) => Driving(h)'
    <3>1. /\ me'[g].pc = "load" /\ ~Driving(g)
          /\ \A h \in Drivers \ {g} : me'[h] = me[h]
      BY <2>2 DEF At, Driving, Drivers, TypeInv, TypeOK
    <3> QED BY <3>1 DEF Leaving, Manned, Driving
  <2> QED BY <1>1, <1>5, <2>1, <2>2 DEF Approve
<1>6. CASE ApproveRefused(s) \/ Deny(s) \/ HaltDenies(s) \/ \E cmd \in Commands : Issue(s, cmd)
  BY <1>1, <1>6 DEF ApproveRefused, Deny, HaltDenies, DenyPending, Issue
<1> QED BY <1>3, <1>4, <1>5, <1>6 DEF SteerStep

LEMMA MannedStep ==
  ASSUME Workers = {}
  PROVE  TypeInv /\ DriverInv /\ Manned /\ [Next]_vars =>
           Manned' /\ (InFlightIsDriven /\ ~InFlightIsDriven' => Strands)
<1> SUFFICES ASSUME TypeInv, DriverInv, Manned, [Next]_vars
             PROVE  Manned' /\ (InFlightIsDriven /\ ~InFlightIsDriven' => Strands)
  OBVIOUS
<1>1. ASSUME NEW g \in Drivers, Step(g)
      PROVE  Manned' /\ (InFlightIsDriven /\ ~InFlightIsDriven' => Strands)
  <2>1. /\ Leaving(me'[g]) /\ \A h \in Drivers \ {g} : me'[h] = me[h]
        /\ \/ Driving(g)'
           \/ store'.status \notin LoopStage
           \/ store' = store /\ ~Driving(g)
           \/ Driving(g) /\ ~StoreOk(g)
    BY <1>1, StepManned
  <2>2. Manned'
    BY <2>1 DEF Manned
  <2>3. CASE Driving(g)' \/ store'.status \notin LoopStage
    BY <2>2, <2>3 DEF InFlightIsDriven
  <2>4. CASE store' = store /\ ~Driving(g)
    BY <2>1, <2>2, <2>4 DEF InFlightIsDriven, Driving
  <2>5. CASE Driving(g) /\ ~Driving(g)' /\ ~StoreOk(g)
    BY <2>2, <2>5 DEF Strands
  <2> QED BY <2>1, <2>3, <2>4, <2>5
<1>2. ASSUME UNCHANGED <<store, me>> PROVE Manned' /\ (InFlightIsDriven => InFlightIsDriven')
  BY <1>2 DEF Manned, InFlightIsDriven, Driving
<1>3. ASSUME NEW g \in Drivers, CtxEnds(g)
      PROVE  Manned' /\ (InFlightIsDriven => InFlightIsDriven')
  BY <1>2, <1>3 DEF CtxEnds
<1>4. ASSUME NEW s \in Steerers, SteerStep(s) \/ \E cmd \in Commands : Issue(s, cmd)
      PROVE  Manned' /\ (InFlightIsDriven /\ ~InFlightIsDriven' => Strands)
  <2>1. /\ Manned'
        /\ \A g \in Drivers : Driving(g) => Driving(g)'
        /\ store'.status = store.status \/ store'.status \notin LoopStage \/ ResumePaused(s)
    BY <1>4, SteerManned
  <2> QED BY <2>1 DEF InFlightIsDriven, Strands
\* The exits from outside leave nothing in hand.
<1>5. ASSUME NEW g \in Submitters, PublishPanics(g) PROVE Manned' /\ Strands
  <2>1. \A h \in Drivers : me'[h] = me[h] \/ me'[h].pc = "off"
    BY <1>5 DEF PublishPanics, Return, Off, At, TypeInv, TypeOK
  <2> QED BY <1>5, <2>1 DEF Manned, Leaving, Strands
<1>6. CASE ServeEnds
  <2>1. \A h \in Drivers : me'[h] = me[h] \/ me'[h].pc = "off"
    BY <1>6 DEF ServeEnds, Off, At
  <2> QED BY <1>6, <2>1 DEF Manned, Leaving, Strands
<1>7. CASE StoreTurns \/ UNCHANGED vars
  BY <1>2, <1>7 DEF StoreTurns, vars
<1> QED BY <1>1, <1>3, <1>4, <1>5, <1>6, <1>7 DEF Next

LEMMA MannedInit == Init => Manned
<1> SUFFICES ASSUME Init PROVE Manned
  OBVIOUS
<1>1. "pending" \notin LoopStage \cup Terminal
  BY DEF LoopStage, Terminal
<1>2. \A g \in Drivers : me[g].pc \in {"start", "off"} /\ me[g].run.status = "pending"
  BY DEF Init, At, Off, NewRun
<1> QED BY <1>1, <1>2 DEF Manned, Leaving

\* Over any number of suspensions, approvals, cancellations and refused writes,
\* a run shown in a stage of the loop loses its driver only to an end of the
\* process, a panic in publish or a last write the store refuses, and is shown
\* in one without a driver only by the resume command.
THEOREM StrandedOnlyThus ==
  ASSUME Workers = {}
  PROVE  Spec => StrandedOnlyByExit
<1>1. TypeInv /\ DriverInv /\ Manned /\ [Next]_vars => (TypeInv /\ DriverInv /\ Manned)'
  BY TypeStep, DriverStep, MannedStep
<1>2. TypeInv /\ DriverInv /\ Manned /\ [Next]_vars =>
        [InFlightIsDriven /\ ~InFlightIsDriven' => Strands]_vars
  BY MannedStep
<1> QED BY <1>1, <1>2, TypeInit, DriverInit, MannedInit, PTL DEF Spec, StrandedOnlyByExit

(***************************************************************************)
(* The refinement: a run that nobody pauses, cancels or stops from outside *)
(* keeps to the table of run_fsm.go, which the engine never consults,      *)
(* through the gate, every resume and every iteration.                     *)
(***************************************************************************)

\* Neither a command but approve, nor a deadline, nor a client that leaves, nor
\* a store that fails.  Each of them takes the status out of the table: a pending
\* run fails.  A panic in publish and an end of the process do not.
Undisturbed ==
  /\ Workers = {} /\ Commands \subseteq {"approve"}
  /\ HasDeadline = FALSE /\ CtxMayEnd = FALSE /\ StoreMayFail = FALSE

\* The stored status while a driver is at a position.
Shown(pc) ==
  IF pc \in {"start", "top"} THEN {"pending", "observing", "awaiting_approval"}
  ELSE IF pc = "observe" THEN {"pending", "observing"}
  ELSE IF pc \in {"recall", "understand"} THEN {"observing"}
  ELSE IF pc \in {"signals", "decide"} THEN {"understanding"}
  ELSE IF pc \in {"deliberate", "gate"} THEN {"deciding"}
  ELSE IF pc \in {"raise", "park", "unpark"} THEN {"awaiting_approval"}
  ELSE IF pc \in {"act", "skip"} THEN {"deciding", "awaiting_approval"}
  ELSE IF pc \in {"execute", "acted", "skipped", "learn"} THEN {"acting"}
  ELSE IF pc \in {"append", "learnt", "complete", "again"} THEN {"learning"}
  ELSE IF pc = "completed" THEN {"completed"}
  ELSE IF pc = "fail" THEN LoopStage
  ELSE {"failed"}

\* A driver d and the row s agree on the status; a run is over its limit only
\* right after an iteration.
Tracks(d, s) ==
  /\ s.status = d.run.status /\ s.status \in Shown(d.pc)
  /\ d.run.pending # NoDecision => d.run.iteration < MaxIterations
  /\ d.pc \in {"start", "top"} =>
       /\ d.run.status # "observing" => d.run.iteration < MaxIterations
       /\ d.run.status = "awaiting_approval" => d.run.pending # NoDecision

Tracked ==
  /\ ctxDone = {} /\ storeUp
  /\ store.pending # NoDecision => store.iteration < MaxIterations
  /\ \A g \in Drivers : Driving(g) => Tracks(me[g], store)

\* A step of the table, or none.
Moves == store'.status = store.status \/ store'.status \in Successors[store.status]

\* One goroutine drives before and after the step: it is enough to look at g.
LEMMA OneTracked ==
  ASSUME SingleDriver, SingleDriver', NEW g \in Drivers, Driving(g) \/ Driving(g)',
         \A h \in Drivers \ {g} : me'[h] = me[h], ctxDone' = {}, storeUp',
         store'.pending # NoDecision => store'.iteration < MaxIterations,
         Driving(g)' => Tracks(me'[g], store')
  PROVE  Tracked'
<1>1. \A h \in Drivers \ {g} : ~Driving(h)'
  BY DEF SingleDriver, Driving
<1> QED BY <1>1 DEF Tracked

\* The steps within an iteration.
LEMMA WithinTracked ==
  ASSUME TypeInv, Tracked, SingleDriver, SingleDriver', NEW g \in Drivers, Driving(g),
         NEW d \in Driver, me' = [me EXCEPT ![g] = d], UNCHANGED <<ctxDone, storeUp>>,
         store' \in {store, [store EXCEPT !.status = d.run.status], d.run},
         store'.status = d.run.status, d.run.status \in Shown(d.pc),
         d.run.iteration = me[g].run.iteration, d.run.pending \in {NoDecision, me[g].run.pending},
         d.pc \notin {"start", "off", "load"}, d.pc = "top" => me[g].pc = "start" /\ d.run = me[g].run
  PROVE  Tracked'
<1>1. /\ me[g] \in Driver /\ store \in Run /\ Tracks(me[g], store) /\ ctxDone = {} /\ storeUp
      /\ store.pending # NoDecision => store.iteration < MaxIterations
      /\ me'[g] = d /\ \A h \in Drivers \ {g} : me'[h] = me[h]
  BY DEF Tracked, TypeInv, TypeOK
<1>2. Tracks(d, store')
  BY <1>1 DEF Tracks
<1>3. store'.pending # NoDecision => store'.iteration < MaxIterations
  <2>1. CASE store' = d.run
    BY <1>2, <2>1 DEF Tracks
  <2>2. CASE store' \in {store, [store EXCEPT !.status = d.run.status]}
    BY <1>1, <2>2 DEF Run
  <2> QED BY <2>1, <2>2
<1> QED BY <1>1, <1>2, <1>3, OneTracked

LEMMA TransitionTracked ==
  ASSUME TypeInv, Tracked, SingleDriver, SingleDriver', NEW g \in Drivers,
         NEW from, NEW to \in Status, NEW then \in Labels \ {"top", "start", "off", "load"},
         Transition(g, from, to, then), from \notin {"off", "load"},
         to \in Shown(then), \A s \in Shown(from) : s = to \/ to \in Successors[s]
  PROVE  Tracked' /\ Moves
<1> DEFINE r == [me[g].run EXCEPT !.status = to]
           d == [me[g] EXCEPT !.run = r, !.pc = then]
<1>1. /\ me[g] \in Driver /\ me[g].run \in Run /\ store \in Run /\ me[g].pc = from
      /\ Driving(g) /\ Tracks(me[g], store) /\ ctxDone = {} /\ storeUp /\ StoreOk(g)
  BY DEF Transition, Driving, Tracked, StoreOk, TypeInv, TypeOK, Driver
<1>2. /\ me' = [me EXCEPT ![g] = d] /\ store' = [store EXCEPT !.status = to]
      /\ UNCHANGED <<ctxDone, storeUp>>
  BY <1>1 DEF Transition
<1>3. /\ r \in Run /\ r.status = to /\ r.pending = me[g].run.pending
      /\ r.iteration = me[g].run.iteration
  BY <1>1, RunUpdates DEF Run
<1>4. store'.status = to
  BY <1>1, <1>2 DEF Run
<1> HIDE DEF r
<1>5. d \in Driver /\ d.run = r /\ d.pc = then
  BY <1>1, <1>3 DEF Driver
<1> HIDE DEF d
<1>6. Tracked'
  BY <1>1, <1>2, <1>3, <1>4, <1>5, WithinTracked
<1>7. Moves
  BY <1>1, <1>4 DEF Tracks, Moves
<1> QED BY <1>6, <1>7

\* Steps that leave the status alone.
LEMMA StillTracked ==
  ASSUME TypeInv, Tracked, SingleDriver, SingleDriver', NEW g \in Drivers, Driving(g),
         NEW r \in Run, NEW label \in Labels \ {"start", "off", "load"},
         me'[g].run = r, me'[g].pc = label, \E d \in Driver : me' = [me EXCEPT ![g] = d],
         r.status = me[g].run.status, r.iteration = me[g].run.iteration,
         r.pending \in {NoDecision, me[g].run.pending},
         store' \in {store, r}, UNCHANGED <<ctxDone, storeUp>>,
         \A s \in Shown(me[g].pc) : s = r.status => s \in Shown(label),
         label = "top" => me[g].pc = "start" /\ r = me[g].run
  PROVE  Tracked' /\ Moves
<1>1. PICK d \in Driver : me' = [me EXCEPT ![g] = d]
  OBVIOUS
<1>2. me'[g] = d /\ Tracks(me[g], store)
  BY <1>1 DEF Tracked, TypeInv, TypeOK
<1>3. r.status = store.status /\ r.status \in Shown(label)
  BY <1>2 DEF Tracks
<1>4. store'.status = r.status
  BY <1>3
<1>5. Tracked'
  BY <1>1, <1>2, <1>3, <1>4, WithinTracked
<1> QED BY <1>3, <1>4, <1>5 DEF Moves

LEMMA EndStageTracked ==
  ASSUME TypeInv, Tracked, SingleDriver, SingleDriver', NEW g \in Drivers,
         NEW from \in {"recall", "signals", "acted", "learnt"}, NEW stage \in LoopStage,
         NEW ok \in BOOLEAN, NEW then \in {"understand", "decide", "learn", "complete", "again"},
         EndStage(g, from, stage, ok, then), Shown(then) = Shown(from)
  PROVE  Tracked' /\ Moves
<1> DEFINE r == IF ok THEN [me[g].run EXCEPT !.steps = @ \cup {<<me[g].run.iteration, stage>>}]
                      ELSE me[g].run
           label == IF ok /\ StoreOk(g) THEN then ELSE "fail"
           d == [me[g] EXCEPT !.run = r, !.pc = label]
<1>1. /\ me[g] \in Driver /\ me[g].run \in Run /\ me[g].pc = from /\ Driving(g)
      /\ me' = [me EXCEPT ![g] = d] /\ UNCHANGED <<ctxDone, storeUp>> /\ Save(g, r)
  BY DEF EndStage, Driving, TypeInv, TypeOK, Driver
<1>2. /\ r \in Run /\ r.status = me[g].run.status /\ r.pending = me[g].run.pending
      /\ r.iteration = me[g].run.iteration
  BY <1>1, RunUpdates DEF Run
<1>3. label \in {then, "fail"} /\ then \in Labels /\ "fail" \in Labels
  BY DEF Labels
<1>4. store' \in {store, r}
  BY <1>1 DEF Save
<1>5. Shown(from) \subseteq Shown(label)
  BY <1>3 DEF Shown, LoopStage
<1> HIDE DEF r, label
<1>6. d \in Driver /\ d.run = r /\ d.pc = label
  BY <1>1, <1>2, <1>3 DEF Driver
<1> HIDE DEF d
<1>7. me'[g] = d
  BY <1>1 DEF TypeInv, TypeOK
<1> QED BY <1>1, <1>2, <1>3, <1>4, <1>5, <1>6, <1>7, StillTracked

\* The rows of the table the loop uses.
LEMMA Table ==
  /\ \A s \in Shown("observe") : s = "observing" \/ "observing" \in Successors[s]
  /\ \A s \in Shown("understand") : s = "understanding" \/ "understanding" \in Successors[s]
  /\ \A s \in Shown("decide") : s = "deciding" \/ "deciding" \in Successors[s]
  /\ \A s \in Shown("gate") : s = "awaiting_approval" \/ "awaiting_approval" \in Successors[s]
  /\ \A s \in Shown("act") : s = "acting" \/ "acting" \in Successors[s]
  /\ \A s \in Shown("skip") : s = "acting" \/ "acting" \in Successors[s]
  /\ \A s \in Shown("learn") : s = "learning" \/ "learning" \in Successors[s]
  /\ \A s \in Shown("complete") : s = "completed" \/ "completed" \in Successors[s]
  /\ \A s \in Shown("again") : s = "observing" \/ "observing" \in Successors[s]
  /\ \A s \in Shown("fail") : s = "failed" \/ "failed" \in Successors[s]
BY DEF Shown, Successors, LoopStage

LEMMA Places ==
  /\ {"recall", "signals", "deliberate", "raise", "act", "skip", "execute", "skipped", "append",
      "completed"} \subseteq Labels \ {"top", "start", "off", "load"}
  /\ "observing" \in Shown("recall") /\ "understanding" \in Shown("signals")
  /\ "deciding" \in Shown("deliberate") /\ "awaiting_approval" \in Shown("raise")
  /\ "awaiting_approval" \in Shown("act") /\ "awaiting_approval" \in Shown("skip")
  /\ "acting" \in Shown("execute") /\ "acting" \in Shown("skipped")
  /\ "learning" \in Shown("append") /\ "completed" \in Shown("completed")
  /\ LoopStage \cup {"awaiting_approval", "completed"} \subseteq Status
  /\ LoopStage = {"observing", "understanding", "deciding", "acting", "learning"}
BY DEF Labels, Shown, LoopStage, Status, Terminal

LEMMA TransitionsTracked ==
  ASSUME TypeInv, Tracked, SingleDriver, SingleDriver', NEW g \in Drivers,
         \/ Observe(g) \/ Understand(g) \/ Decide(g) \/ Gate(g) \/ Act(g) \/ SkipActing(g)
         \/ Learn(g) \/ Complete(g)
  PROVE  Tracked' /\ Moves
<1>1. CASE Observe(g)
  BY <1>1, Table, Places, TransitionTracked DEF Observe
<1>2. CASE Understand(g)
  BY <1>2, Table, Places, TransitionTracked DEF Understand
<1>3. CASE Decide(g)
  BY <1>3, Table, Places, TransitionTracked DEF Decide
<1>4. CASE Gate(g)
  <2> DEFINE then == IF GateEnabled THEN "raise"
                     ELSE IF me[g].decision.actions > 0 /\ ~ReadOnly THEN "act" ELSE "skip"
  <2>1. then \in {"raise", "act", "skip"} /\ Transition(g, "gate", "awaiting_approval", then)
    BY <1>4 DEF Gate
  <2> HIDE DEF then
  <2>2. then \in Labels \ {"top", "start", "off", "load"} /\ "awaiting_approval" \in Shown(then)
        /\ "awaiting_approval" \in Status
    BY <2>1, Places
  <2> QED BY <2>1, <2>2, Table, TransitionTracked
<1>5. CASE Act(g)
  BY <1>5, Table, Places, TransitionTracked DEF Act
<1>6. CASE SkipActing(g)
  BY <1>6, Table, Places, TransitionTracked DEF SkipActing
<1>7. CASE Learn(g)
  BY <1>7, Table, Places, TransitionTracked DEF Learn
<1>8. CASE Complete(g)
  BY <1>8, Table, Places, TransitionTracked DEF Complete
<1> QED BY <1>1, <1>2, <1>3, <1>4, <1>5, <1>6, <1>7, <1>8

LEMMA StageEndsTracked ==
  ASSUME TypeInv, Tracked, SingleDriver, SingleDriver', NEW g \in Drivers,
         Acted(g) \/ Learnt(g) \/ \E ok \in BOOLEAN : Recall(g, ok) \/ Signals(g, ok)
  PROVE  Tracked' /\ Moves
<1>1. me[g].ok \in BOOLEAN
  BY DEF TypeInv, TypeOK, Driver
<1>2. /\ Shown("understand") = Shown("recall") /\ Shown("decide") = Shown("signals")
      /\ Shown("learn") = Shown("acted") /\ Shown("complete") = Shown("learnt")
      /\ Shown("again") = Shown("learnt")
      /\ {"observing", "understanding", "acting", "learning"} \subseteq LoopStage
  BY DEF Shown, LoopStage
<1>3. CASE Acted(g)
  BY <1>1, <1>2, <1>3, EndStageTracked DEF Acted
<1>4. CASE Learnt(g)
  <2> DEFINE then == IF Satisfied(me[g].results) THEN "complete" ELSE "again"
  <2>1. then \in {"complete", "again"} /\ EndStage(g, "learnt", "learning", me[g].ok, then)
    BY <1>4 DEF Learnt
  <2> HIDE DEF then
  <2> QED BY <1>1, <1>2, <2>1, EndStageTracked
<1>5. ASSUME NEW ok \in BOOLEAN, Recall(g, ok) PROVE Tracked' /\ Moves
  BY <1>2, <1>5, EndStageTracked DEF Recall
<1>6. ASSUME NEW ok \in BOOLEAN, Signals(g, ok) PROVE Tracked' /\ Moves
  BY <1>2, <1>6, EndStageTracked DEF Signals
<1> QED BY <1>3, <1>4, <1>5, <1>6

\* Nobody returns from the head of a run that is driven alone; Start and the
\* limits lead on.
LEMMA HeadTracked ==
  ASSUME Undisturbed, TypeInv, DriverInv, Tracked, SingleDriver, SingleDriver',
         NEW g \in Drivers,
         \/ Start(g) \/ HeadFails(g) \/ HeadFresh(g) \/ HeadParked(g) \/ Appended(g)
         \/ \E ok \in BOOLEAN : AppendOutcome(g, ok)
         \/ \E answer \in Answers : Execute(g, answer)
  PROVE  Tracked' /\ Moves
<1>1. /\ me \in [Drivers -> Driver] /\ me[g] \in Driver /\ me[g].run \in Run /\ store \in Run
      /\ me[g].run.iteration \in Nat
  BY RunLoopAssumption DEF TypeInv, TypeOK, Driver, Run, Iteration
<1>2. /\ Driving(g) /\ UNCHANGED <<store, ctxDone, storeUp>>
      /\ me[g].pc \in {"start", "top", "append", "execute"}
  BY DEF Start, HeadFails, HeadFresh, HeadParked, Appended, AppendOutcome, Execute, Driving
<1>3. Tracks(me[g], store) /\ ctxDone = {} /\ storeUp /\ StoreOk(g)
  BY <1>2 DEF Tracked, StoreOk
<1>4. me[g].pc \in {"start", "top"} =>
        Valid(me[g].run) /\ (g \in Resumers \/ me[g].run.pending = NoDecision)
  BY <1>2, <1>3 DEF Tracks, Shown, Valid, Terminal, DriverInv, StoredPending, PendingFits
<1>5. ASSUME NEW d \in Driver, me' = [me EXCEPT ![g] = d], d.run = me[g].run,
             d.pc \notin {"start", "off", "load"}, d.pc = "top" => me[g].pc = "start",
             me[g].run.status \in Shown(d.pc)
      PROVE  Tracked' /\ Moves
  <2>1. me'[g] = d /\ d.pc \in Labels
    BY <1>1, <1>5 DEF Driver
  <2> QED BY <1>1, <1>2, <1>5, <2>1, StillTracked
<1>6. ASSUME NEW label \in {"top", "fail", "observe", "learnt"}, Goto(g, label),
             label = "top" => me[g].pc = "start", me[g].run.status \in Shown(label)
      PROVE  Tracked' /\ Moves
  <2> DEFINE d == [me[g] EXCEPT !.pc = label]
  <2>1. d \in Driver /\ d.run = me[g].run /\ d.pc = label /\ me' = [me EXCEPT ![g] = d]
    BY <1>1, <1>6 DEF Goto, Driver, Labels
  <2> HIDE DEF d
  <2> QED BY <1>5, <1>6, <2>1
<1>7. CASE Start(g)
  <2>1. me[g].pc = "start"
    BY <1>7 DEF Start
  <2>2. Shown("top") = Shown("start")
    BY DEF Shown
  <2>3. CASE Goto(g, "top")
    BY <1>3, <1>6, <2>1, <2>2, <2>3 DEF Tracks
  <2> QED BY <1>3, <1>4, <1>7, <2>1, <2>3 DEF Start
<1>8. CASE HeadFails(g)
  <2>1. me[g].pc = "top" /\ Goto(g, "fail") /\ ~(me[g].run.iteration < MaxIterations)
    BY <1>1, <1>3, <1>8, RunLoopAssumption DEF HeadFails, OverLimit, Undisturbed
  <2>2. me[g].run.status = "observing"
    BY <1>3, <2>1 DEF Tracks
  <2> QED BY <1>6, <2>1, <2>2 DEF Shown, LoopStage
<1>9. CASE HeadFresh(g)
  <2>1. me[g].pc = "top" /\ Goto(g, "observe") /\ ~Parked(me[g].run)
    BY <1>9 DEF HeadFresh
  <2>2. me[g].run.status \in {"pending", "observing"}
    BY <1>3, <2>1 DEF Tracks, Shown, Parked
  <2> QED BY <1>6, <2>1, <2>2 DEF Shown
<1>10. CASE HeadParked(g)
  <2> DEFINE r == [me[g].run EXCEPT !.pending = NoDecision]
             d == [me[g] EXCEPT !.decision = me[g].run.pending, !.run = r, !.pc = "unpark"]
  <2>1. me[g].pc = "top" /\ Parked(me[g].run)
    BY <1>10 DEF HeadParked
  <2>2. approval.state # "pending"
    BY <2>1 DEF DriverInv, Token
  <2>3. me' = [me EXCEPT ![g] = d]
    <3>1. me' = [me EXCEPT ![g].decision = me[g].run.pending,
                           ![g].run.pending = NoDecision, ![g].pc = "unpark"]
      BY <1>3, <1>10, <2>2 DEF HeadParked
    <3> QED BY <3>1
  <2>4. /\ r \in Run /\ r.status = "awaiting_approval" /\ r.iteration = me[g].run.iteration
        /\ r.pending = NoDecision /\ me[g].run.pending \in Decision \cup {NoDecision}
        /\ r.status = me[g].run.status
    BY <1>1, <2>1, RunUpdates DEF Parked, Run
  <2> HIDE DEF r
  <2>5. d \in Driver /\ d.run = r /\ d.pc = "unpark" /\ "unpark" \in Labels
    BY <1>1, <2>4 DEF Driver, Labels
  <2> HIDE DEF d
  <2>6. me'[g] = d /\ "awaiting_approval" \in Shown("unpark")
    BY <1>1, <2>3 DEF Shown
  <2>7. me'[g].run = r /\ me'[g].pc = "unpark" /\ \E c \in Driver : me' = [me EXCEPT ![g] = c]
    BY <2>3, <2>5, <2>6
  <2>8. "unpark" \in Labels \ {"start", "off", "load"} /\ "unpark" # "top"
        /\ \A s \in Shown(me[g].pc) : s = r.status => s \in Shown("unpark")
    BY <2>4, <2>5, <2>6
  <2> QED BY <1>2, <2>4, <2>7, <2>8, StillTracked
<1>11. CASE Appended(g)
  <2>1. me[g].pc = "append" /\ Goto(g, "learnt") /\ Shown("learnt") = Shown("append")
    BY <1>11 DEF Appended, Shown
  <2>2. me[g].run.status \in Shown("learnt")
    BY <1>3, <2>1 DEF Tracks
  <2> QED BY <1>6, <2>1, <2>2
<1>12. ASSUME NEW ok \in BOOLEAN, AppendOutcome(g, ok) PROVE Tracked' /\ Moves
  <2>1. me[g].pc = "append" /\ Shown("learnt") = Shown("append") /\ me[g].written \in Nat
    BY <1>1, <1>12 DEF AppendOutcome, Shown, Driver
  <2> DEFINE c == [me[g] EXCEPT !.written = @ + 1]
             d == [me[g] EXCEPT !.ok = FALSE, !.pc = "learnt"]
  <2>2. me' = [me EXCEPT ![g] = c] \/ me' = [me EXCEPT ![g] = d]
    BY <1>12 DEF AppendOutcome
  <2>3. c \in Driver /\ c.run = me[g].run /\ c.pc = "append"
    <3>1. me[g].written + 1 \in Nat
      BY <2>1
    <3> QED BY <1>1, <2>1, <3>1 DEF Driver
  <2>5. d \in Driver /\ d.run = me[g].run /\ d.pc = "learnt"
    <3>1. "learnt" \in Labels
      BY DEF Labels
    <3> QED BY <1>1, <3>1 DEF Driver
  <2> HIDE DEF c, d
  <2>4. me[g].run.status \in Shown("append")
    BY <1>3, <2>1 DEF Tracks
  <2> QED BY <1>5, <2>1, <2>2, <2>3, <2>4, <2>5
<1>13. ASSUME NEW answer \in Answers, Execute(g, answer) PROVE Tracked' /\ Moves
  <2>1. me[g].pc = "execute" /\ Shown("acted") = Shown("execute")
    BY <1>13 DEF Execute, Shown
  <2>2. me'[g] \in Driver
    BY <1>13, ExecuteType DEF TypeInv, TypeOK
  <2>3. /\ me'[g].run = me[g].run /\ me'[g].pc \in {"execute", "acted"}
        /\ me' = [me EXCEPT ![g] = me'[g]]
    <3> DEFINE end == answer \in {"failed for good", "error"}
               results == IF end THEN me[g].results ELSE Append(me[g].results, answer)
               ok == ~end
               label == IF end \/ AllDone(g, results) THEN "acted" ELSE me[g].pc
    <3>1. /\ label \in {"execute", "acted"}
          /\ me' = [me EXCEPT ![g].results = results, ![g].ok = ok, ![g].pc = label]
      BY <1>13, <2>1 DEF Execute
    <3> HIDE DEF results, ok, label
    <3>2. me'[g] = [me[g] EXCEPT !.results = results, !.ok = ok, !.pc = label]
      BY <1>1, <3>1
    <3>3. me'[g].run = me[g].run /\ me'[g].pc = label
      BY <1>1, <3>2 DEF Driver
    <3> QED BY <1>1, <3>1, <3>2, <3>3
  <2> QED BY <1>3, <1>5, <2>1, <2>2, <2>3 DEF Tracks
<1> QED BY <1>7, <1>8, <1>9, <1>10, <1>11, <1>12, <1>13

\* Steps that work on the copy and save it.
LEMMA SavesTracked ==
  ASSUME TypeInv, DriverInv, Tracked, SingleDriver, SingleDriver', NEW g \in Drivers,
         \/ Unpark(g) \/ Skipped(g)
         \/ \E ok, gated \in BOOLEAN, n \in 0..MaxActions : Deliberate(g, ok, n, gated)
  PROVE  Tracked' /\ Moves
<1>1. /\ me \in [Drivers -> Driver] /\ me[g] \in Driver /\ me[g].run \in Run
      /\ {"act", "skip", "learn", "gate", "fail"} \subseteq Labels \ {"start", "off", "load"}
      /\ {"acting", "deciding"} \subseteq LoopStage
  BY DEF TypeInv, TypeOK, Driver, Labels, LoopStage
<1>2. Driving(g) /\ UNCHANGED <<ctxDone, storeUp>>
  BY DEF Unpark, Skipped, Deliberate, Driving
<1>3. TypeInv' => me'[g] \in Driver
  BY DEF TypeInv, TypeOK
<1>4. CASE Unpark(g)
  <2>1. PICK label \in {"act", "skip"} : Goto(g, label)
    BY <1>4 DEF Unpark
  <2> DEFINE d == [me[g] EXCEPT !.pc = label]
  <2>2. d \in Driver /\ d.run = me[g].run /\ d.pc = label /\ me' = [me EXCEPT ![g] = d]
    BY <1>1, <2>1 DEF Goto, Driver
  <2> HIDE DEF d
  <2>3. me'[g] = d /\ me[g].pc = "unpark" /\ store' \in {store, me[g].run}
    BY <1>1, <1>4, <2>2 DEF Unpark, Save
  <2>4. \A s \in Shown("unpark") : s \in Shown(label)
    BY DEF Shown
  <2> QED BY <1>1, <1>2, <2>2, <2>3, <2>4, StillTracked
<1>5. CASE Skipped(g)
  <2> DEFINE r == [me[g].run EXCEPT !.steps = @ \cup {<<me[g].run.iteration, "acting">>}]
             d == [me[g] EXCEPT !.run = r, !.pc = "learn"]
  <2>1. me' = [me EXCEPT ![g] = d] /\ me[g].pc = "skipped" /\ store' \in {store, r}
    BY <1>5 DEF Skipped, Save
  <2>2. /\ r \in Run /\ r.status = me[g].run.status /\ r.pending = me[g].run.pending
        /\ r.iteration = me[g].run.iteration
    <3>1. r \in Run
      BY <1>1, RunUpdates
    <3> QED BY <1>1, <3>1 DEF Run
  <2> HIDE DEF r
  <2>3. d \in Driver /\ d.run = r /\ d.pc = "learn"
    BY <1>1, <2>2 DEF Driver
  <2> HIDE DEF d
  <2>4. me'[g] = d /\ Shown("skipped") = Shown("learn")
    BY <1>1, <2>1 DEF Shown
  <2> QED BY <1>1, <1>2, <2>1, <2>2, <2>3, <2>4, StillTracked
<1>6. ASSUME NEW ok \in BOOLEAN, NEW gated \in BOOLEAN, NEW n \in 0..MaxActions,
             Deliberate(g, ok, n, gated)
      PROVE  Tracked' /\ Moves
  <2> DEFINE c == [id |-> decided + 1, actions |-> n, gated |-> gated]
             r == IF ok THEN [me[g].run EXCEPT !.steps = @ \cup {<<me[g].run.iteration, "deciding">>}]
                        ELSE me[g].run
             then == IF RequiresApproval(c) THEN "gate"
                     ELSE IF n > 0 /\ ~ReadOnly THEN "act" ELSE "skip"
             label == IF ok /\ StoreOk(g) THEN then ELSE "fail"
             d == [me[g] EXCEPT !.run = r, !.decision = c, !.pc = label]
  <2>1. me' = [me EXCEPT ![g] = d] /\ me[g].pc = "deliberate" /\ store' \in {store, r}
    <3>1. me' = [me EXCEPT ![g].run = r, ![g].decision = c, ![g].pc = label] /\ Save(g, r)
          /\ me[g].pc = "deliberate"
      BY <1>6 DEF Deliberate
    <3> HIDE DEF r, c, label
    <3> QED BY <3>1 DEF Save
  <2>2. label \in {"gate", "act", "skip", "fail"}
    OBVIOUS
  <2>3. /\ r \in Run /\ r.status = me[g].run.status /\ r.pending = me[g].run.pending
        /\ r.iteration = me[g].run.iteration
    <3>1. r \in Run
      BY <1>1, RunUpdates
    <3> QED BY <1>1, <3>1 DEF Run
  <2>4. c \in Decision
    <3>1. decided < MaxDecisions
      BY <1>6 DEF Deliberate
    <3>2. decided + 1 \in 1..MaxDecisions
      BY <3>1, RunLoopAssumption DEF TypeInv, TypeOK
    <3> QED BY <3>2 DEF Decision
  <2> HIDE DEF c, r, label
  <2>5. d \in Driver /\ d.run = r /\ d.pc = label
    BY <1>1, <2>2, <2>3, <2>4 DEF Driver
  <2> HIDE DEF d
  <2>6. me'[g] = d /\ Shown("deliberate") \subseteq Shown(label)
    BY <1>1, <2>1, <2>2 DEF Shown, LoopStage
  <2> QED BY <1>1, <1>2, <2>1, <2>2, <2>3, <2>5, <2>6, StillTracked
<1> QED BY <1>4, <1>5, <1>6

\* The decision that becomes pending, the next iteration and the failure.
LEMMA TurnsTracked ==
  ASSUME TypeInv, DriverInv, Tracked, SingleDriver, SingleDriver', NEW g \in Drivers,
         Raise(g) \/ Again(g) \/ Fail(g)
  PROVE  Tracked' /\ Moves
<1>1. /\ me \in [Drivers -> Driver] /\ me[g] \in Driver /\ me[g].run \in Run /\ store \in Run
  BY DEF TypeInv, TypeOK, Driver
<1>2. Driving(g) /\ UNCHANGED <<ctxDone, storeUp>>
  BY DEF Raise, Again, Fail, Driving
<1>3. /\ Tracks(me[g], store) /\ ctxDone = {} /\ storeUp /\ StoreOk(g)
      /\ store.pending # NoDecision => store.iteration < MaxIterations
  BY <1>2 DEF Tracked, StoreOk
<1>4. CASE Raise(g)
  <2>1. me[g].pc = "raise" /\ store' = store /\ \A h \in Drivers \ {g} : me'[h] = me[h]
    BY <1>1, <1>4 DEF Raise
  <2>2. /\ me'[g].pc = "park" /\ me'[g].run.status = me[g].run.status
        /\ me'[g].run.iteration = me[g].run.iteration
    BY <1>1, <1>4 DEF Raise, Driver, Run
  <2>3. me[g].run.iteration < MaxIterations /\ Shown("raise") = Shown("park")
    BY <2>1 DEF TypeInv, Locals, Fresh, Shown
  <2>4. Tracks(me'[g], store')
    BY <1>3, <2>1, <2>2, <2>3 DEF Tracks
  <2> QED BY <1>2, <1>3, <2>1, <2>4, OneTracked DEF Moves
<1>5. CASE Again(g)
  <2> DEFINE r == [me[g].run EXCEPT !.iteration = @ + 1, !.status = "observing"]
  <2>1. /\ me[g].pc = "again" /\ me' = [me EXCEPT ![g] = At("top", r)]
        /\ store' = [store EXCEPT !.status = "observing"]
    BY <1>3, <1>5 DEF Again
  <2>2. me[g].run.pending = NoDecision
    BY <2>1 DEF DriverInv, StoredPending, PendingFits, Fresh
  <2>3. r.status = "observing" /\ r.pending = NoDecision
    BY <1>1, <2>2 DEF Run
  <2> HIDE DEF r
  <2>4. me'[g].run = r /\ me'[g].pc = "top" /\ \A h \in Drivers \ {g} : me'[h] = me[h]
    BY <1>1, <2>1 DEF At
  <2>5. /\ store'.status = "observing" /\ store'.pending = store.pending
        /\ store'.iteration = store.iteration
    BY <1>1, <2>1 DEF Run
  <2>6. Tracks(me'[g], store')
    BY <2>3, <2>4, <2>5 DEF Tracks, Shown
  <2>7. Moves
    BY <1>3, <2>1, <2>5, Table DEF Tracks, Moves
  <2> QED BY <1>2, <1>3, <2>4, <2>5, <2>6, <2>7, OneTracked
<1>6. CASE Fail(g)
  <2>1. /\ me[g].pc = "fail" /\ store' = [store EXCEPT !.status = "failed"]
        /\ \A h \in Drivers \ {g} : me'[h] = me[h]
    BY <1>1, <1>3, <1>6 DEF Fail
  <2>2. /\ me'[g].pc = "failed" /\ me'[g].run.status = "failed"
        /\ me'[g].run.iteration = me[g].run.iteration /\ me'[g].run.pending = me[g].run.pending
    BY <1>1, <1>6 DEF Fail, Driver, Run
  <2>3. /\ store'.status = "failed" /\ store'.pending = store.pending
        /\ store'.iteration = store.iteration
    BY <1>1, <2>1 DEF Run
  <2>4. Tracks(me'[g], store')
    BY <1>3, <2>2, <2>3 DEF Tracks, Shown
  <2>5. Moves
    BY <1>3, <2>1, <2>3, Table DEF Tracks, Moves
  <2> QED BY <1>2, <1>3, <2>1, <2>3, <2>4, <2>5, OneTracked
<1> QED BY <1>4, <1>5, <1>6

\* Nothing but positions outside engine.Run changes.
LEMMA OutsideTracked ==
  ASSUME Tracked, store' = store, UNCHANGED <<ctxDone, storeUp>>,
         \A h \in Drivers : me'[h] = me[h] \/ ~Driving(h)'
  PROVE  Tracked' /\ Moves
BY DEF Tracked, Driving, Moves

\* The exits save what the row already shows.
LEMMA ExitsTracked ==
  ASSUME TypeInv, Tracked, SingleDriver, SingleDriver', NEW g \in Drivers,
         Park(g) \/ Completed(g) \/ Failed(g) \/ Resume(g)
  PROVE  Tracked' /\ Moves
<1>1. /\ me \in [Drivers -> Driver] /\ me[g] \in Driver /\ me[g].run \in Run /\ store \in Run
      /\ UNCHANGED <<ctxDone, storeUp>> /\ ctxDone = {} /\ storeUp
      /\ store.pending # NoDecision => store.iteration < MaxIterations
  BY DEF Park, Completed, Failed, Resume, Tracked, TypeInv, TypeOK, Driver
<1>2. ASSUME Return(g) PROVE ~Driving(g)' /\ \A h \in Drivers \ {g} : me'[h] = me[h]
  BY <1>1, <1>2 DEF Return, Off, At, Driving
<1>3. ASSUME Return(g), Driving(g), NEW r, store' \in {store, r}, r.status = me[g].run.status,
             r.pending = me[g].run.pending, r.iteration = me[g].run.iteration
      PROVE  Tracked' /\ Moves
  <2>1. Tracks(me[g], store)
    BY <1>3 DEF Tracked
  <2>2. store'.status = store.status /\ (store'.pending # NoDecision => store'.iteration < MaxIterations)
    BY <1>1, <1>3, <2>1 DEF Tracks
  <2> QED BY <1>1, <1>2, <1>3, <2>2, OneTracked DEF Moves
<1>4. CASE Park(g) \/ Failed(g)
  BY <1>3, <1>4 DEF Park, Failed, Save, Driving
<1>5. CASE Completed(g)
  <2> DEFINE r == [me[g].run EXCEPT !.status = "completed", !.completedAt = TRUE]
  <2>1. Return(g) /\ store' \in {store, r} /\ me[g].pc = "completed" /\ Driving(g)
    BY <1>5 DEF Completed, Save, Driving
  <2>2. me[g].run.status = "completed"
    BY <2>1 DEF Tracked, Tracks, Shown
  <2>3. /\ r.status = me[g].run.status /\ r.pending = me[g].run.pending
        /\ r.iteration = me[g].run.iteration
    BY <1>1, <2>2 DEF Run
  <2> HIDE DEF r
  <2> QED BY <1>3, <2>1, <2>3
<1>6. CASE Resume(g) /\ StoreOk(g) /\ Parked(store)
  <2>1. me'[g] = At("start", store) /\ store' = store /\ \A h \in Drivers \ {g} : me'[h] = me[h]
    BY <1>1, <1>6 DEF Resume
  <2>2. Driving(g)' /\ Tracks(me'[g], store')
    BY <1>1, <1>6, <2>1 DEF At, Driving, Tracks, Parked, Shown
  <2> QED BY <1>1, <2>1, <2>2, OneTracked DEF Moves
<1>7. CASE Resume(g) /\ ~(StoreOk(g) /\ Parked(store))
  BY <1>1, <1>2, <1>7, OutsideTracked DEF Resume
<1> QED BY <1>4, <1>5, <1>6, <1>7

\* Of the commands, approve leaves the row alone.
LEMMA SteerTracked ==
  ASSUME Undisturbed, TypeInv, Tracked, NEW s \in Steerers,
         SteerStep(s) \/ \E cmd \in Commands : Issue(s, cmd)
  PROVE  Tracked' /\ Moves
<1>1. steer[s].cmd \in {"approve", "none"}
  BY DEF Undisturbed, TypeInv, TypeOK
<1>2. Approve(s) \/ ApproveRefused(s) \/ \E cmd \in Commands : Issue(s, cmd)
  BY <1>1 DEF SteerStep, Pause, Cancel, ResumePaused, Deny, DenyCancels, Halt, HaltDenies, Applying
<1>3. store' = store /\ UNCHANGED <<ctxDone, storeUp>>
  BY <1>2 DEF Approve, ApproveRefused, Issue, history
<1>4. \A h \in Drivers : me'[h] = me[h] \/ ~Driving(h)'
  BY <1>2 DEF Approve, ApproveRefused, Issue, At, Driving, TypeInv, TypeOK
<1> QED BY <1>3, <1>4, OutsideTracked

LEMMA TrackedStep ==
  ASSUME Undisturbed
  PROVE  /\ TypeInv /\ DriverInv /\ Tracked /\ SingleDriver /\ SingleDriver' /\ [Next]_vars
         => Tracked' /\ Moves
<1> SUFFICES ASSUME TypeInv, DriverInv, Tracked, SingleDriver, SingleDriver', [Next]_vars
             PROVE  Tracked' /\ Moves
  OBVIOUS
<1>1. ASSUME NEW g \in Drivers, Step(g) PROVE Tracked' /\ Moves
  BY <1>1, HeadTracked, TransitionsTracked, StageEndsTracked, SavesTracked, TurnsTracked,
     ExitsTracked, Zenon
     DEF Step
<1>2. ASSUME NEW g \in Drivers, CtxEnds(g) PROVE FALSE
  BY <1>2 DEF CtxEnds, Undisturbed
<1>3. ASSUME NEW s \in Steerers, SteerStep(s) \/ \E cmd \in Commands : Issue(s, cmd)
      PROVE  Tracked' /\ Moves
  BY <1>3, SteerTracked
<1>4. CASE UNCHANGED vars
  BY <1>4, OutsideTracked DEF vars
<1>5. ASSUME NEW g \in Submitters, PublishPanics(g) PROVE Tracked' /\ Moves
  <2>1. \A h \in Drivers : me'[h] = me[h] \/ ~Driving(h)'
    BY <1>5 DEF PublishPanics, Return, Off, At, Driving, TypeInv, TypeOK
  <2> QED BY <1>5, <2>1, OutsideTracked DEF PublishPanics
<1>6. CASE ServeEnds
  <2>1. \A h \in Drivers : me'[h] = me[h] \/ ~Driving(h)'
    BY <1>6 DEF ServeEnds, Off, At, Driving
  <2> QED BY <1>6, <2>1, OutsideTracked DEF ServeEnds
<1>7. ~StoreTurns
  BY DEF StoreTurns, Undisturbed
<1> QED BY <1>1, <1>2, <1>3, <1>4, <1>5, <1>6, <1>7 DEF Next, Undisturbed

LEMMA TrackedInit == Init => Tracked
<1> SUFFICES ASSUME Init PROVE Tracked
  OBVIOUS
<1>1. store = NewRun /\ ctxDone = {} /\ storeUp /\ NewRun.pending = NoDecision /\ NewRun.status = "pending"
      /\ NewRun.iteration < MaxIterations
  BY RunLoopAssumption DEF Init, NewRun
<1>2. \A g \in Drivers : Driving(g) => me[g].pc = "start" /\ me[g].run = NewRun
  BY DEF Init, At, Off, Driving
<1> QED BY <1>1, <1>2 DEF Tracked, Tracks, Shown

\* The engine writes statuses without asking the table of run_fsm.go; a run
\* that only approvals touch keeps to it all the same.
THEOREM StatusFollowsTable ==
  ASSUME Undisturbed
  PROVE  Spec => FollowsFSM
<1>1. TypeInv /\ DriverInv /\ [Next]_vars => (TypeInv /\ DriverInv)'
  BY TypeStep, DriverStep DEF Undisturbed
<1>2. DriverInv => SingleDriver
  BY DEF DriverInv, Token
<1>3. TypeInv /\ DriverInv /\ Tracked /\ SingleDriver /\ SingleDriver' /\ [Next]_vars
        => Tracked' /\ Moves
  BY TrackedStep
<1>4. Init => FSM!Init
  BY DEF Init, NewRun, FSM!Init
<1>5. Moves => [FSM!Next]_(store.status)
  BY DEF Moves, FSM!Next, FSM!Successors, FSM!LoopStage, Successors, LoopStage
<1> QED BY <1>1, <1>2, <1>3, <1>4, <1>5, TypeInit, DriverInit, TrackedInit, PTL
        DEF Spec, FollowsFSM, FSM!Spec

(***************************************************************************)
(* The provenance of a run                                                 *)
(***************************************************************************)
Ran(r, i, stages) == \A s \in stages : <<i, s>> \in r.steps

UpToDecision == {"observing", "understanding", "deciding"}

\* What holds of the stored row, and of every copy a driver works on.
Sound(r) ==
  /\ \A i \in Iteration : i < r.iteration => Ran(r, i, LoopStage)
  /\ Parked(r) => Ran(r, r.iteration, UpToDecision)
  /\ r.status = "completed" /\ r.completedAt => Ran(r, r.iteration, LoopStage)

\* The stages of this iteration that are over at a position.
Behind(pc) ==
  IF pc \in {"understand", "signals"} THEN {"observing"}
  ELSE IF pc \in {"decide", "deliberate"} THEN {"observing", "understanding"}
  ELSE IF pc \in {"gate", "raise", "park", "unpark", "act", "execute", "acted", "skip", "skipped"}
    THEN UpToDecision
  ELSE IF pc \in {"learn", "append", "learnt"} THEN UpToDecision \cup {"acting"}
  ELSE IF pc \in {"complete", "completed", "again"} THEN LoopStage
  ELSE {}

\* A driver d is not behind the row s, and level with it where the next status
\* it writes there speaks of the stages: awaiting_approval and completed.
Ahead(d, s) ==
  /\ Sound(d.run)
  /\ Ran(d.run, d.run.iteration, Behind(d.pc))
  /\ s.iteration <= d.run.iteration /\ s.steps \subseteq d.run.steps
  /\ d.pc \in {"gate", "complete"} => s.iteration = d.run.iteration /\ s.steps = d.run.steps
  /\ d.pc = "deliberate" => d.run.status = "deciding"
  /\ d.pc \in {"append", "learnt"} => d.run.status = "learning"

Recorded ==
  /\ Sound(store)
  /\ \A g \in Drivers : Driving(g) => Ahead(me[g], store)

\* No step takes back what the row says.
Progress == store'.iteration >= store.iteration /\ store.steps \subseteq store'.steps

LEMMA BehindStages == \A pc \in Labels : Behind(pc) \subseteq LoopStage
BY DEF Behind, UpToDecision, LoopStage

\* Only awaiting_approval and completed say anything of the stages.
LEMMA SoundStatus ==
  ASSUME NEW r \in Run, Sound(r), NEW s \in Status,
         s = "awaiting_approval" => Ran(r, r.iteration, UpToDecision),
         s = "completed" => Ran(r, r.iteration, LoopStage)
  PROVE  /\ Sound([r EXCEPT !.status = s])
         /\ Sound([r EXCEPT !.status = s, !.completedAt = TRUE])
<1>1. ASSUME NEW q \in Run, q.iteration = r.iteration, q.steps = r.steps, q.status = s
      PROVE  Sound(q)
  BY <1>1 DEF Sound, Ran, Parked
<1>2. [r EXCEPT !.status = s] \in Run /\ [r EXCEPT !.status = s, !.completedAt = TRUE] \in Run
  BY RunUpdates
<1> QED BY <1>1, <1>2 DEF Run

\* A status that says nothing of the stages, written over the row or not.
LEMMA RowStatus ==
  ASSUME NEW r \in Run, Sound(r), NEW s \in Status \ {"awaiting_approval", "completed"},
         NEW q \in {r, [r EXCEPT !.status = s]}
  PROVE  Sound(q) /\ q.iteration = r.iteration /\ q.steps = r.steps
<1>1. CASE q = r
  BY <1>1
<1>2. CASE q = [r EXCEPT !.status = s]
  <2>1. Sound(q)
    BY <1>2, SoundStatus
  <2> QED BY <1>2, <2>1 DEF Run
<1> QED BY <1>1, <1>2

\* More steps do no harm.
LEMMA SoundMore ==
  ASSUME NEW r \in Run, Sound(r), NEW s \in LoopStage
  PROVE  Sound([r EXCEPT !.steps = @ \cup {<<r.iteration, s>>}])
BY DEF Sound, Ran, Parked, Run

\* One goroutine drives before and after the step: it is enough to look at g.
LEMMA OthersOff ==
  ASSUME TypeInv, SingleDriver, SingleDriver', NEW g \in Drivers, Driving(g) \/ Driving(g)',
         \A h \in Drivers \ {g} : me'[h] = me[h],
         Sound(store'), Driving(g)' => Ahead(me'[g], store')
  PROVE  Recorded'
<1>1. \A h \in Drivers \ {g} : ~Driving(h)'
  BY DEF SingleDriver, Driving
<1> QED BY <1>1 DEF Recorded

\* Transitions to a stage.
LEMMA TransitionRecorded ==
  ASSUME TypeInv, Recorded, SingleDriver, SingleDriver', NEW g \in Drivers,
         NEW from, NEW to \in LoopStage, NEW then \in Labels, Transition(g, from, to, then),
         from \notin {"off", "load"}, Behind(then) \subseteq Behind(from),
         then \notin {"gate", "complete"},
         then = "deliberate" => to = "deciding", then \in {"append", "learnt"} => to = "learning"
  PROVE  Recorded' /\ Progress
<1> DEFINE r == [me[g].run EXCEPT !.status = to]
           label == IF StoreOk(g) THEN then ELSE "fail"
<1>1. /\ me[g] \in Driver /\ me[g].run \in Run /\ store \in Run /\ me[g].pc = from /\ Driving(g)
      /\ Ahead(me[g], store) /\ Sound(store)
  BY DEF Transition, Driving, Recorded, TypeInv, TypeOK, Driver
<1>2. to \in Status /\ to \notin {"awaiting_approval", "completed"}
  BY DEF LoopStage, Status, Terminal
<1>3. /\ me'[g].run = r /\ me'[g].pc = label
      /\ \A h \in Drivers \ {g} : me'[h] = me[h]
  BY <1>1 DEF Transition, TypeInv, TypeOK, Driver
<1>4. Sound(r) /\ r.iteration = me[g].run.iteration /\ r.steps = me[g].run.steps /\ r.status = to
  BY <1>1, <1>2, SoundStatus DEF Ahead, Run
<1>5. Sound(store') /\ store'.iteration = store.iteration /\ store'.steps = store.steps
  BY <1>1, <1>2, SoundStatus DEF Transition, Run
<1>6. label \in {then, "fail"} /\ Behind(label) \subseteq Behind(from)
  BY DEF Behind
<1> HIDE DEF r, label
<1>7. Ahead(me'[g], store')
  BY <1>1, <1>3, <1>4, <1>5, <1>6 DEF Ahead, Ran
<1>8. Recorded'
  BY <1>1, <1>3, <1>5, <1>7, OthersOff
<1> QED BY <1>1, <1>5, <1>8, RunLoopAssumption DEF Progress, Run, Iteration

\* The end of a stage.
LEMMA EndStageRecorded ==
  ASSUME TypeInv, Recorded, SingleDriver, SingleDriver', NEW g \in Drivers,
         NEW from, NEW stage \in LoopStage, NEW ok \in BOOLEAN, NEW then \in Labels,
         EndStage(g, from, stage, ok, then), from \notin {"off", "load"},
         Behind(then) \subseteq Behind(from) \cup {stage},
         then \notin {"gate", "deliberate", "append", "learnt"},
         then = "complete" => me[g].run.status \notin Terminal
  PROVE  Recorded' /\ Progress
<1> DEFINE r == IF ok THEN [me[g].run EXCEPT !.steps = @ \cup {<<me[g].run.iteration, stage>>}]
                      ELSE me[g].run
           label == IF ok /\ StoreOk(g) THEN then ELSE "fail"
<1>1. /\ me[g] \in Driver /\ me[g].run \in Run /\ store \in Run /\ me[g].pc = from /\ Driving(g)
      /\ Ahead(me[g], store) /\ Sound(store)
  BY DEF EndStage, Driving, Recorded, TypeInv, TypeOK, Driver
<1>2. /\ me'[g].run = r /\ me'[g].pc = label /\ Save(g, r)
      /\ \A h \in Drivers \ {g} : me'[h] = me[h]
  BY <1>1 DEF EndStage, TypeInv, TypeOK, Driver
<1>3. /\ Sound(r) /\ r.iteration = me[g].run.iteration /\ me[g].run.steps \subseteq r.steps
      /\ r.status = me[g].run.status /\ (ok => <<r.iteration, stage>> \in r.steps)
  <2>1. CASE ok
    <3>1. r = [me[g].run EXCEPT !.steps = @ \cup {<<me[g].run.iteration, stage>>}]
      BY <2>1
    <3>2. Sound(r)
      BY <1>1, <3>1, SoundMore DEF Ahead
    <3> HIDE DEF r
    <3> QED BY <1>1, <3>1, <3>2 DEF Run
  <2>2. CASE ~ok
    BY <1>1, <2>2 DEF Ahead
  <2> QED BY <2>1, <2>2
<1>4. label = "fail" \/ (label = then /\ ok /\ StoreOk(g))
  OBVIOUS
<1>5. store' \in {store, r} /\ (StoreOk(g) /\ Valid(r) => store' = r)
  BY <1>2 DEF Save
<1> HIDE DEF r, label
<1>6. Ran(r, r.iteration, Behind(label))
  <2>1. CASE label = "fail"
    BY <2>1 DEF Behind, Ran
  <2>2. CASE label = then /\ ok
    <3>1. Ran(me[g].run, me[g].run.iteration, Behind(from))
      BY <1>1 DEF Ahead
    <3> QED BY <1>3, <2>2, <3>1 DEF Ran
  <2> QED BY <1>4, <2>1, <2>2
<1>7. label = "complete" => store' = r
  <2>1. me[g].run.status \notin Terminal => Valid(r)
    BY <1>3 DEF Valid
  <2> QED BY <1>4, <1>5, <2>1
<1>8. store.iteration <= r.iteration /\ store.steps \subseteq r.steps /\ r.iteration \in Nat
  BY <1>1, <1>3, RunLoopAssumption DEF Ahead, Run, Iteration
<1>9. store'.iteration <= r.iteration /\ store'.steps \subseteq r.steps /\ Sound(store')
  BY <1>1, <1>3, <1>5, <1>8
<1>10. Ahead(me'[g], store')
  BY <1>2, <1>3, <1>4, <1>6, <1>7, <1>9 DEF Ahead
<1>11. Recorded'
  BY <1>1, <1>2, <1>9, <1>10, OthersOff
<1>12. Progress
  BY <1>1, <1>5, <1>8, RunLoopAssumption DEF Progress, Run, Iteration
<1> QED BY <1>11, <1>12

\* Moving on with the run and the store as they are.
LEMMA MoveRecorded ==
  ASSUME TypeInv, Recorded, SingleDriver, SingleDriver', NEW g \in Drivers, Driving(g),
         \A h \in Drivers \ {g} : me'[h] = me[h], me'[g].run = me[g].run, store' = store,
         Behind(me'[g].pc) \subseteq Behind(me[g].pc),
         me'[g].pc \notin {"gate", "deliberate", "complete"},
         me'[g].pc \in {"append", "learnt"} => me[g].pc \in {"append", "learnt"}
  PROVE  Recorded' /\ Progress
<1>1. Ahead(me[g], store) /\ Sound(store) /\ store \in Run
  BY DEF Recorded, TypeInv, TypeOK
<1>2. Ahead(me'[g], store')
  BY <1>1 DEF Ahead, Ran
<1>3. Recorded'
  BY <1>1, <1>2, OthersOff
<1> QED BY <1>1, <1>3, RunLoopAssumption DEF Progress, Run, Iteration

LEMMA MovesRecorded ==
  ASSUME TypeInv, Recorded, SingleDriver, SingleDriver', NEW g \in Drivers,
         \/ Start(g) /\ ~Return(g)
         \/ HeadFails(g) \/ HeadFresh(g) \/ Appended(g) \/ (HeadParked(g) /\ ~StoreOk(g))
         \/ \E ok \in BOOLEAN : AppendOutcome(g, ok)
         \/ \E answer \in Answers : Execute(g, answer)
  PROVE  Recorded' /\ Progress
<1>1. me \in [Drivers -> Driver] /\ me[g] \in Driver
  BY DEF TypeInv, TypeOK
<1>2. ASSUME NEW label \in {"top", "fail", "observe", "learnt"}, Goto(g, label), store' = store,
             me[g].pc \in {"start", "top", "append"}, label = "learnt" => me[g].pc = "append"
      PROVE  Recorded' /\ Progress
  <2>1. me'[g].run = me[g].run /\ me'[g].pc = label /\ \A h \in Drivers \ {g} : me'[h] = me[h]
    BY <1>1, <1>2 DEF Goto, Driver
  <2>2. Behind(label) \subseteq Behind(me[g].pc)
    BY <1>2 DEF Behind
  <2>3. Driving(g)
    BY <1>2 DEF Driving
  <2> QED BY <1>2, <2>1, <2>2, <2>3, MoveRecorded
<1>3. CASE Start(g) /\ ~Return(g)
  <2> DEFINE label == IF StoreOk(g) THEN "top" ELSE "fail"
  <2>1. label \in {"top", "fail"} /\ Goto(g, label)
    BY <1>3 DEF Start
  <2> HIDE DEF label
  <2> QED BY <1>2, <1>3, <2>1 DEF Start
<1>4. CASE HeadFails(g) \/ HeadFresh(g) \/ Appended(g) \/ (HeadParked(g) /\ ~StoreOk(g))
  BY <1>2, <1>4 DEF HeadFails, HeadFresh, HeadParked, Appended
<1>5. ASSUME NEW ok \in BOOLEAN, AppendOutcome(g, ok) PROVE Recorded' /\ Progress
  <2>1. me[g].pc = "append" /\ store' = store /\ Driving(g)
    BY <1>5 DEF AppendOutcome, Driving
  <2>2. /\ me'[g].run = me[g].run /\ me'[g].pc \in {"append", "learnt"}
        /\ \A h \in Drivers \ {g} : me'[h] = me[h]
    BY <1>1, <1>5, <2>1 DEF AppendOutcome, Driver
  <2>3. Behind(me'[g].pc) \subseteq Behind(me[g].pc)
    BY <2>1, <2>2 DEF Behind
  <2> QED BY <2>1, <2>2, <2>3, MoveRecorded
<1>6. ASSUME NEW answer \in Answers, Execute(g, answer) PROVE Recorded' /\ Progress
  <2>1. me[g].pc = "execute" /\ store' = store /\ Driving(g)
    BY <1>6 DEF Execute, Driving
  <2>2. /\ me'[g].run = me[g].run /\ me'[g].pc \in {"execute", "acted"}
        /\ \A h \in Drivers \ {g} : me'[h] = me[h]
    BY <1>1, <1>6, <2>1 DEF Execute, Driver
  <2>3. Behind(me'[g].pc) \subseteq Behind(me[g].pc)
    BY <2>1, <2>2 DEF Behind
  <2> QED BY <2>1, <2>2, <2>3, MoveRecorded
<1> QED BY <1>3, <1>4, <1>5, <1>6

\* The transitions within an iteration.
LEMMA StagesRecorded ==
  ASSUME TypeInv, Recorded, SingleDriver, SingleDriver', NEW g \in Drivers,
         \/ Observe(g) \/ Understand(g) \/ Decide(g) \/ Act(g) \/ SkipActing(g) \/ Learn(g)
         \/ Acted(g) \/ Learnt(g) \/ \E ok \in BOOLEAN : Recall(g, ok) \/ Signals(g, ok)
  PROVE  Recorded' /\ Progress
<1>1. /\ Behind("recall") \subseteq Behind("observe") /\ Behind("signals") = Behind("understand")
      /\ Behind("deliberate") = Behind("decide") /\ Behind("execute") = Behind("act")
      /\ Behind("skipped") = Behind("skip") /\ Behind("append") = Behind("learn")
  BY DEF Behind
<1>2. /\ Behind("understand") \subseteq Behind("recall") \cup {"observing"}
      /\ Behind("decide") \subseteq Behind("signals") \cup {"understanding"}
      /\ Behind("learn") \subseteq Behind("acted") \cup {"acting"}
      /\ Behind("complete") \subseteq Behind("learnt") \cup {"learning"}
      /\ Behind("again") \subseteq Behind("learnt") \cup {"learning"}
  BY DEF Behind, UpToDecision, LoopStage
<1>3. /\ LoopStage = {"observing", "understanding", "deciding", "acting", "learning"}
      /\ {"recall", "signals", "deliberate", "execute", "skipped", "append",
          "understand", "decide", "learn", "complete", "again"} \subseteq Labels
  BY DEF LoopStage, Labels
<1>4. me[g].ok \in BOOLEAN
  BY DEF TypeInv, TypeOK, Driver
<1>5. CASE Observe(g) \/ Understand(g) \/ Decide(g) \/ Act(g) \/ SkipActing(g) \/ Learn(g)
  <2>1. CASE Observe(g)
    BY <1>1, <1>3, <2>1, TransitionRecorded DEF Observe
  <2>2. CASE Understand(g)
    BY <1>1, <1>3, <2>2, TransitionRecorded DEF Understand
  <2>3. CASE Decide(g)
    BY <1>1, <1>3, <2>3, TransitionRecorded DEF Decide
  <2>4. CASE Act(g)
    BY <1>1, <1>3, <2>4, TransitionRecorded DEF Act
  <2>5. CASE SkipActing(g)
    BY <1>1, <1>3, <2>5, TransitionRecorded DEF SkipActing
  <2>6. CASE Learn(g)
    BY <1>1, <1>3, <2>6, TransitionRecorded DEF Learn
  <2> QED BY <1>5, <2>1, <2>2, <2>3, <2>4, <2>5, <2>6
<1>6. ASSUME NEW ok \in BOOLEAN, Recall(g, ok) PROVE Recorded' /\ Progress
  BY <1>2, <1>3, <1>6, EndStageRecorded DEF Recall
<1>7. ASSUME NEW ok \in BOOLEAN, Signals(g, ok) PROVE Recorded' /\ Progress
  BY <1>2, <1>3, <1>7, EndStageRecorded DEF Signals
<1>8. CASE Acted(g)
  BY <1>2, <1>3, <1>4, <1>8, EndStageRecorded DEF Acted
<1>9. CASE Learnt(g)
  <2> DEFINE then == IF Satisfied(me[g].results) THEN "complete" ELSE "again"
  <2>1. then \in {"complete", "again"} /\ EndStage(g, "learnt", "learning", me[g].ok, then)
    BY <1>9 DEF Learnt
  <2> HIDE DEF then
  <2>2. me[g].run.status = "learning"
    <3>1. me[g].pc = "learnt" /\ Driving(g)
      BY <2>1 DEF EndStage, Driving
    <3> QED BY <3>1 DEF Recorded, Ahead
  <2>3. "learning" \notin Terminal
    BY DEF Terminal
  <2> QED BY <1>2, <1>3, <1>4, <2>1, <2>2, <2>3, EndStageRecorded
<1> QED BY <1>5, <1>6, <1>7, <1>8, <1>9

\* awaiting_approval and completed are written over a row that has the stages.
LEMMA LevelRecorded ==
  ASSUME TypeInv, Recorded, SingleDriver, SingleDriver', NEW g \in Drivers,
         Gate(g) \/ Complete(g)
  PROVE  Recorded' /\ Progress
<1> DEFINE to == IF me[g].pc = "gate" THEN "awaiting_approval" ELSE "completed"
           r == [me[g].run EXCEPT !.status = to]
<1>1. /\ me[g] \in Driver /\ me[g].run \in Run /\ store \in Run /\ Driving(g)
      /\ me[g].pc \in {"gate", "complete"} /\ Ahead(me[g], store) /\ Sound(store)
  BY DEF Gate, Complete, Transition, Driving, Recorded, TypeInv, TypeOK, Driver
<1>2. PICK label \in {"raise", "act", "skip", "completed", "fail"} :
        /\ me' = [me EXCEPT ![g].run.status = to, ![g].pc = label]
        /\ label # "fail" => (label = "completed" <=> me[g].pc = "complete")
        /\ store' \in {store, [store EXCEPT !.status = to]}
  <2>1. CASE Gate(g)
    <3> DEFINE then == IF GateEnabled THEN "raise"
                       ELSE IF me[g].decision.actions > 0 /\ ~ReadOnly THEN "act" ELSE "skip"
               label == IF StoreOk(g) THEN then ELSE "fail"
    <3>1. /\ label \in {"raise", "act", "skip", "fail"} /\ me[g].pc = "gate"
          /\ me' = [me EXCEPT ![g].run.status = to, ![g].pc = label]
          /\ store' \in {store, [store EXCEPT !.status = to]}
      BY <2>1 DEF Gate, Transition
    <3> HIDE DEF label, to
    <3> QED BY <3>1
  <2>2. CASE Complete(g)
    <3> DEFINE label == IF StoreOk(g) THEN "completed" ELSE "fail"
    <3>1. /\ label \in {"completed", "fail"} /\ me[g].pc = "complete"
          /\ me' = [me EXCEPT ![g].run.status = to, ![g].pc = label]
          /\ store' \in {store, [store EXCEPT !.status = to]}
      BY <2>2 DEF Complete, Transition
    <3> HIDE DEF label, to
    <3> QED BY <3>1
  <2> QED BY <2>1, <2>2
<1>3. /\ Ran(me[g].run, me[g].run.iteration, Behind(me[g].pc))
      /\ Behind("gate") = UpToDecision /\ Behind("complete") = LoopStage
      /\ store.iteration = me[g].run.iteration /\ store.steps = me[g].run.steps
  BY <1>1 DEF Ahead, Behind
<1>4. to \in Status
  BY DEF Status, Terminal
<1>5. /\ to = "awaiting_approval" => Ran(me[g].run, me[g].run.iteration, UpToDecision)
      /\ to = "completed" => Ran(me[g].run, me[g].run.iteration, LoopStage)
  BY <1>1, <1>3
<1>6. Sound(r) /\ r.iteration = me[g].run.iteration /\ r.steps = me[g].run.steps
  BY <1>1, <1>4, <1>5, SoundStatus DEF Ahead, Run
<1>7. Sound(store') /\ store'.iteration = store.iteration /\ store'.steps = store.steps
  <2>1. /\ to = "awaiting_approval" => Ran(store, store.iteration, UpToDecision)
        /\ to = "completed" => Ran(store, store.iteration, LoopStage)
    BY <1>3, <1>5 DEF Ran
  <2>2. Sound([store EXCEPT !.status = to])
    BY <1>1, <1>4, <2>1, SoundStatus
  <2> HIDE DEF to
  <2> QED BY <1>1, <1>2, <2>2 DEF Run
<1> HIDE DEF to
<1>8. me'[g].run = r /\ me'[g].pc = label /\ \A h \in Drivers \ {g} : me'[h] = me[h]
  BY <1>1, <1>2 DEF TypeInv, TypeOK, Driver
<1> HIDE DEF r
<1>9. Behind(label) \subseteq Behind(me[g].pc)
  BY <1>1, <1>2 DEF Behind
<1>10. Ahead(me'[g], store')
  BY <1>1, <1>2, <1>3, <1>6, <1>7, <1>8, <1>9 DEF Ahead, Ran
<1>11. Recorded'
  BY <1>1, <1>7, <1>8, <1>10, OthersOff
<1> QED BY <1>1, <1>7, <1>11, RunLoopAssumption DEF Progress, Run, Iteration

\* A driver changes its copy and saves it; the copy stays sound and ahead.
LEMMA SaveRecorded ==
  ASSUME TypeInv, Recorded, SingleDriver, SingleDriver', NEW g \in Drivers, Driving(g),
         \A h \in Drivers \ {g} : me'[h] = me[h], NEW r \in Run, Sound(r),
         me[g].run.iteration <= r.iteration, me[g].run.steps \subseteq r.steps,
         store' \in {store, r},
         Driving(g)' => /\ me'[g].run = r /\ Ran(r, r.iteration, Behind(me'[g].pc))
                        /\ me'[g].pc = "gate" => store' = r
                        /\ me'[g].pc \notin {"complete", "deliberate", "append", "learnt"}
  PROVE  Recorded' /\ Progress
<1>1. Ahead(me[g], store) /\ Sound(store) /\ store \in Run /\ me[g].run \in Run
  BY DEF Recorded, TypeInv, TypeOK, Driver
<1>2. store.iteration <= r.iteration /\ store.steps \subseteq r.steps /\ r.iteration \in Nat
  BY <1>1, RunLoopAssumption DEF Ahead, Run, Iteration
<1>3. store'.iteration <= r.iteration /\ store'.steps \subseteq r.steps /\ Sound(store')
  BY <1>1, <1>2
<1>4. Driving(g)' => Ahead(me'[g], store')
  BY <1>3 DEF Ahead
<1>5. Recorded'
  BY <1>3, <1>4, OthersOff
<1> QED BY <1>1, <1>2, <1>5, RunLoopAssumption DEF Progress, Run, Iteration

LEMMA SavesRecorded ==
  ASSUME TypeInv, Recorded, SingleDriver, SingleDriver', NEW g \in Drivers,
         \/ Unpark(g) \/ Park(g) \/ Skipped(g) \/ Completed(g) \/ Failed(g)
         \/ \E ok, gated \in BOOLEAN, n \in 0..MaxActions : Deliberate(g, ok, n, gated)
  PROVE  Recorded' /\ Progress
<1>1. /\ me \in [Drivers -> Driver] /\ me[g] \in Driver /\ me[g].run \in Run
      /\ me[g].run.iteration \in Nat
  BY RunLoopAssumption DEF TypeInv, TypeOK, Driver, Run, Iteration
<1>2. Driving(g)
  BY DEF Unpark, Park, Skipped, Completed, Failed, Deliberate, Driving
<1>3. /\ Sound(me[g].run) /\ Ran(me[g].run, me[g].run.iteration, Behind(me[g].pc))
      /\ me[g].pc = "deliberate" => me[g].run.status = "deciding"
  BY <1>2 DEF Recorded, Ahead
<1>4. CASE Unpark(g)
  <2>1. PICK label \in {"act", "skip"} : Goto(g, label)
    BY <1>4 DEF Unpark
  <2>2. /\ me'[g].run = me[g].run /\ me'[g].pc = label /\ me[g].pc = "unpark"
        /\ \A h \in Drivers \ {g} : me'[h] = me[h]
    BY <1>1, <1>4, <2>1 DEF Goto, Unpark, Driver
  <2>3. store' \in {store, me[g].run} /\ Behind(label) = Behind("unpark")
    BY <1>4 DEF Unpark, Save, Behind
  <2> QED BY <1>1, <1>2, <1>3, <2>2, <2>3, SaveRecorded
<1>5. CASE Park(g) \/ Failed(g)
  <2>1. /\ me' = [me EXCEPT ![g] = Off] /\ store' \in {store, me[g].run}
    BY <1>5 DEF Park, Failed, Save, Return
  <2>2. ~Driving(g)' /\ \A h \in Drivers \ {g} : me'[h] = me[h]
    BY <1>1, <2>1 DEF Off, At, Driving
  <2> QED BY <1>1, <1>2, <1>3, <2>1, <2>2, SaveRecorded
<1>6. CASE Completed(g)
  <2> DEFINE r == [me[g].run EXCEPT !.status = "completed", !.completedAt = TRUE]
  <2>1. /\ me' = [me EXCEPT ![g] = Off] /\ store' \in {store, r} /\ me[g].pc = "completed"
    BY <1>6 DEF Completed, Save, Return
  <2>2. ~Driving(g)' /\ \A h \in Drivers \ {g} : me'[h] = me[h]
    BY <1>1, <2>1 DEF Off, At, Driving
  <2>3. "completed" \in Status /\ Behind("completed") = LoopStage
    BY DEF Status, Terminal, Behind
  <2>4. r \in Run /\ Sound(r) /\ r.iteration = me[g].run.iteration /\ r.steps = me[g].run.steps
    <3>1. Ran(me[g].run, me[g].run.iteration, LoopStage)
      BY <1>3, <2>1, <2>3
    <3>2. r \in Run /\ Sound(r)
      BY <1>1, <1>3, <2>3, <3>1, SoundStatus, RunUpdates
    <3> QED BY <1>1, <3>2 DEF Run
  <2> HIDE DEF r
  <2> QED BY <1>1, <1>2, <2>1, <2>2, <2>4, SaveRecorded
<1>7. CASE Skipped(g)
  <2> DEFINE r == [me[g].run EXCEPT !.steps = @ \cup {<<me[g].run.iteration, "acting">>}]
  <2>1. /\ me' = [me EXCEPT ![g].run = r, ![g].pc = "learn"] /\ store' \in {store, r}
        /\ me[g].pc = "skipped"
    BY <1>7 DEF Skipped, Save
  <2>2. "acting" \in LoopStage /\ Behind("learn") = Behind("skipped") \cup {"acting"}
    BY DEF LoopStage, Behind
  <2>3. r \in Run /\ Sound(r)
    BY <1>1, <1>3, <2>2, SoundMore, RunUpdates
  <2>4. r.iteration = me[g].run.iteration /\ r.steps = me[g].run.steps \cup {<<r.iteration, "acting">>}
    BY <1>1 DEF Run
  <2> HIDE DEF r
  <2>5. me'[g].run = r /\ me'[g].pc = "learn" /\ \A h \in Drivers \ {g} : me'[h] = me[h]
    BY <1>1, <2>1 DEF Driver
  <2>6. Ran(r, r.iteration, Behind("learn"))
    BY <1>3, <2>1, <2>2, <2>4 DEF Ran
  <2> QED BY <1>1, <1>2, <2>1, <2>3, <2>4, <2>5, <2>6, SaveRecorded
<1>8. ASSUME NEW ok \in BOOLEAN, NEW gated \in BOOLEAN, NEW n \in 0..MaxActions,
             Deliberate(g, ok, n, gated)
      PROVE  Recorded' /\ Progress
  <2> DEFINE c == [id |-> decided + 1, actions |-> n, gated |-> gated]
             s == [me[g].run EXCEPT !.steps = @ \cup {<<me[g].run.iteration, "deciding">>}]
             r == IF ok THEN s ELSE me[g].run
             then == IF RequiresApproval(c) THEN "gate"
                     ELSE IF n > 0 /\ ~ReadOnly THEN "act" ELSE "skip"
             label == IF ok /\ StoreOk(g) THEN then ELSE "fail"
  <2>1. /\ me' = [me EXCEPT ![g].run = r, ![g].decision = c, ![g].pc = label] /\ Save(g, r)
        /\ me[g].pc = "deliberate"
    BY <1>8 DEF Deliberate
  <2>2. label = "fail" \/ (label \in {"gate", "act", "skip"} /\ ok /\ StoreOk(g))
    OBVIOUS
  <2>3. "deciding" \in LoopStage /\ "deciding" \notin Terminal
    BY DEF LoopStage, Terminal
  <2>4. s \in Run /\ Sound(s) /\ s.iteration = me[g].run.iteration /\ s.status = me[g].run.status
        /\ s.steps = me[g].run.steps \cup {<<s.iteration, "deciding">>}
    <3>1. s \in Run /\ Sound(s)
      BY <1>1, <1>3, <2>3, SoundMore, RunUpdates
    <3> QED BY <1>1, <3>1 DEF Run
  <2> HIDE DEF s, label, c
  <2>5. r \in Run /\ Sound(r) /\ r.iteration = me[g].run.iteration /\ r.status = "deciding"
        /\ me[g].run.steps \subseteq r.steps
    BY <1>1, <1>3, <2>1, <2>4
  <2>6. Ran(r, r.iteration, Behind(label))
    <3>1. CASE label = "fail"
      BY <3>1 DEF Ran, Behind
    <3>2. CASE label \in {"gate", "act", "skip"} /\ ok
      <4>1. Behind(label) = Behind("deliberate") \cup {"deciding"}
        BY <3>2 DEF Behind, UpToDecision
      <4> QED BY <1>3, <2>1, <2>4, <3>2, <4>1 DEF Ran
    <3> QED BY <2>2, <3>1, <3>2
  <2> HIDE DEF r
  <2>7. store' \in {store, r} /\ (label = "gate" => store' = r)
    BY <2>1, <2>2, <2>3, <2>5 DEF Save, Valid
  <2>8. me'[g].run = r /\ me'[g].pc = label /\ \A h \in Drivers \ {g} : me'[h] = me[h]
    BY <1>1, <2>1 DEF Driver
  <2> QED BY <1>1, <1>2, <2>2, <2>5, <2>6, <2>7, <2>8, SaveRecorded
<1> QED BY <1>4, <1>5, <1>6, <1>7, <1>8

\* A driver changes its copy and at most the status of the row.
LEMMA CopyRecorded ==
  ASSUME TypeInv, Recorded, SingleDriver, SingleDriver', NEW g \in Drivers, Driving(g),
         \A h \in Drivers \ {g} : me'[h] = me[h], NEW r \in Run, Sound(r),
         me[g].run.iteration <= r.iteration, me[g].run.steps \subseteq r.steps,
         store'.iteration = store.iteration, store'.steps = store.steps, Sound(store'),
         me'[g].run = r, Ran(r, r.iteration, Behind(me'[g].pc)),
         me'[g].pc \notin {"gate", "complete", "deliberate", "append", "learnt"}
  PROVE  Recorded' /\ Progress
<1>1. Ahead(me[g], store) /\ Sound(store) /\ store \in Run /\ me[g].run \in Run
  BY DEF Recorded, TypeInv, TypeOK, Driver
<1>2. store.iteration <= r.iteration /\ store.steps \subseteq r.steps
  BY <1>1, RunLoopAssumption DEF Ahead, Run, Iteration
<1>3. Ahead(me'[g], store')
  BY <1>2 DEF Ahead
<1>4. Recorded'
  BY <1>3, OthersOff
<1> QED BY <1>1, <1>4, RunLoopAssumption DEF Progress, Run, Iteration

LEMMA CopiesRecorded ==
  ASSUME TypeInv, Recorded, SingleDriver, SingleDriver', NEW g \in Drivers,
         TakesUp(g) \/ Raise(g) \/ Again(g) \/ Fail(g)
  PROVE  Recorded' /\ Progress
<1>1. /\ me \in [Drivers -> Driver] /\ me[g] \in Driver /\ me[g].run \in Run
      /\ me[g].run.iteration \in Nat /\ store \in Run /\ Sound(store)
  BY RunLoopAssumption DEF Recorded, TypeInv, TypeOK, Driver, Run, Iteration
<1>2. Driving(g)
  BY DEF TakesUp, Raise, Again, Fail, Driving
<1>3. Sound(me[g].run) /\ Ran(me[g].run, me[g].run.iteration, Behind(me[g].pc))
  BY <1>2 DEF Recorded, Ahead
<1>4. CASE TakesUp(g)
  <2> DEFINE r == [me[g].run EXCEPT !.pending = NoDecision]
  <2>1. r \in Run /\ r.iteration = me[g].run.iteration /\ r.steps = me[g].run.steps
        /\ r.status = "awaiting_approval" /\ r.pending = NoDecision
        /\ Ran(r, r.iteration, UpToDecision)
    <3>1. r \in Run
      BY <1>1, RunUpdates
    <3>2. Parked(me[g].run) /\ Ran(me[g].run, me[g].run.iteration, UpToDecision)
      BY <1>3, <1>4 DEF TakesUp, Sound
    <3>3. /\ r.iteration = me[g].run.iteration /\ r.steps = me[g].run.steps
          /\ r.status = "awaiting_approval" /\ r.pending = NoDecision
      BY <1>1, <3>2 DEF Parked, Run
    <3> QED BY <3>1, <3>2, <3>3 DEF Ran
  <2>2. Sound(r)
    <3> HIDE DEF r
    <3> QED BY <1>3, <2>1 DEF Sound, Ran, Parked
  <2>3. me' = [me EXCEPT ![g].decision = me[g].run.pending, ![g].run = r, ![g].pc = "unpark"]
        /\ store' = store
    BY <1>1, <1>4 DEF TakesUp, Driver
  <2> HIDE DEF r
  <2>4. me'[g].run = r /\ me'[g].pc = "unpark" /\ \A h \in Drivers \ {g} : me'[h] = me[h]
    BY <1>1, <2>3 DEF Driver
  <2>5. Behind("unpark") = UpToDecision
    BY DEF Behind
  <2> QED BY <1>1, <1>2, <2>1, <2>2, <2>3, <2>4, <2>5, CopyRecorded
<1>5. CASE Raise(g)
  <2> DEFINE r == [me[g].run EXCEPT !.pending = me[g].decision]
  <2>1. me[g].pc = "raise" /\ Behind("raise") = UpToDecision /\ Behind("park") = UpToDecision
    BY <1>5 DEF Raise, Behind
  <2>2. me[g].decision \in Decision
    BY <2>1 DEF TypeInv, Locals, Decided
  <2>3. r \in Run /\ r.iteration = me[g].run.iteration /\ r.steps = me[g].run.steps
        /\ r.status = me[g].run.status /\ r.completedAt = me[g].run.completedAt
    <3>1. r \in Run
      BY <1>1, <2>2, RunUpdates
    <3> QED BY <1>1, <3>1 DEF Run
  <2>4. me' = [me EXCEPT ![g].run = r, ![g].pc = "park"] /\ store' = store
    BY <1>1, <1>5 DEF Raise, Driver
  <2> HIDE DEF r
  <2>5. Sound(r) /\ Ran(r, r.iteration, UpToDecision)
    BY <1>3, <2>1, <2>3 DEF Sound, Ran, Parked
  <2>6. me'[g].run = r /\ me'[g].pc = "park" /\ \A h \in Drivers \ {g} : me'[h] = me[h]
    BY <1>1, <2>4 DEF Driver
  <2> QED BY <1>1, <1>2, <2>1, <2>3, <2>4, <2>5, <2>6, CopyRecorded
<1>6. CASE Again(g)
  <2> DEFINE r == [me[g].run EXCEPT !.iteration = @ + 1, !.status = "observing"]
             label == IF StoreOk(g) THEN "top" ELSE "fail"
  <2>1. me[g].pc = "again" /\ Behind("again") = LoopStage /\ "observing" \in Status
    BY <1>6 DEF Again, Behind, Status, LoopStage
  <2>2. me[g].run.iteration < MaxIterations
    BY <2>1 DEF TypeInv, Locals, Fresh
  <2>3. r \in Run /\ r.iteration = me[g].run.iteration + 1 /\ r.steps = me[g].run.steps
        /\ r.status = "observing"
    <3>1. r \in Run
      BY <1>1, <2>2, RunUpdates
    <3> QED BY <1>1, <3>1 DEF Run
  <2>4. me' = [me EXCEPT ![g] = At(label, r)] /\ label \in {"top", "fail"}
        /\ store' \in {store, [store EXCEPT !.status = "observing"]}
    BY <1>6 DEF Again
  <2> HIDE DEF r, label
  <2>5. Sound(r)
    <3>1. ASSUME NEW i \in Iteration, i < r.iteration PROVE Ran(r, i, LoopStage)
      <4>1. i < me[g].run.iteration \/ i = me[g].run.iteration
        BY <1>1, <2>3, <3>1, RunLoopAssumption DEF Iteration
      <4> QED BY <1>3, <2>1, <2>3, <4>1 DEF Sound, Ran
    <3> QED BY <2>3, <3>1 DEF Sound, Parked
  <2>6. Sound(store') /\ store'.iteration = store.iteration /\ store'.steps = store.steps
    <3>1. /\ store \in Run /\ Sound(store)
          /\ "observing" \in Status \ {"awaiting_approval", "completed"}
          /\ store' \in {store, [store EXCEPT !.status = "observing"]}
      BY <1>1, <2>1, <2>4
    <3> QED BY <3>1, RowStatus
  <2>7. me'[g].run = r /\ me'[g].pc = label /\ \A h \in Drivers \ {g} : me'[h] = me[h]
    BY <1>1, <2>4 DEF At
  <2>8. Ran(r, r.iteration, Behind(label))
    BY <2>4 DEF Ran, Behind
  <2> QED BY <1>1, <1>2, <2>3, <2>4, <2>5, <2>6, <2>7, <2>8, CopyRecorded
<1>7. CASE Fail(g)
  <2> DEFINE r == [me[g].run EXCEPT !.status = "failed", !.completedAt = TRUE]
  <2>1. "failed" \in Status
    BY DEF Status, Terminal
  <2>2. r \in Run /\ Sound(r)
    BY <1>1, <1>3, <2>1, SoundStatus, RunUpdates
  <2>3. r.iteration = me[g].run.iteration /\ r.steps = me[g].run.steps
    BY <1>1 DEF Run
  <2>4. me'[g].run = r /\ me'[g].pc = "failed" /\ \A h \in Drivers \ {g} : me'[h] = me[h]
    <3>1. me' = [me EXCEPT ![g].run.status = "failed", ![g].run.completedAt = TRUE,
                           ![g].pc = "failed"]
      BY <1>7 DEF Fail
    <3>2. /\ \A h \in Drivers \ {g} : me'[h] = me[h]
          /\ me'[g] = [me[g] EXCEPT !.run.status = "failed", !.run.completedAt = TRUE,
                                   !.pc = "failed"]
      BY <1>1, <3>1
    <3>3. me'[g] = [me[g] EXCEPT !.run = r, !.pc = "failed"]
      BY <3>2
    <3> HIDE DEF r
    <3> QED BY <1>1, <3>2, <3>3 DEF Driver
  <2>5. store' \in {store, [store EXCEPT !.status = "failed"]}
    BY <1>7 DEF Fail
  <2> HIDE DEF r
  <2>6. Sound(store') /\ store'.iteration = store.iteration /\ store'.steps = store.steps
    <3>1. /\ store \in Run /\ Sound(store)
          /\ "failed" \in Status \ {"awaiting_approval", "completed"}
          /\ store' \in {store, [store EXCEPT !.status = "failed"]}
      BY <1>1, <2>1, <2>5
    <3> QED BY <3>1, RowStatus
  <2>7. Ran(r, r.iteration, Behind("failed"))
    BY DEF Ran, Behind
  <2> QED BY <1>1, <1>2, <2>2, <2>3, <2>4, <2>6, <2>7, CopyRecorded
<1> QED BY <1>4, <1>5, <1>6, <1>7

\* Nothing but positions outside engine.Run changes.
LEMMA OutsideRecorded ==
  ASSUME TypeInv, Recorded, store' = store,
         \A h \in Drivers : me'[h] = me[h] \/ ~Driving(h)'
  PROVE  Recorded' /\ Progress
<1>1. Recorded'
  BY DEF Recorded, Driving
<1> QED BY <1>1, RunLoopAssumption DEF Progress, TypeInv, TypeOK, Run, Iteration

\* A driver that loads the row starts level with it.
LEMMA LoadRecorded ==
  ASSUME TypeInv, Recorded, SingleDriver, SingleDriver', NEW g \in Drivers,
         me' = [me EXCEPT ![g] = At("start", store)], store' = store
  PROVE  Recorded' /\ Progress
<1>1. /\ me'[g].pc = "start" /\ me'[g].run = store /\ store \in Run /\ Sound(store)
      /\ \A h \in Drivers \ {g} : me'[h] = me[h]
  BY DEF At, Recorded, TypeInv, TypeOK
<1>2. Driving(g)' /\ store.iteration <= store.iteration
  BY <1>1, RunLoopAssumption DEF Driving, Run, Iteration
<1>3. Ahead(me'[g], store')
  BY <1>1, <1>2 DEF Ahead, Ran, Behind
<1>4. Recorded'
  BY <1>1, <1>2, <1>3, OthersOff
<1> QED BY <1>1, <1>2, <1>4 DEF Progress

LEMMA ReturnRecorded ==
  ASSUME TypeInv, Recorded, SingleDriver, SingleDriver', NEW g \in Drivers, Return(g), store' = store
  PROVE  Recorded' /\ Progress
<1>1. \A h \in Drivers : me'[h] = me[h] \/ ~Driving(h)'
  BY DEF Return, Off, At, Driving, TypeInv, TypeOK
<1> QED BY <1>1, OutsideRecorded

LEMMA StepRecorded ==
  ASSUME TypeInv, Recorded, SingleDriver, SingleDriver', NEW g \in Drivers, Step(g)
  PROVE  Recorded' /\ Progress
<1>1. CASE Start(g) /\ Return(g)
  BY <1>1, ReturnRecorded DEF Start
<1>2. CASE HeadParked(g)
  <2>1. CASE StoreOk(g) /\ approval.state = "pending"
    BY <1>2, <2>1, ReturnRecorded DEF HeadParked
  <2>3. CASE ~StoreOk(g)
    BY <1>2, <2>3, MovesRecorded
  <2>2. CASE StoreOk(g) /\ approval.state # "pending"
    <3>1. me[g].run.iteration < MaxIterations
      BY <1>2, RunLoopAssumption
         DEF HeadParked, OverLimit, TypeInv, TypeOK, Driver, Run, Iteration
    <3> QED BY <1>2, <2>2, <3>1, CopiesRecorded DEF HeadParked, TakesUp
  <2> QED BY <2>1, <2>2, <2>3
<1>3. CASE Resume(g)
  <2>1. CASE StoreOk(g) /\ Parked(store)
    BY <1>3, <2>1, LoadRecorded DEF Resume
  <2>2. CASE ~(StoreOk(g) /\ Parked(store))
    BY <1>3, <2>2, ReturnRecorded DEF Resume
  <2> QED BY <2>1, <2>2
<1>4. CASE ~(Start(g) /\ Return(g)) /\ ~HeadParked(g) /\ ~Resume(g)
  BY <1>4, MovesRecorded, StagesRecorded, LevelRecorded, SavesRecorded, CopiesRecorded, Zenon DEF Step
<1> QED BY <1>1, <1>2, <1>3, <1>4

LEMMA SteerRecorded ==
  ASSUME TypeInv, Recorded, NEW s \in Steerers,
         SteerStep(s) \/ \E cmd \in Commands : Issue(s, cmd)
  PROVE  Recorded' /\ Progress
<1>1. CASE Writes
  <2>1. PICK status \in {"paused", "cancelled", "observing"} : WriteStatus(status)
    BY <1>1 DEF Writes
  <2>2. status \in Status /\ store \in Run /\ Sound(store)
    BY DEF Status, Terminal, LoopStage, Recorded, TypeInv, TypeOK
  <2>3. Sound(store') /\ store'.iteration = store.iteration /\ store'.steps = store.steps
    BY <2>1, <2>2, SoundStatus DEF WriteStatus, Run
  <2>4. me' = me
    BY <2>1 DEF WriteStatus
  <2>5. Recorded'
    BY <2>3, <2>4 DEF Recorded, Ahead, Driving
  <2> QED BY <2>2, <2>3, <2>5, RunLoopAssumption DEF Progress, Run, Iteration
<1>2. CASE Grants
  <2>1. \A h \in Drivers : me'[h] = me[h] \/ ~Driving(h)'
    BY <1>2 DEF Grants, At, Driving, TypeInv, TypeOK
  <2> QED BY <1>2, <2>1, OutsideRecorded DEF Grants
<1>3. CASE DenyPending \/ Refused
  BY <1>3, OutsideRecorded DEF DenyPending, Refused
<1> QED BY <1>1, <1>2, <1>3, SteerShapes

LEMMA RecordedStep ==
  TypeInv /\ Recorded /\ SingleDriver /\ SingleDriver' /\ [Next]_vars => Recorded' /\ Progress
<1> SUFFICES ASSUME TypeInv, Recorded, SingleDriver, SingleDriver', [Next]_vars
             PROVE  Recorded' /\ Progress
  OBVIOUS
<1>1. ASSUME NEW g \in Drivers, Step(g) PROVE Recorded' /\ Progress
  BY <1>1, StepRecorded
<1>2. ASSUME NEW g \in Drivers, CtxEnds(g) PROVE Recorded' /\ Progress
  BY <1>2, OutsideRecorded DEF CtxEnds
<1>3. ASSUME NEW w \in Workers, WorkerLoad(w) PROVE Recorded' /\ Progress
  BY <1>3, LoadRecorded DEF WorkerLoad, Drivers
<1>4. ASSUME NEW w \in Workers, Crash(w) PROVE Recorded' /\ Progress
  BY <1>4, ReturnRecorded DEF Crash, Drivers
<1>5. ASSUME NEW s \in Steerers, SteerStep(s) \/ \E cmd \in Commands : Issue(s, cmd)
      PROVE  Recorded' /\ Progress
  BY <1>5, SteerRecorded
<1>6. CASE UNCHANGED vars
  BY <1>6, OutsideRecorded DEF vars
<1>7. ASSUME NEW g \in Submitters, PublishPanics(g) PROVE Recorded' /\ Progress
  BY <1>7, ReturnRecorded DEF PublishPanics, Drivers
<1>8. CASE ServeEnds
  <2>1. \A h \in Drivers : me'[h] = me[h] \/ ~Driving(h)'
    BY <1>8 DEF ServeEnds, Off, At, Driving
  <2> QED BY <1>8, <2>1, OutsideRecorded DEF ServeEnds
<1>9. CASE StoreTurns
  BY <1>9, OutsideRecorded DEF StoreTurns
<1> QED BY <1>1, <1>2, <1>3, <1>4, <1>5, <1>6, <1>7, <1>8, <1>9 DEF Next

LEMMA RecordedInit == Init => Recorded
<1> SUFFICES ASSUME Init PROVE Recorded
  OBVIOUS
<1>1. /\ NewRun \in Run /\ NewRun.status = "pending" /\ NewRun.iteration = 0 /\ store = NewRun
      /\ \A i \in Iteration : ~(i < 0)
  BY RunLoopAssumption DEF Init, NewRun, Run, Status, Iteration
<1>2. Sound(NewRun)
  BY <1>1 DEF Sound, Parked
<1>3. \A g \in Drivers : Driving(g) => me[g].pc = "start" /\ me[g].run = NewRun
  BY DEF Init, At, Off, Driving
<1>4. \A g \in Drivers : Driving(g) => Ahead(me[g], store)
  BY <1>1, <1>2, <1>3 DEF Ahead, Ran, Behind
<1> QED BY <1>1, <1>2, <1>4 DEF Recorded

(***************************************************************************)
(* Who shares the run                                                      *)
(***************************************************************************)
\* Either only Submit and approvals start the engine, or one worker has the
\* run to itself, as its lease promises.
Exclusive == Workers = {} \/ \A g, h \in Drivers : g = h

LEMMA RecordedInvariant ==
  ASSUME Exclusive
  PROVE  Spec => []Recorded /\ [][Progress]_vars
<1>1. Spec => []SingleDriver
  <2>1. CASE Workers = {}
    BY <2>1, OneDriver
  <2>2. CASE \A g, h \in Drivers : g = h
    <3>1. SingleDriver
      BY <2>2 DEF SingleDriver
    <3> QED BY <3>1, PTL
  <2> QED BY <2>1, <2>2 DEF Exclusive
<1>2. TypeInv /\ SingleDriver /\ SingleDriver' /\ Recorded /\ [Next]_vars
        => TypeInv' /\ Recorded' /\ Progress
  BY TypeStep, RecordedStep
<1> QED BY <1>1, <1>2, TypeInit, RecordedInit, PTL DEF Spec

\* A run stored as completed went through every stage in every iteration,
\* wherever it was suspended, crashed, cancelled or loaded again.
THEOREM IntegrityHolds ==
  ASSUME Exclusive
  PROVE  Spec => []LoopIntegrity
<1>1. TypeInv /\ Recorded => LoopIntegrity
  <2> SUFFICES ASSUME TypeInv, Recorded, store.status = "completed", store.completedAt,
                      NEW i \in 0..store.iteration, NEW stage \in LoopStage
               PROVE  <<i, stage>> \in store.steps
    BY DEF LoopIntegrity
  <2>1. store \in Run /\ store.iteration \in Iteration
    BY DEF TypeInv, TypeOK, Run
  <2>2. i \in Iteration /\ (i < store.iteration \/ i = store.iteration)
    BY <2>1, RunLoopAssumption DEF Iteration
  <2> QED BY <2>2 DEF Recorded, Sound, Ran
<1>2. Spec => []TypeInv
  BY TypeInit, TypeStep, PTL DEF Spec
<1> QED BY <1>1, <1>2, RecordedInvariant, PTL

\* The stored row never loses an iteration or a step of provenance.
THEOREM ProgressHolds ==
  ASSUME Exclusive
  PROVE  Spec => ProgressKept
<1>1. Progress => store'.iteration >= store.iteration /\ store.steps \subseteq store'.steps
  BY DEF Progress
<1> QED BY <1>1, RecordedInvariant, PTL DEF ProgressKept
=============================================================================
