------------------------------ MODULE Reports -------------------------------
(***************************************************************************)
(* What is read out of stored runs: the API's Inspect, audit.Reconstruct,  *)
(* explain.Build, resilience.Replay and compliance.BuildDashboard.         *)
(* Each is a function of what the repositories answered.                   *)
(***************************************************************************)
EXTENDS StoreData

StepRefs(steps, layer, stage) ==
  {steps[i].ref : i \in {j \in DOMAIN steps : steps[j].layer = layer /\ steps[j].stage = stage}} \ {""}

\* Service.Inspect: the references of every step, by the layer that gave them.
Inspect(run) ==
  [memories  |-> StepRefs(run.steps, "mnemos", "observing"),
   outcomes  |-> StepRefs(run.steps, "mnemos", "learning"),
   signals   |-> UNION {StepRefs(run.steps, "chronos", s) : s \in Status},
   decisions |-> UNION {StepRefs(run.steps, "nous", s) : s \in Status},
   actions   |-> UNION {StepRefs(run.steps, "praxis", s) : s \in Status},
   timeline  |-> run.steps]

\* The canonical place of a stage in an iteration.
StageOrder ==
  [observing |-> 0, understanding |-> 1, deciding |-> 2, awaiting_approval |-> 3,
   acting |-> 4, learning |-> 5]
StagePlace(stage) == IF stage \in DOMAIN StageOrder THEN StageOrder[stage] ELSE 99

ChainBeforeByIteration(a, b) == a.iteration < b.iteration   \* mutant
ChainBefore(a, b) ==
  \/ a.iteration < b.iteration
  \/ a.iteration = b.iteration /\ StagePlace(a.stage) < StagePlace(b.stage)
Reconstruct(run) == Sorted(run.steps, ChainBefore)

\* explain.Build: the chain of one read of the run, under the status of a second.
Explain(chain, run) ==
  [status |-> run.status, err |-> run.err,
   iterations |->
     [iter \in {chain[i].iteration : i \in DOMAIN chain} |->
        LET own == Kept(chain, LAMBDA s : s.iteration = iter)
            cited(stage) == Kept(own, LAMBDA s : s.stage = stage /\ s.ref # "")
        IN  [memories |-> cited("observing"), signals |-> cited("understanding"),
             decision |-> IF cited("deciding") = <<>> THEN None ELSE Last(cited("deciding")).ref,
             actions |-> cited("acting"), outcomes |-> cited("learning")]]]

\* iterationContext: the last deciding step of the iteration that has a reference.
DecisionOf(run, iter) ==
  LET decided == Kept(run.steps,
                   LAMBDA s : s.iteration = iter /\ s.stage = "deciding" /\ s.ref # "")
  IN  IF decided = <<>> THEN None ELSE Last(decided).ref
\* Replay: the decisions it asks Nous to make again, in order.
OriginalIDs(run) ==
  Kept([i \in 1..run.iteration + 1 |-> DecisionOf(run, i - 1)], LAMBDA d : d # None)

InWindow(t, since, until) ==
  /\ since # None => t >= since
  /\ until # None => t <= until

\* BuildDashboard: counters over the runs started in the window.
BuildDashboard(runs, events, since, until) ==
  LET counted == Kept(runs, LAMBDA r : InWindow(r.started, since, until))
      with(status) == Len(Kept(counted, LAMBDA r : r.status = status))
      ofKind(kind) == Len(Kept(FlattenSeq([i \in DOMAIN counted |-> events[counted[i].id]]),
                               LAMBDA e : e.kind = kind))
  IN  [total |-> Len(counted),
       completed |-> with("completed"), failed |-> with("failed"), cancelled |-> with("cancelled"),
       inFlight |-> Len(Kept(counted, LAMBDA r : r.status \notin Terminal)),
       approvals |-> ofKind("approval_required"), outcomes |-> ofKind("outcome_written")]
=============================================================================
