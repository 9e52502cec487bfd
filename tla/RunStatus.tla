----------------------------- MODULE RunStatus ------------------------------
(***************************************************************************)
(* The run statuses of internal/domain/run.go and the transition table of  *)
(* internal/domain/run_fsm.go.                                             *)
(***************************************************************************)
LoopStage == {"observing", "understanding", "deciding", "acting", "learning"}
Terminal == {"completed", "failed", "cancelled"}
Status == LoopStage \cup Terminal \cup {"pending", "awaiting_approval", "paused"}

\* NewRunMachine: the statuses each status may move to.
Successors ==
  [pending           |-> {"observing", "cancelled"},
   observing         |-> {"understanding", "paused", "failed"},
   understanding     |-> {"deciding", "paused", "failed"},
   deciding          |-> {"acting", "awaiting_approval", "learning", "paused", "failed"},
   awaiting_approval |-> {"acting", "cancelled"},
   acting            |-> {"learning", "paused", "failed"},
   learning          |-> {"observing", "completed", "failed"},
   paused            |-> LoopStage \cup {"cancelled"},
   completed         |-> {},
   failed            |-> {},
   cancelled         |-> {}]
=============================================================================
