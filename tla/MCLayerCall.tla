---------------------------- MODULE MCLayerCall ----------------------------
(* Model values for checking LayerCall with TLC.                           *)
EXTENDS LayerCall

CONSTANTS g1, g2

Act(cap, retryable) == [id |-> None, key |-> None, cap |-> cap, retryable |-> retryable]
MCPlaybook ==
  <<[match |-> "", actions |-> <<Act("noop", TRUE)>>],
    [match |-> "latency", actions |-> <<Act("restart", FALSE), [Act("notify", TRUE) EXCEPT !.key = <<"notify", "once">>]>>],
    [match |-> "restart", actions |-> <<Act("scale", TRUE)>>]>>
MCGoalWords == {"latency", "restart"}
MCResponses == {[decision |-> <<"nous", "d1">>, saved |-> <<<<"nous", "c1">>>>], [decision |-> None, saved |-> <<<<"nous", "c1">>>>]}

MCCompensations == [restart |-> "restart_undo", scale |-> "scale_back"]
Did(cap, status) == [cap |-> cap, status |-> status]
Acting(actions) == [stage |-> "acting", actions |-> actions]
MCHistories ==
  {[status |-> "completed", steps |-> <<Acting(<<Did("scale", "failed"), Did("restart", "succeeded")>>),
      [stage |-> "learning", actions |-> <<>>],
      Acting(<<Did("notify", "succeeded"), Did("scale", "succeeded"), Did("restart", "succeeded")>>)>>],
   [status |-> "completed", steps |-> <<Acting(<<Did("notify", "succeeded")>>)>>],
   [status |-> "failed", steps |-> <<Acting(<<Did("restart", "succeeded")>>)>>]}
Reading(pattern, confidence) == [pattern |-> pattern, confidence |-> confidence]
MCReadings == {{Reading("spike", 6), Reading("trend", 9)}, {Reading("anomaly", 7)}}
=============================================================================
