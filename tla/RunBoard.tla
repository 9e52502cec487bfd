------------------------------ MODULE RunBoard ------------------------------
(***************************************************************************)
(* What the scheduler.Queue port promises, without priorities, leases and  *)
(* time: an accepted run waits or is running until it is finished.  A      *)
(* grant may take runs away from the workers that lost them.               *)
(***************************************************************************)
CONSTANT Runs
VARIABLES waiting, running

Init == waiting = {} /\ running = {}

Accept(r) ==
  /\ r \notin waiting \cup running
  /\ waiting' = waiting \cup {r}
  /\ UNCHANGED running

\* One waiting (or just lost) run is handed to the worker that asks.
Grant(lost, r) ==
  /\ r \in waiting \cup lost
  /\ waiting' = (waiting \cup lost) \ {r}
  /\ running' = (running \ lost) \cup {r}

GiveBack(r) ==
  /\ r \in running
  /\ running' = running \ {r}
  /\ waiting' = waiting \cup {r}

Finish(r) ==
  /\ r \in running
  /\ running' = running \ {r}
  /\ UNCHANGED waiting

Next ==
  \/ \E r \in Runs : Accept(r) \/ GiveBack(r) \/ Finish(r)
  \/ \E lost \in SUBSET running, r \in Runs : Grant(lost, r)

Spec == Init /\ [][Next]_<<waiting, running>>
=============================================================================
