----------------------------- MODULE LeaseQueue -----------------------------
(***************************************************************************)
(* The run queue of internal/scheduler: MemoryQueue with the calls that    *)
(* workers make on it (Lease, Renew, Release) and that a host makes        *)
(* (Enqueue).  Every method holds one mutex from entry to return, so each  *)
(* is one action.  A call that returns an error and changes nothing is a   *)
(* stuttering step, unless the worker that made it forgets its claim.      *)
(*                                                                         *)
(* Time is relative.  The code keeps Until and asks now.After(Until); here *)
(* a lease carries left = Until - now in ticks, saturated at -1, so        *)
(* "expired" is left < 0 and Tick needs no bound.  The enqueue time of an  *)
(* entry only breaks ties between equal priorities, and entries of equal   *)
(* priority always stand in the order they were appended in (append stamps *)
(* the latest time, the sort is stable), so it is not kept.                *)
(* The counter Stats.Done is not kept either: no operation reads it.       *)
(***************************************************************************)
EXTENDS Integers, Sequences, FiniteSets

CONSTANTS
  Runs,         \* run ids that may be enqueued
  Holders,      \* worker names (WorkerConfig.Holder, unique per worker)
  Priorities,   \* priorities a caller may ask for; lower is sooner
  TTL,          \* lease duration in ticks
  MaxAttempts   \* bound: the attempts counter saturates here

ASSUME QueueAssumption ==
  /\ IsFiniteSet(Runs)
  /\ Priorities \subseteq Int
  /\ TTL \in Nat
  /\ MaxAttempts \in Nat

VARIABLES
  pending,      \* q.pending: sequence of entries, leased from the head
  leased,       \* q.leased: map from run id to lease
  claim,        \* per busy worker: the run it is processing and how long the
                \* last reply of the queue entitles it to (worker.process)
  outstanding   \* history: runs accepted by Enqueue and not yet Released done

vars == <<pending, leased, claim, outstanding>>

Left == -1..TTL
Entry == [run: Runs, priority: Int, attempts: 0..MaxAttempts]
Lease == [holder: Holders, left: Left, attempts: 0..MaxAttempts]
Claim == [run: Runs, left: Left]

TypeOK ==
  /\ pending \in Seq(Entry)
  /\ DOMAIN leased \subseteq Runs
  /\ leased \in [DOMAIN leased -> Lease]
  /\ DOMAIN claim \subseteq Holders
  /\ claim \in [DOMAIN claim -> Claim]
  /\ outstanding \subseteq Runs

PendingRuns == {pending[i].run : i \in DOMAIN pending}

ExpiredAtLimit(l) == l.left <= 0                           \* mutant
Expired(l) == l.left < 0
ExpiredRuns == {r \in DOMAIN leased : Expired(leased[r])}

Bump(n) == IF n < MaxAttempts THEN n + 1 ELSE n
Without(f, S) == [x \in DOMAIN f \ S |-> f[x]]
With(f, k, v) == [x \in DOMAIN f \cup {k} |-> IF x = k THEN v ELSE f[x]]

(***************************************************************************)
(* sort.SliceStable on the priority: t is the one rearrangement p of s     *)
(* that is ordered by priority and keeps the order of equals.              *)
(***************************************************************************)
Bijections(n) ==
  {p \in [1..n -> 1..n] : /\ \A i, j \in 1..n : p[i] = p[j] => i = j
                          /\ \A k \in 1..n : \E i \in 1..n : p[i] = k}

StableSorted(s, p) ==
  \A i, j \in DOMAIN s : i < j =>
    \/ s[p[i]].priority < s[p[j]].priority
    \/ s[p[i]].priority = s[p[j]].priority /\ p[i] < p[j]

\* The order in which Go's range visits the expired leases is arbitrary.
VisitOrders(S) ==
  UNION {{q \in [1..n -> S] : /\ \A i, j \in 1..n : q[i] = q[j] => i = j
                              /\ \A x \in S : \E i \in 1..n : q[i] = x}
         : n \in 0..Cardinality(S)}

RequeuedDecremented(r, n) == [run |-> r, priority |-> 0, attempts |-> n - 1]   \* mutant
Requeued(r, n) == [run |-> r, priority |-> 0, attempts |-> n]

-----------------------------------------------------------------------------
Init ==
  /\ pending = <<>>
  /\ leased = <<>>
  /\ claim = <<>>
  /\ outstanding = {}

EnqueueIfNotPending(r, p) ==                               \* mutant
  /\ r \notin PendingRuns
  /\ pending' = Append(pending, [run |-> r, priority |-> p, attempts |-> 0])
  /\ outstanding' = outstanding \cup {r}
  /\ UNCHANGED <<leased, claim>>
Enqueue(r, p) ==
  /\ r \notin PendingRuns
  /\ r \notin DOMAIN leased
  /\ LET s == Append(pending, [run |-> r, priority |-> p, attempts |-> 0])
     IN \E order \in Bijections(Len(s)) :
          /\ StableSorted(s, order)
          /\ pending' = [i \in 1..Len(s) |-> s[order[i]]]
  /\ outstanding' = outstanding \cup {r}
  /\ UNCHANGED <<leased, claim>>

\* What Lease hands out from: q.pending followed by the reclaimed runs.
PoolOfPending(order) == pending                            \* mutant
PoolForgetsAttempts(order) ==                              \* mutant
  pending \o [i \in DOMAIN order |-> Requeued(order[i], 0)]
Pool(order) ==
  pending \o [i \in DOMAIN order |-> Requeued(order[i], leased[order[i]].attempts)]

\* Expired leases go back to the tail first, unsorted and with their attempts
\* count, then the head is handed out; with nothing to hand out (ErrNoWork)
\* nothing had expired either, and the call changes nothing.
LeasePendingOnly(h) ==                                     \* mutant
  /\ h \notin DOMAIN claim
  /\ pending # <<>>
  /\ pending' = Tail(pending)
  /\ leased' = With(leased, Head(pending).run,
                    [holder |-> h, left |-> TTL, attempts |-> Head(pending).attempts])
  /\ claim' = With(claim, h, [run |-> Head(pending).run, left |-> TTL])
  /\ UNCHANGED outstanding
LeaseNext(h) ==
  /\ h \notin DOMAIN claim
  /\ \E order \in VisitOrders(ExpiredRuns) :
       LET pool == Pool(order)
           next == Head(pool)
           live == Without(leased, ExpiredRuns)
       IN /\ pool # <<>>
          /\ pending' = Tail(pool)
          /\ leased' = With(live, next.run,
                            [holder |-> h, left |-> TTL, attempts |-> next.attempts])
          /\ claim' = With(claim, h, [run |-> next.run, left |-> TTL])
  /\ UNCHANGED outstanding

LeaseExists(h, r) == r \in DOMAIN leased                   \* mutant
HoldsLease(h, r) == r \in DOMAIN leased /\ leased[r].holder = h

\* One tick of the worker's heartbeat goroutine.  A refused Renew changes
\* nothing: the heartbeat stops, the worker goes on.
Renew(h) ==
  /\ h \in DOMAIN claim
  /\ LET r == claim[h].run
     IN /\ HoldsLease(h, r)
        /\ ~Expired(leased[r])
        /\ leased' = [leased EXCEPT ![r].left = TTL]
        /\ claim' = [claim EXCEPT ![h].left = TTL]
  /\ UNCHANGED <<pending, outstanding>>

\* Release checks the holder and not the expiry; worker.process returns
\* whatever Release answers, so a refused one only ends the claim.
Release(h, fail) ==
  /\ h \in DOMAIN claim
  /\ LET r == claim[h].run
     IN \/ /\ HoldsLease(h, r)
           /\ leased' = Without(leased, {r})
           /\ IF fail
              THEN /\ pending' = Append(pending, Requeued(r, Bump(leased[r].attempts)))
                   /\ UNCHANGED outstanding
              ELSE /\ outstanding' = outstanding \ {r}
                   /\ UNCHANGED pending
        \/ /\ ~HoldsLease(h, r)
           /\ UNCHANGED <<pending, leased, outstanding>>
  /\ claim' = Without(claim, {h})

\* The worker dies (and may come back under its name); its lease stays.
Crash(h) ==
  /\ h \in DOMAIN claim
  /\ claim' = Without(claim, {h})
  /\ UNCHANGED <<pending, leased, outstanding>>

Elapse(n) == IF n < 0 THEN n ELSE n - 1

Tick ==
  /\ leased' = [r \in DOMAIN leased |-> [leased[r] EXCEPT !.left = Elapse(@)]]
  /\ claim' = [h \in DOMAIN claim |-> [claim[h] EXCEPT !.left = Elapse(@)]]
  /\ UNCHANGED <<pending, outstanding>>

Next ==
  \/ \E r \in Runs, p \in Priorities : Enqueue(r, p)
  \/ \E h \in Holders : LeaseNext(h) \/ Renew(h) \/ Crash(h)
  \/ \E h \in Holders, fail \in BOOLEAN : Release(h, fail)
  \/ Tick

Spec == Init /\ [][Next]_vars

(***************************************************************************)
(* Worker.Run polls for work whenever it is idle, and engine.Run returns   *)
(* (its layer calls have timeouts) unless the worker dies first.  Nothing  *)
(* is assumed of the heartbeat, and a crash is never required.             *)
(***************************************************************************)
Done(h) == Crash(h) \/ \E fail \in BOOLEAN : Release(h, fail)

FairSpec ==
  /\ Spec
  /\ WF_vars(Tick)
  /\ \A h \in Holders : WF_vars(LeaseNext(h)) /\ WF_vars(Done(h))

-----------------------------------------------------------------------------
Distinct(s) == \A i, j \in DOMAIN s : s[i].run = s[j].run => i = j

\* Every accepted run is in exactly one place until it is released done, and
\* no run is there that was not accepted: the idempotence check of Enqueue,
\* the reclaim loop of Lease and the requeue of Release never drop or copy a
\* run between them.
OnePlace ==
  /\ Distinct(pending)
  /\ PendingRuns \cap DOMAIN leased = {}
  /\ outstanding = PendingRuns \cup DOMAIN leased

\* A worker whose last grant has not run out is the holder on record: Lease
\* reclaims a run only after the time it promised the previous holder.
GrantHonoured ==
  \A h \in DOMAIN claim : claim[h].left >= 0 =>
    /\ HoldsLease(h, claim[h].run)
    /\ leased[claim[h].run].left >= claim[h].left

\* Hence two workers with unexpired grants process different runs.
LeaseExclusion ==
  \A g, h \in DOMAIN claim :
    claim[g].left >= 0 /\ claim[h].left >= 0 /\ claim[g].run = claim[h].run => g = h

\* The attempts on record for a run in the queue.
Attempts(r) ==
  IF r \in DOMAIN leased THEN leased[r].attempts
  ELSE pending[CHOOSE i \in DOMAIN pending : pending[i].run = r].attempts

\* The attempts count of a run never goes down while the run is outstanding,
\* through lease, expiry, reclaim and failed release.
AttemptsKept ==
  [][\A r \in outstanding \cap outstanding' : Attempts(r)' >= Attempts(r)]_vars

\* The queue implements the port's promise: seen only as who waits and who
\* runs, every call is one step of RunBoard.
Board == INSTANCE RunBoard WITH waiting <- PendingRuns, running <- DOMAIN leased
ImplementsRunBoard == Board!Spec

\* A run that waits in the first of the priorities that callers ask for is
\* eventually leased, whatever crashes and whatever is put back before it; one
\* of a later priority may be overtaken for ever.
WaitsFirst(r) ==
  \E i \in DOMAIN pending :
    pending[i].run = r /\ \A p \in Priorities : pending[i].priority <= p

\* A lease that ran out without a release does not keep its run for ever: it
\* is reclaimed (backlog: "automatic recovery on worker crash").
ExpiredIsReclaimed ==
  \A r \in Runs : r \in ExpiredRuns ~> r \notin ExpiredRuns
=============================================================================
