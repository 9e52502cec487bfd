-------------------------- MODULE LeaseQueueProofs --------------------------
(***************************************************************************)
(* Theorems about LeaseQueue for every set of runs, workers, priorities    *)
(* and every lease duration.                                               *)
(***************************************************************************)
EXTENDS LeaseQueue, TLAPS

(***************************************************************************)
(* Types                                                                   *)
(***************************************************************************)
\* Requeued entries are entries.
LEMMA RequeuedType ==
  ASSUME NEW r \in Runs, NEW n \in 0..MaxAttempts
  PROVE  Requeued(r, n) \in Entry /\ Bump(n) \in 0..MaxAttempts
BY QueueAssumption DEF Requeued, Entry, Bump

\* The rearrangement Enqueue applies keeps the length and only moves entries.
LEMMA SortedType ==
  ASSUME NEW S, NEW s \in Seq(S), NEW order \in Bijections(Len(s))
  PROVE  [i \in 1..Len(s) |-> s[order[i]]] \in Seq(S)
<1>1. \A i \in 1..Len(s) : order[i] \in 1..Len(s)
  BY DEF Bijections
<1>2. \A i \in 1..Len(s) : s[order[i]] \in S
  BY <1>1
<1> QED BY <1>2

\* What Lease hands out from is a sequence of entries.
LEMMA PoolType ==
  ASSUME TypeOK, NEW order \in VisitOrders(ExpiredRuns)
  PROVE  /\ Pool(order) \in Seq(Entry)
         /\ \E n \in Nat : DOMAIN order = 1..n
<1>1. PICK n \in 0..Cardinality(ExpiredRuns) : order \in [1..n -> ExpiredRuns]
  BY DEF VisitOrders
<1>2. n \in Nat
  OBVIOUS
<1>3. \A i \in 1..n : Requeued(order[i], leased[order[i]].attempts) \in Entry
  BY <1>1, RequeuedType DEF TypeOK, ExpiredRuns, Lease
<1>4. [i \in 1..n |-> Requeued(order[i], leased[order[i]].attempts)] \in Seq(Entry)
  BY <1>2, <1>3
<1> QED BY <1>1, <1>2, <1>4 DEF Pool, TypeOK

LEMMA TypeStep == TypeOK /\ [Next]_vars => TypeOK'
<1> SUFFICES ASSUME TypeOK, [Next]_vars PROVE TypeOK'
  OBVIOUS
<1> USE QueueAssumption
<1>1. ASSUME NEW r \in Runs, NEW p \in Priorities, Enqueue(r, p) PROVE TypeOK'
  <2> DEFINE s == Append(pending, [run |-> r, priority |-> p, attempts |-> 0])
  <2>1. s \in Seq(Entry)
    BY DEF TypeOK, Entry
  <2>2. PICK order \in Bijections(Len(s)) : pending' = [i \in 1..Len(s) |-> s[order[i]]]
    BY <1>1 DEF Enqueue
  <2> HIDE DEF s
  <2>3. pending' \in Seq(Entry)
    BY <2>1, <2>2, SortedType
  <2> QED BY <1>1, <2>3 DEF Enqueue, TypeOK
<1>2. ASSUME NEW h \in Holders, LeaseNext(h) PROVE TypeOK'
  <2>1. PICK order \in VisitOrders(ExpiredRuns) :
           /\ Pool(order) # <<>>
           /\ pending' = Tail(Pool(order))
           /\ leased' = With(Without(leased, ExpiredRuns), Head(Pool(order)).run,
                             [holder |-> h, left |-> TTL, attempts |-> Head(Pool(order)).attempts])
           /\ claim' = With(claim, h, [run |-> Head(Pool(order)).run, left |-> TTL])
    BY <1>2 DEF LeaseNext
  <2>2. Head(Pool(order)) \in Entry /\ Tail(Pool(order)) \in Seq(Entry)
    BY <2>1, PoolType
  <2>3. leased' \in [DOMAIN leased' -> Lease] /\ DOMAIN leased' \subseteq Runs
    BY <2>1, <2>2 DEF With, Without, TypeOK, Lease, Entry, Left
  <2>4. claim' \in [DOMAIN claim' -> Claim] /\ DOMAIN claim' \subseteq Holders
    BY <2>1, <2>2 DEF With, TypeOK, Claim, Entry, Left
  <2> QED BY <1>2, <2>1, <2>2, <2>3, <2>4 DEF LeaseNext, TypeOK
<1>3. ASSUME NEW h \in Holders, Renew(h) PROVE TypeOK'
  <2> DEFINE r == claim[h].run
  <2>1. r \in DOMAIN leased /\ h \in DOMAIN claim
    BY <1>3 DEF Renew, HoldsLease
  <2>2. [leased[r] EXCEPT !.left = TTL] \in Lease
    <3>1. leased[r] \in Lease
      BY <2>1 DEF TypeOK
    <3> QED BY <3>1 DEF Lease, Left
  <2>3. [claim[h] EXCEPT !.left = TTL] \in Claim
    BY <2>1 DEF TypeOK, Claim, Left
  <2>4. leased' = [leased EXCEPT ![r] = [leased[r] EXCEPT !.left = TTL]]
    BY <1>3 DEF Renew
  <2>5. claim' = [claim EXCEPT ![h] = [claim[h] EXCEPT !.left = TTL]]
    BY <1>3 DEF Renew
  <2> HIDE DEF r
  <2> QED BY <1>3, <2>1, <2>2, <2>3, <2>4, <2>5 DEF Renew, TypeOK
<1>4. ASSUME NEW h \in Holders, Crash(h) PROVE TypeOK'
  BY <1>4 DEF Crash, TypeOK, Without
<1>5. ASSUME NEW h \in Holders, NEW fail \in BOOLEAN, Release(h, fail) PROVE TypeOK'
  <2> DEFINE r == claim[h].run
  <2>1. claim' \in [DOMAIN claim' -> Claim] /\ DOMAIN claim' \subseteq Holders
    BY <1>5 DEF Release, Without, TypeOK
  <2>2. CASE ~HoldsLease(h, r)
    BY <1>5, <2>1, <2>2 DEF Release, TypeOK
  <2>3. CASE HoldsLease(h, r)
    <3>1. r \in Runs /\ leased[r] \in Lease
      BY <2>3 DEF HoldsLease, TypeOK
    <3>2. Requeued(r, Bump(leased[r].attempts)) \in Entry
      BY <3>1, RequeuedType DEF Lease
    <3>3. leased' \in [DOMAIN leased' -> Lease] /\ DOMAIN leased' \subseteq Runs
      BY <1>5, <2>3 DEF Release, Without, TypeOK
    <3>4. /\ \/ pending' = pending
             \/ pending' = Append(pending, Requeued(r, Bump(leased[r].attempts)))
          /\ outstanding' \subseteq outstanding
      BY <1>5, <2>3 DEF Release
    <3>5. pending' \in Seq(Entry) /\ outstanding' \subseteq Runs
      BY <3>2, <3>4 DEF TypeOK
    <3> QED BY <2>1, <3>3, <3>5 DEF TypeOK
  <2> QED BY <2>2, <2>3
<1>6. ASSUME Tick PROVE TypeOK'
  <2>1. \A r \in DOMAIN leased : [leased[r] EXCEPT !.left = Elapse(@)] \in Lease
    BY DEF TypeOK, Lease, Elapse, Left
  <2>2. \A h \in DOMAIN claim : [claim[h] EXCEPT !.left = Elapse(@)] \in Claim
    BY DEF TypeOK, Claim, Elapse, Left
  <2> QED BY <1>6, <2>1, <2>2 DEF Tick, TypeOK
<1>7. CASE UNCHANGED vars
  BY <1>7 DEF vars, TypeOK
<1> QED BY <1>1, <1>2, <1>3, <1>4, <1>5, <1>6, <1>7 DEF Next

\* The variables keep their types.
THEOREM TypeCorrect == Spec => []TypeOK
<1>1. Init => TypeOK
  BY DEF Init, TypeOK
<1> QED BY <1>1, TypeStep, PTL DEF Spec

(***************************************************************************)
(* What each call does to who waits and who runs                           *)
(***************************************************************************)
\* A stable sort moves every entry and drops none.
LEMMA EnqueueEffect ==
  ASSUME TypeOK, OnePlace, NEW r \in Runs, NEW p \in Priorities, Enqueue(r, p)
  PROVE  /\ Distinct(pending)'
         /\ PendingRuns' = PendingRuns \cup {r}
         /\ leased' = leased
<1> DEFINE e == [run |-> r, priority |-> p, attempts |-> 0]
           s == Append(pending, e)
           n == Len(s)
<1>1. PICK order \in Bijections(n) : pending' = [i \in 1..n |-> s[order[i]]]
  BY DEF Enqueue
<1>2. n \in Nat /\ n = Len(pending) + 1 /\ s \in Seq(Entry)
  BY QueueAssumption DEF TypeOK, Entry
<1>3. /\ \A i \in 1..n : order[i] \in 1..n
      /\ \A i, j \in 1..n : order[i] = order[j] => i = j
      /\ \A k \in 1..n : \E i \in 1..n : order[i] = k
  BY <1>1 DEF Bijections
<1>4. /\ \A i \in 1..Len(pending) : s[i] = pending[i]
      /\ s[n] = e
      /\ DOMAIN pending = 1..Len(pending)
  BY <1>2 DEF TypeOK
<1>5. \A i \in 1..Len(pending) : pending[i].run # r
  BY <1>4 DEF Enqueue, PendingRuns
<1>6. \A i, j \in 1..n : s[i].run = s[j].run => i = j
  <2> SUFFICES ASSUME NEW i \in 1..n, NEW j \in 1..n, s[i].run = s[j].run PROVE i = j
    OBVIOUS
  <2>1. CASE i = n /\ j # n
    BY <1>2, <1>4, <1>5, <2>1
  <2>2. CASE j = n /\ i # n
    BY <1>2, <1>4, <1>5, <2>2
  <2>3. CASE i # n /\ j # n
    <3>1. i \in 1..Len(pending) /\ j \in 1..Len(pending)
      BY <1>2, <2>3
    <3> QED BY <1>4, <3>1 DEF OnePlace, Distinct
  <2> QED BY <2>1, <2>2, <2>3
<1>7. {s[i].run : i \in 1..n} = PendingRuns \cup {r}
  <2>1. \A i \in 1..n : i = n \/ i \in 1..Len(pending)
    BY <1>2
  <2>2. n \in 1..n /\ \A i \in 1..Len(pending) : i \in 1..n
    BY <1>2 DEF TypeOK
  <2> HIDE DEF s, n
  <2> QED BY <1>4, <2>1, <2>2 DEF PendingRuns
<1> HIDE DEF s, n
<1>8. DOMAIN pending' = 1..n /\ \A i \in 1..n : pending'[i] = s[order[i]]
  BY <1>1
<1>9. Distinct(pending)'
  <2> SUFFICES ASSUME NEW i \in 1..n, NEW j \in 1..n, pending'[i].run = pending'[j].run
               PROVE  i = j
    BY <1>8 DEF Distinct
  <2>1. order[i] \in 1..n /\ order[j] \in 1..n
    BY <1>3
  <2>2. s[order[i]].run = s[order[j]].run
    BY <1>8
  <2>3. order[i] = order[j]
    BY <1>6, <2>1, <2>2
  <2> QED BY <1>3, <2>3
<1>10. PendingRuns' = {s[i].run : i \in 1..n}
  BY <1>3, <1>8 DEF PendingRuns
<1> QED BY <1>7, <1>9, <1>10 DEF Enqueue

\* Lease hands out one run and puts back exactly the expired ones.
LEMMA LeaseEffect ==
  ASSUME TypeOK, OnePlace, NEW h \in Holders, LeaseNext(h)
  PROVE  \E r \in PendingRuns \cup ExpiredRuns :
           /\ Distinct(pending)'
           /\ PendingRuns' = (PendingRuns \cup ExpiredRuns) \ {r}
           /\ DOMAIN leased' = (DOMAIN leased \ ExpiredRuns) \cup {r}
           /\ leased'[r].holder = h /\ leased'[r].left = TTL
           /\ \A x \in DOMAIN leased \ ExpiredRuns : x # r /\ leased'[x] = leased[x]
           /\ claim' = With(claim, h, [run |-> r, left |-> TTL])
<1>1. PICK order \in VisitOrders(ExpiredRuns) :
         /\ Pool(order) # <<>>
         /\ pending' = Tail(Pool(order))
         /\ leased' = With(Without(leased, ExpiredRuns), Head(Pool(order)).run,
                           [holder |-> h, left |-> TTL, attempts |-> Head(Pool(order)).attempts])
         /\ claim' = With(claim, h, [run |-> Head(Pool(order)).run, left |-> TTL])
  BY DEF LeaseNext
<1>2. PICK n \in 0..Cardinality(ExpiredRuns) :
         /\ order \in [1..n -> ExpiredRuns]
         /\ \A i, j \in 1..n : order[i] = order[j] => i = j
         /\ \A x \in ExpiredRuns : \E i \in 1..n : order[i] = x
  BY DEF VisitOrders
<1> DEFINE pool == Pool(order)
           m == Len(pending)
<1>3. n \in Nat /\ m \in Nat /\ DOMAIN pending = 1..m /\ pool \in Seq(Entry)
  BY PoolType DEF TypeOK
<1>4. /\ Len(pool) = m + n
      /\ \A i \in 1..m : pool[i] = pending[i]
      /\ \A i \in 1..n : pool[m + i].run = order[i]
  <2> DEFINE back == [i \in 1..n |-> Requeued(order[i], leased[order[i]].attempts)]
  <2>1. \A i \in 1..n : back[i] \in Entry /\ back[i].run = order[i]
    BY <1>2, RequeuedType DEF Requeued, TypeOK, ExpiredRuns, Lease
  <2>2. back \in Seq(Entry) /\ Len(back) = n
    BY <1>3, <2>1
  <2>3. pool = pending \o back
    BY <1>2 DEF Pool
  <2> HIDE DEF back, pool
  <2>4. pending \in Seq(Entry)
    BY DEF TypeOK
  <2>5. Len(pool) = m + n /\ \A i \in 1..m : pool[i] = pending[i]
    BY <1>3, <2>2, <2>3, <2>4
  <2>6. ASSUME NEW i \in 1..n PROVE pool[m + i] = back[i]
    <3>1. m + i \in 1..(m + n) /\ ~(m + i <= m) /\ (m + i) - m = i
      BY <1>3
    <3> QED BY <1>3, <2>2, <2>3, <2>4, <3>1
  <2> QED BY <2>1, <2>5, <2>6
<1>5. \A i, j \in 1..(m + n) : pool[i].run = pool[j].run => i = j
  <2> SUFFICES ASSUME NEW i \in 1..(m + n), NEW j \in 1..(m + n), pool[i].run = pool[j].run
               PROVE  i = j
    OBVIOUS
  <2> HIDE DEF pool
  <2>1. \A k \in 1..(m + n) : k \in 1..m => pool[k].run \in PendingRuns
    BY <1>3, <1>4 DEF PendingRuns
  <2>2. \A k \in 1..(m + n) : k \notin 1..m => k - m \in 1..n /\ pool[k].run = order[k - m]
    <3> SUFFICES ASSUME NEW k \in 1..(m + n), k \notin 1..m
                 PROVE  k - m \in 1..n /\ pool[k].run = order[k - m]
      OBVIOUS
    <3>1. k - m \in 1..n /\ m + (k - m) = k
      BY <1>3
    <3> QED BY <1>4, <3>1
  <2>3. \A k \in 1..(m + n) : k \notin 1..m => pool[k].run \in ExpiredRuns
    BY <1>2, <2>2
  <2>4. PendingRuns \cap ExpiredRuns = {}
    BY DEF OnePlace, ExpiredRuns
  <2>5. CASE i \in 1..m /\ j \in 1..m
    BY <1>3, <1>4, <2>5 DEF OnePlace, Distinct
  <2>6. CASE i \notin 1..m /\ j \notin 1..m
    <3>1. i - m = j - m
      BY <1>2, <2>2, <2>6
    <3> QED BY <1>3, <3>1
  <2> QED BY <2>1, <2>3, <2>4, <2>5, <2>6
<1>6. {pool[i].run : i \in 1..(m + n)} = PendingRuns \cup ExpiredRuns
  <2>1. \A i \in 1..(m + n) : i \in 1..m \/ \E k \in 1..n : i = m + k
    <3> SUFFICES ASSUME NEW i \in 1..(m + n), i \notin 1..m PROVE \E k \in 1..n : i = m + k
      OBVIOUS
    <3>1. i - m \in 1..n /\ i = m + (i - m)
      BY <1>3
    <3> QED BY <3>1
  <2>2. \A i \in 1..m : i \in 1..(m + n)
    BY <1>3
  <2>3. \A k \in 1..n : m + k \in 1..(m + n)
    BY <1>3
  <2> HIDE DEF pool, m
  <2>4. ASSUME NEW x \in {pool[i].run : i \in 1..(m + n)} PROVE x \in PendingRuns \cup ExpiredRuns
    <3>1. PICK i \in 1..(m + n) : x = pool[i].run
      OBVIOUS
    <3>2. CASE i \in 1..m
      BY <1>3, <1>4, <3>1, <3>2 DEF PendingRuns
    <3>3. CASE \E k \in 1..n : i = m + k
      BY <1>2, <1>4, <3>1, <3>3
    <3> QED BY <2>1, <3>2, <3>3
  <2>5. ASSUME NEW x \in PendingRuns PROVE x \in {pool[i].run : i \in 1..(m + n)}
    BY <1>3, <1>4, <2>2 DEF PendingRuns
  <2>6. ASSUME NEW x \in ExpiredRuns PROVE x \in {pool[i].run : i \in 1..(m + n)}
    BY <1>2, <1>4, <2>3
  <2> QED BY <2>4, <2>5, <2>6
<1> DEFINE r == Head(pool).run
<1>7. /\ Len(pool) = m + n /\ m + n \in Nat /\ m + n >= 1
      /\ r = pool[1].run
      /\ DOMAIN pending' = 1..(m + n - 1)
      /\ \A i \in 1..(m + n - 1) : pending'[i] = pool[i + 1]
  BY <1>1, <1>3, <1>4
<1> HIDE DEF pool, m
<1>8. \A i \in 1..(m + n - 1) : i + 1 \in 1..(m + n) /\ i + 1 # 1
  BY <1>3, <1>7
<1>9. \A i \in 1..(m + n) : i # 1 => i - 1 \in 1..(m + n - 1) /\ (i - 1) + 1 = i
  BY <1>3, <1>7
<1>10. Distinct(pending)'
  <2> SUFFICES ASSUME NEW i \in 1..(m + n - 1), NEW j \in 1..(m + n - 1),
                      pending'[i].run = pending'[j].run
               PROVE  i = j
    BY <1>7 DEF Distinct
  <2>1. i + 1 = j + 1
    BY <1>5, <1>7, <1>8
  <2> QED BY <1>7, <2>1
<1>11. PendingRuns' = (PendingRuns \cup ExpiredRuns) \ {r}
  <2>1. 1 \in 1..(m + n)
    BY <1>7
  <2>2. ASSUME NEW x \in PendingRuns' PROVE x \in (PendingRuns \cup ExpiredRuns) \ {r}
    <3>1. PICK i \in 1..(m + n - 1) : x = pool[i + 1].run
      BY <1>7, <2>2 DEF PendingRuns
    <3> QED BY <1>5, <1>6, <1>7, <1>8, <2>1, <3>1
  <2>3. ASSUME NEW x \in (PendingRuns \cup ExpiredRuns) \ {r} PROVE x \in PendingRuns'
    <3>1. PICK i \in 1..(m + n) : x = pool[i].run
      BY <1>6, <2>3
    <3>2. i # 1
      BY <1>7, <3>1
    <3>3. x = pending'[i - 1].run /\ i - 1 \in DOMAIN pending'
      BY <1>7, <1>9, <3>1, <3>2
    <3> QED BY <3>3 DEF PendingRuns
  <2> QED BY <2>2, <2>3
<1>12. r \in PendingRuns \cup ExpiredRuns
  <2>1. 1 \in 1..(m + n)
    BY <1>7
  <2> QED BY <1>6, <1>7, <2>1
<1>13. r \notin DOMAIN leased \ ExpiredRuns
  BY <1>12 DEF OnePlace
<1> DEFINE grant == [holder |-> h, left |-> TTL, attempts |-> Head(Pool(order)).attempts]
<1>14. leased' = With(Without(leased, ExpiredRuns), r, grant)
  BY <1>1 DEF pool
<1>15. grant.holder = h /\ grant.left = TTL
  OBVIOUS
<1>16. claim' = With(claim, h, [run |-> r, left |-> TTL])
  BY <1>1 DEF pool
<1> HIDE DEF r, grant
<1>17. /\ DOMAIN leased' = (DOMAIN leased \ ExpiredRuns) \cup {r}
       /\ leased'[r] = grant
       /\ \A x \in DOMAIN leased \ ExpiredRuns : x # r /\ leased'[x] = leased[x]
  BY <1>13, <1>14 DEF With, Without
<1> QED BY <1>10, <1>11, <1>12, <1>15, <1>16, <1>17

\* A successful Release ends the lease, for good or back to the tail.
LEMMA ReleaseEffect ==
  ASSUME TypeOK, OnePlace, NEW h \in Holders, NEW fail \in BOOLEAN, Release(h, fail)
  PROVE  \/ UNCHANGED <<pending, leased, outstanding>>
         \/ \E r \in DOMAIN leased :
              /\ Distinct(pending)'
              /\ HoldsLease(h, r)
              /\ leased' = Without(leased, {r})
              /\ \/ pending' = pending /\ outstanding' = outstanding \ {r}
                 \/ PendingRuns' = PendingRuns \cup {r} /\ outstanding' = outstanding
<1> DEFINE r == claim[h].run
<1>1. CASE ~HoldsLease(h, r)
  BY <1>1 DEF Release
<1>2. CASE HoldsLease(h, r)
  <2>1. r \in DOMAIN leased /\ leased' = Without(leased, {r})
    BY <1>2 DEF Release, HoldsLease
  <2>2. CASE ~fail
    BY <1>2, <2>1, <2>2 DEF Release, OnePlace, PendingRuns
  <2>3. CASE fail
    <3> DEFINE e == Requeued(r, Bump(leased[r].attempts))
               m == Len(pending)
    <3>1. pending' = Append(pending, e) /\ outstanding' = outstanding
      BY <1>2, <2>3 DEF Release
    <3>2. e \in Entry /\ e.run = r
      <4>1. leased[r] \in Lease /\ r \in Runs
        BY <2>1 DEF TypeOK
      <4>2. leased[r].attempts \in 0..MaxAttempts
        BY <4>1 DEF Lease
      <4> QED BY <4>1, <4>2, RequeuedType DEF Requeued
    <3> HIDE DEF e
    <3>3. /\ m \in Nat /\ DOMAIN pending = 1..m /\ DOMAIN pending' = 1..(m + 1)
          /\ \A i \in 1..m : pending'[i] = pending[i]
          /\ pending'[m + 1] = e
      BY <3>1, <3>2 DEF TypeOK
    <3> HIDE DEF m, r
    <3>4. \A i \in 1..(m + 1) : i = m + 1 \/ i \in 1..m
      BY <3>3
    <3>5. m + 1 \in 1..(m + 1) /\ \A i \in 1..m : i \in 1..(m + 1)
      BY <3>3
    <3>6. r \notin PendingRuns
      BY <2>1 DEF OnePlace
    <3>7. Distinct(pending)'
      BY <3>2, <3>3, <3>4, <3>6 DEF OnePlace, Distinct, PendingRuns
    <3>8. PendingRuns' = PendingRuns \cup {r}
      BY <3>2, <3>3, <3>4, <3>5 DEF PendingRuns
    <3> QED BY <1>2, <2>1, <3>1, <3>7, <3>8 DEF r
  <2> QED BY <2>2, <2>3
<1> QED BY <1>1, <1>2

(***************************************************************************)
(* Every accepted run is in exactly one place                              *)
(***************************************************************************)
LEMMA OnePlaceStep == TypeOK /\ OnePlace /\ [Next]_vars => OnePlace'
<1> SUFFICES ASSUME TypeOK, OnePlace, [Next]_vars PROVE OnePlace'
  OBVIOUS
<1>1. ASSUME NEW r \in Runs, NEW p \in Priorities, Enqueue(r, p) PROVE OnePlace'
  BY <1>1, EnqueueEffect DEF Enqueue, OnePlace
<1>2. ASSUME NEW h \in Holders, LeaseNext(h) PROVE OnePlace'
  <2>1. PICK r \in PendingRuns \cup ExpiredRuns :
           /\ Distinct(pending)'
           /\ PendingRuns' = (PendingRuns \cup ExpiredRuns) \ {r}
           /\ DOMAIN leased' = (DOMAIN leased \ ExpiredRuns) \cup {r}
    BY <1>2, LeaseEffect
  <2>2. ExpiredRuns \subseteq DOMAIN leased /\ outstanding' = outstanding
    BY <1>2 DEF ExpiredRuns, LeaseNext
  <2> QED BY <2>1, <2>2 DEF OnePlace
<1>3. ASSUME NEW h \in Holders, Renew(h) PROVE OnePlace'
  BY <1>3 DEF Renew, OnePlace, PendingRuns
<1>4. ASSUME NEW h \in Holders, Crash(h) PROVE OnePlace'
  BY <1>4 DEF Crash, OnePlace, PendingRuns
<1>5. ASSUME NEW h \in Holders, NEW fail \in BOOLEAN, Release(h, fail) PROVE OnePlace'
  <2>1. CASE UNCHANGED <<pending, leased, outstanding>>
    BY <2>1 DEF OnePlace, PendingRuns
  <2>2. CASE \E r \in DOMAIN leased :
              /\ Distinct(pending)'
              /\ leased' = Without(leased, {r})
              /\ \/ pending' = pending /\ outstanding' = outstanding \ {r}
                 \/ PendingRuns' = PendingRuns \cup {r} /\ outstanding' = outstanding
    BY <2>2 DEF OnePlace, PendingRuns, Without
  <2> QED BY <1>5, <2>1, <2>2, ReleaseEffect
<1>6. ASSUME Tick PROVE OnePlace'
  BY <1>6 DEF Tick, OnePlace, PendingRuns
<1>7. CASE UNCHANGED vars
  BY <1>7 DEF vars, OnePlace, PendingRuns
<1> QED BY <1>1, <1>2, <1>3, <1>4, <1>5, <1>6, <1>7 DEF Next

\* No accepted run is ever lost or duplicated by the queue.
THEOREM NoRunLost == Spec => []OnePlace
<1>1. Init => OnePlace
  BY DEF Init, OnePlace, Distinct, PendingRuns
<1> QED BY <1>1, OnePlaceStep, TypeCorrect, PTL DEF Spec

(***************************************************************************)
(* Leases exclude                                                          *)
(***************************************************************************)
LEMMA GrantStep ==
  TypeOK /\ OnePlace /\ GrantHonoured /\ [Next]_vars => GrantHonoured'
<1> SUFFICES ASSUME TypeOK, OnePlace, GrantHonoured, [Next]_vars,
                    NEW g \in DOMAIN claim', claim'[g].left >= 0
             PROVE  /\ HoldsLease(g, claim[g].run)'
                    /\ leased'[claim'[g].run].left >= claim'[g].left
  BY DEF GrantHonoured
<1> USE QueueAssumption
<1> DEFINE Goal == /\ HoldsLease(g, claim[g].run)'
                   /\ leased'[claim'[g].run].left >= claim'[g].left
<1>1. ASSUME NEW r \in Runs, NEW p \in Priorities, Enqueue(r, p) PROVE Goal
  BY <1>1 DEF Enqueue, GrantHonoured, HoldsLease
<1>2. ASSUME NEW h \in Holders, LeaseNext(h) PROVE Goal
  <2>1. PICK r \in PendingRuns \cup ExpiredRuns :
           /\ DOMAIN leased' = (DOMAIN leased \ ExpiredRuns) \cup {r}
           /\ leased'[r].holder = h /\ leased'[r].left = TTL
           /\ \A x \in DOMAIN leased \ ExpiredRuns : x # r /\ leased'[x] = leased[x]
           /\ claim' = With(claim, h, [run |-> r, left |-> TTL])
    BY <1>2, LeaseEffect
  <2>2. CASE g = h
    BY <2>1, <2>2 DEF With, HoldsLease
  <2>3. CASE g # h
    <3>1. g \in DOMAIN claim /\ claim'[g] = claim[g]
      BY <2>1, <2>3 DEF With
    <3>2. HoldsLease(g, claim[g].run) /\ leased[claim[g].run].left >= claim[g].left
      BY <3>1 DEF GrantHonoured
    <3>3. leased[claim[g].run] \in Lease /\ claim[g] \in Claim
      BY <3>1, <3>2 DEF HoldsLease, TypeOK
    <3>4. claim[g].run \notin ExpiredRuns
      BY <3>1, <3>2, <3>3 DEF ExpiredRuns, Expired, Lease, Claim, Left
    <3> QED BY <2>1, <3>1, <3>2, <3>4 DEF HoldsLease
  <2> QED BY <2>2, <2>3
<1>3. ASSUME NEW h \in Holders, Renew(h) PROVE Goal
  <2> DEFINE r == claim[h].run
  <2>1. /\ h \in DOMAIN claim /\ HoldsLease(h, r)
        /\ leased' = [leased EXCEPT ![r].left = TTL]
        /\ claim' = [claim EXCEPT ![h].left = TTL]
    BY <1>3 DEF Renew
  <2>2. leased[r] \in Lease /\ claim[h] \in Claim
    BY <2>1 DEF HoldsLease, TypeOK
  <2>3. /\ g \in DOMAIN claim
        /\ claim'[g].run = claim[g].run
        /\ g # h => claim'[g] = claim[g]
        /\ g = h => claim'[g].left = TTL
    BY <2>1, <2>2 DEF TypeOK, Claim
  <2>4. /\ DOMAIN leased' = DOMAIN leased
        /\ \A x \in DOMAIN leased : leased'[x].holder = leased[x].holder
        /\ leased'[r].left = TTL
        /\ \A x \in DOMAIN leased : x # r => leased'[x] = leased[x]
    BY <2>1, <2>2 DEF TypeOK, Lease, HoldsLease
  <2> HIDE DEF r
  <2>5. CASE g = h
    BY <2>1, <2>3, <2>4, <2>5 DEF HoldsLease, r
  <2>6. CASE g # h
    <3>1. HoldsLease(g, claim[g].run) /\ leased[claim[g].run].left >= claim[g].left
      BY <2>3, <2>6 DEF GrantHonoured
    <3>2. claim[g].run # r
      BY <2>1, <2>6, <3>1 DEF HoldsLease
    <3> QED BY <2>3, <2>4, <2>6, <3>1, <3>2 DEF HoldsLease
  <2> QED BY <2>5, <2>6
<1>4. ASSUME NEW h \in Holders, Crash(h) PROVE Goal
  BY <1>4 DEF Crash, Without, GrantHonoured, HoldsLease
<1>5. ASSUME NEW h \in Holders, NEW fail \in BOOLEAN, Release(h, fail) PROVE Goal
  <2>1. g \in DOMAIN claim /\ g # h /\ claim'[g] = claim[g]
    BY <1>5 DEF Release, Without
  <2>2. HoldsLease(g, claim[g].run) /\ leased[claim[g].run].left >= claim[g].left
    BY <2>1 DEF GrantHonoured
  <2>3. \/ leased' = leased
        \/ leased' = Without(leased, {claim[h].run}) /\ HoldsLease(h, claim[h].run)
    BY <1>5 DEF Release
  <2> QED BY <2>1, <2>2, <2>3 DEF HoldsLease, Without
<1>6. ASSUME Tick PROVE Goal
  <2>1. g \in DOMAIN claim /\ claim'[g] = [claim[g] EXCEPT !.left = Elapse(@)]
    BY <1>6 DEF Tick
  <2>2. claim[g] \in Claim
    BY <2>1 DEF TypeOK
  <2>3. claim[g].left \in Int /\ claim'[g].left = claim[g].left - 1 /\ claim[g].left >= 1
    BY <2>1, <2>2 DEF Claim, Left, Elapse
  <2>4. claim'[g].run = claim[g].run
    BY <2>1, <2>2 DEF Claim
  <2> DEFINE r == claim[g].run
  <2>5. HoldsLease(g, r) /\ leased[r].left >= claim[g].left
    BY <2>1, <2>3 DEF GrantHonoured
  <2>6. leased[r] \in Lease
    BY <2>5 DEF HoldsLease, TypeOK
  <2>7. DOMAIN leased' = DOMAIN leased /\ leased'[r] = [leased[r] EXCEPT !.left = Elapse(@)]
    BY <1>6, <2>5 DEF Tick, HoldsLease
  <2>8. leased'[r].holder = leased[r].holder /\ leased'[r].left = leased[r].left - 1
    BY <2>3, <2>5, <2>6, <2>7 DEF Lease, Left, Elapse
  <2>9. leased[r].left \in Int
    BY <2>6 DEF Lease, Left
  <2> QED BY <2>3, <2>4, <2>5, <2>7, <2>8, <2>9 DEF HoldsLease
<1>7. CASE UNCHANGED vars
  BY <1>7 DEF vars, GrantHonoured, HoldsLease
<1> QED BY <1>1, <1>2, <1>3, <1>4, <1>5, <1>6, <1>7 DEF Next

\* Lease never takes a run away before the time granted to its worker is over.
THEOREM GrantsHonoured == Spec => []GrantHonoured
<1>1. Init => GrantHonoured
  BY DEF Init, GrantHonoured
<1> QED BY <1>1, GrantStep, TypeCorrect, NoRunLost, PTL DEF Spec

\* No two workers hold an unexpired grant for the same run.
THEOREM LeasesExclude == Spec => []LeaseExclusion
<1>1. GrantHonoured => LeaseExclusion
  BY DEF GrantHonoured, LeaseExclusion, HoldsLease
<1> QED BY <1>1, GrantsHonoured, PTL

(***************************************************************************)
(* The attempts count                                                      *)
(***************************************************************************)
\* In a queue without repetitions the entry of a run is the one it has.
LEMMA ChosenEntry ==
  ASSUME NEW p, Distinct(p), NEW i \in DOMAIN p, NEW r, p[i].run = r
  PROVE  (CHOOSE j \in DOMAIN p : p[j].run = r) = i
<1> DEFINE c == CHOOSE j \in DOMAIN p : p[j].run = r
<1>1. c \in DOMAIN p /\ p[c].run = r
  OBVIOUS
<1> HIDE DEF c
<1>2. c = i
  BY <1>1 DEF Distinct
<1> QED BY <1>2 DEF c

\* The count on record is the one in the run's lease or in its entry.
Counted(p, l, r, n) ==
  \/ r \in DOMAIN l /\ n = l[r].attempts
  \/ \E i \in DOMAIN p : p[i].run = r /\ n = p[i].attempts

LEMMA AttemptsAre ==
  ASSUME OnePlace, NEW r, NEW n, Counted(pending, leased, r, n)
  PROVE  Attempts(r) = n
<1>1. CASE r \in DOMAIN leased
  BY <1>1 DEF Attempts, Counted, OnePlace, PendingRuns
<1>2. CASE r \notin DOMAIN leased
  <2>1. PICK i \in DOMAIN pending : pending[i].run = r /\ n = pending[i].attempts
    BY <1>2 DEF Counted
  <2>2. (CHOOSE j \in DOMAIN pending : pending[j].run = r) = i
    BY <2>1, ChosenEntry DEF OnePlace
  <2> QED BY <1>2, <2>1, <2>2 DEF Attempts
<1> QED BY <1>1, <1>2

LEMMA AttemptsAreNext ==
  ASSUME OnePlace', NEW CONSTANT r, NEW n, Counted(pending', leased', r, n)
  PROVE  Attempts(r)' = n
<1>1. CASE r \in DOMAIN leased'
  BY <1>1 DEF Attempts, Counted, OnePlace, PendingRuns
<1>2. CASE r \notin DOMAIN leased'
  <2>1. PICK i \in DOMAIN pending' : pending'[i].run = r /\ n = pending'[i].attempts
    BY <1>2 DEF Counted
  <2>2. Distinct(pending')
    BY DEF OnePlace, Distinct
  <2>3. (CHOOSE j \in DOMAIN pending' : pending'[j].run = r) = i
    BY <2>1, <2>2, ChosenEntry
  <2> QED BY <1>2, <2>1, <2>3 DEF Attempts
<1> QED BY <1>1, <1>2

LEMMA CountsAreNumbers ==
  ASSUME TypeOK
  PROVE  /\ \A i \in DOMAIN pending : pending[i] \in Entry /\ pending[i].attempts \in Nat
         /\ \A y \in DOMAIN leased : /\ leased[y] \in Lease /\ leased[y].attempts \in 0..MaxAttempts
                                     /\ leased[y].attempts \in Nat
<1> USE QueueAssumption
<1>1. \A e \in Entry : e.attempts \in Nat
  BY DEF Entry
<1>2. \A l \in Lease : l.attempts \in 0..MaxAttempts /\ l.attempts \in Nat
  BY DEF Lease
<1>3. \A i \in DOMAIN pending : pending[i] \in Entry
  BY DEF TypeOK
<1>4. \A y \in DOMAIN leased : leased[y] \in Lease
  BY DEF TypeOK
<1> QED BY <1>1, <1>2, <1>3, <1>4

LEMMA EnqueueCounts ==
  ASSUME TypeOK, OnePlace, NEW r \in Runs, NEW p \in Priorities, Enqueue(r, p), NEW x \in outstanding
  PROVE  \E n \in Nat : Counted(pending, leased, x, n) /\ Counted(pending', leased', x, n)
<1> USE QueueAssumption
<1> DEFINE e == [run |-> r, priority |-> p, attempts |-> 0]
           s == Append(pending, e)
           k == Len(s)
<1>1. PICK order \in Bijections(k) : pending' = [i \in 1..k |-> s[order[i]]]
  BY DEF Enqueue
<1>2. leased' = leased
  BY DEF Enqueue
<1>3. /\ k \in Nat /\ DOMAIN pending = 1..Len(pending)
      /\ \A i \in DOMAIN pending : i \in 1..k /\ s[i] = pending[i] /\ pending[i].attempts \in Nat
  <2>1. pending \in Seq(Entry) /\ e \in Entry
    BY DEF TypeOK, Entry
  <2> HIDE DEF e
  <2>2. /\ k \in Nat /\ DOMAIN pending = 1..Len(pending)
        /\ \A i \in DOMAIN pending : i \in 1..k /\ s[i] = pending[i] /\ pending[i] \in Entry
    BY <2>1
  <2> QED BY <2>2 DEF Entry
<1>4. CASE x \in DOMAIN leased
  <2>1. leased[x].attempts \in Nat
    BY <1>4 DEF TypeOK, Lease
  <2> QED BY <1>2, <1>4, <2>1 DEF Counted
<1>5. CASE x \notin DOMAIN leased
  <2>1. PICK i \in DOMAIN pending : pending[i].run = x
    BY <1>5 DEF OnePlace, PendingRuns
  <2>2. PICK j \in 1..k : order[j] = i
    BY <1>3 DEF Bijections
  <2> HIDE DEF s, k
  <2>3. j \in DOMAIN pending' /\ pending'[j] = pending[i]
    BY <1>1, <1>3, <2>2
  <2> QED BY <1>3, <2>1, <2>3 DEF Counted
<1> QED BY <1>4, <1>5

LEMMA Joined ==
  ASSUME NEW S, NEW p \in Seq(S), NEW q \in Seq(S)
  PROVE  /\ Len(p) \in Nat /\ Len(q) \in Nat /\ Len(p \o q) = Len(p) + Len(q)
         /\ \A i \in 1..Len(p) : (p \o q)[i] = p[i]
         /\ \A i \in 1..Len(q) : Len(p) + i \in 1..Len(p) + Len(q) /\ (p \o q)[Len(p) + i] = q[i]
<1>1. ASSUME NEW i \in 1..Len(q)
      PROVE  Len(p) + i \in 1..Len(p) + Len(q) /\ (p \o q)[Len(p) + i] = q[i]
  <2>1. Len(p) + i \in 1..Len(p) + Len(q) /\ ~(Len(p) + i <= Len(p)) /\ (Len(p) + i) - Len(p) = i
    OBVIOUS
  <2> QED BY <2>1
<1> QED BY <1>1

LEMMA LeaseCounts ==
  ASSUME TypeOK, OnePlace, NEW h \in Holders, LeaseNext(h), NEW x \in outstanding
  PROVE  \E n \in Nat : Counted(pending, leased, x, n) /\ Counted(pending', leased', x, n)
<1>1. PICK order \in VisitOrders(ExpiredRuns) :
         /\ Pool(order) # <<>>
         /\ pending' = Tail(Pool(order))
         /\ leased' = With(Without(leased, ExpiredRuns), Head(Pool(order)).run,
                           [holder |-> h, left |-> TTL, attempts |-> Head(Pool(order)).attempts])
  BY DEF LeaseNext
<1>2. PICK k \in 0..Cardinality(ExpiredRuns) :
         /\ order \in [1..k -> ExpiredRuns]
         /\ \A y \in ExpiredRuns : \E i \in 1..k : order[i] = y
  BY DEF VisitOrders
<1> DEFINE pool == Pool(order)
           m == Len(pending)
<1>3. k \in Nat /\ m \in Nat /\ DOMAIN pending = 1..m /\ pool \in Seq(Entry)
  BY PoolType DEF TypeOK
<1>5. /\ Len(pool) = m + k /\ \A i \in 1..m : pool[i] = pending[i]
      /\ \A i \in 1..k : /\ m + i \in 1..m + k /\ pool[m + i].run = order[i]
                         /\ pool[m + i].attempts = leased[order[i]].attempts
  <2> DEFINE back == [i \in 1..k |-> Requeued(order[i], leased[order[i]].attempts)]
  <2>1. \A i \in 1..k : back[i] \in Entry
    BY <1>2, RequeuedType DEF TypeOK, ExpiredRuns, Lease
  <2>2. back \in Seq(Entry) /\ Len(back) = k
    BY <1>3, <2>1
  <2>3. pool = pending \o back /\ pending \in Seq(Entry)
    BY <1>2 DEF Pool, TypeOK
  <2>4. \A i \in 1..k : back[i].run = order[i] /\ back[i].attempts = leased[order[i]].attempts
    BY DEF Requeued
  <2> HIDE DEF back, pool, m
  <2>6. pending \in Seq(Entry) /\ back \in Seq(Entry)
    BY <2>2, <2>3
  <2>7. Len(pending \o back) = Len(pending) + Len(back)
    BY <2>6
  <2>8. \A i \in 1..Len(pending) : (pending \o back)[i] = pending[i]
    BY <2>6, Joined
  <2>9. \A i \in 1..Len(back) : /\ Len(pending) + i \in 1..Len(pending) + Len(back)
                               /\ (pending \o back)[Len(pending) + i] = back[i]
    BY <2>6, Joined
  <2>5. /\ Len(pool) = Len(pending) + k /\ \A i \in 1..Len(pending) : pool[i] = pending[i]
        /\ \A i \in 1..k : /\ Len(pending) + i \in 1..Len(pending) + k
                           /\ pool[Len(pending) + i] = back[i]
    BY <2>2, <2>3, <2>7, <2>8, <2>9
  <2> QED BY <2>4, <2>5 DEF m
<1> HIDE DEF pool
\* What is in the pool has its count in the queue afterwards.
<1>6. ASSUME NEW j \in 1..m + k, pool[j].run = x
      PROVE  Counted(pending', leased', x, pool[j].attempts) /\ pool[j].attempts \in Nat
  <2>1. pool[j].attempts \in Nat
    <3>1. pool[j] \in Entry
      BY <1>3, <1>5
    <3> QED BY <3>1 DEF Entry
  <2>2. CASE j = 1
    <3>1. leased' = With(Without(leased, ExpiredRuns), x, [holder |-> h, left |-> TTL, attempts |-> pool[1].attempts])
      <4>1. Head(pool) = pool[1]
        BY <1>3, <1>5, <1>6
      <4> QED BY <1>1, <1>6, <2>2, <4>1 DEF pool
    <3>2. x \in DOMAIN leased' /\ leased'[x].attempts = pool[1].attempts
      BY <3>1 DEF With
    <3> QED BY <2>1, <2>2, <3>2 DEF Counted
  <2>3. CASE j # 1
    <3>1. j - 1 \in 1..(m + k) - 1 /\ (j - 1) + 1 = j
      BY <1>3, <2>3
    <3>2. pending' = Tail(pool) /\ pool # <<>>
      BY <1>1 DEF pool
    <3>3. DOMAIN pending' = 1..(m + k) - 1 /\ \A i \in 1..(m + k) - 1 : pending'[i] = pool[i + 1]
      <4> HIDE DEF m
      <4> QED BY <1>3, <1>5, <3>2
    <3>4. j - 1 \in DOMAIN pending' /\ pending'[j - 1] = pool[j]
      BY <3>1, <3>3
    <3> QED BY <1>6, <2>1, <3>4 DEF Counted
  <2> QED BY <2>2, <2>3
<1>7. CASE x \in PendingRuns
  <2>1. PICK i \in 1..m : pending[i].run = x
    BY <1>3, <1>7 DEF PendingRuns
  <2>2. i \in 1..m + k /\ pool[i] = pending[i]
    BY <1>3, <1>5
  <2>3. Counted(pending, leased, x, pool[i].attempts)
    BY <1>3, <2>1, <2>2 DEF Counted
  <2> QED BY <1>6, <2>1, <2>2, <2>3
<1>8. CASE x \in ExpiredRuns
  <2>1. PICK i \in 1..k : order[i] = x
    BY <1>2, <1>8
  <2>2. pool[m + i].run = x /\ pool[m + i].attempts = leased[x].attempts /\ m + i \in 1..m + k
    BY <1>5, <2>1
  <2>3. Counted(pending, leased, x, pool[m + i].attempts)
    BY <1>8, <2>2 DEF Counted, ExpiredRuns
  <2> QED BY <1>6, <2>2, <2>3
<1>9. CASE x \in DOMAIN leased \ ExpiredRuns
  <2>1. x \in DOMAIN leased' /\ leased'[x] = leased[x]
    BY <1>9, LeaseEffect
  <2>2. leased[x].attempts \in Nat
    BY <1>9 DEF TypeOK, Lease
  <2> QED BY <1>9, <2>1, <2>2 DEF Counted
<1> QED BY <1>7, <1>8, <1>9 DEF OnePlace

LEMMA ReleaseCounts ==
  ASSUME TypeOK, OnePlace, NEW h \in Holders, NEW fail \in BOOLEAN, Release(h, fail),
         NEW x \in outstanding \cap outstanding'
  PROVE  \E n, v \in Nat : Counted(pending, leased, x, n) /\ Counted(pending', leased', x, v) /\ v >= n
<1> USE QueueAssumption
<1> DEFINE r == claim[h].run
           m == Len(pending)
<1>1. /\ \A i \in DOMAIN pending : pending[i].attempts \in Nat
      /\ \A y \in DOMAIN leased : leased[y] \in Lease /\ leased[y].attempts \in 0..MaxAttempts
  BY CountsAreNumbers
<1>2. CASE x \in PendingRuns
  <2>1. PICK i \in DOMAIN pending : pending[i].run = x
    BY <1>2 DEF PendingRuns
  <2>2. i \in DOMAIN pending' /\ pending'[i] = pending[i]
    BY <2>1 DEF Release, TypeOK
  <2> QED BY <1>1, <2>1, <2>2 DEF Counted
<1>3. CASE x \in DOMAIN leased /\ (x # r \/ ~HoldsLease(h, r))
  <2>1. x \in DOMAIN leased' /\ leased'[x] = leased[x]
    BY <1>3 DEF Release, Without
  <2> QED BY <1>1, <1>3, <2>1 DEF Counted
<1>4. CASE x \in DOMAIN leased /\ x = r /\ HoldsLease(h, r)
  <2> DEFINE n == leased[x].attempts
             e == Requeued(x, Bump(n))
  <2>1. pending' = Append(pending, e)
    BY <1>4 DEF Release
  <2>2. pending \in Seq(Entry) /\ n \in 0..MaxAttempts
    BY <1>1, <1>4 DEF TypeOK
  <2>3. Bump(n) \in Nat /\ Bump(n) >= n
    BY <2>2 DEF Bump
  <2>4. e.run = x /\ e.attempts = Bump(n)
    BY DEF Requeued
  <2> HIDE DEF e, n
  <2>5. m + 1 \in DOMAIN pending' /\ pending'[m + 1] = e
    BY <2>1, <2>2
  <2>6. Counted(pending', leased', x, Bump(n))
    BY <2>4, <2>5 DEF Counted
  <2>7. Counted(pending, leased, x, n)
    BY <1>4 DEF Counted, n
  <2> QED BY <2>2, <2>3, <2>6, <2>7
<1> QED BY <1>2, <1>3, <1>4 DEF OnePlace

\* Renew and Tick change what is left of a lease, nothing else.
LEMMA LeftCounts ==
  ASSUME TypeOK, OnePlace, NEW x \in outstanding,
         Tick \/ (\E h \in Holders : Renew(h) \/ Crash(h)) \/ UNCHANGED vars
  PROVE  \E n \in Nat : Counted(pending, leased, x, n) /\ Counted(pending', leased', x, n)
<1>1. pending' = pending /\ DOMAIN leased' = DOMAIN leased
  BY DEF Tick, Renew, Crash, vars
<1>2. \A y \in DOMAIN leased : leased'[y].attempts = leased[y].attempts /\ leased[y].attempts \in Nat
  <2> SUFFICES ASSUME NEW y \in DOMAIN leased PROVE leased'[y].attempts = leased[y].attempts
    BY CountsAreNumbers
  <2>1. leased[y] \in Lease /\ "attempts" \in DOMAIN leased[y]
    BY CountsAreNumbers DEF Lease
  <2>2. \/ leased' = leased
        \/ \E r \in DOMAIN leased : leased' = [leased EXCEPT ![r] = [leased[r] EXCEPT !.left = TTL]]
        \/ leased'[y] = [leased[y] EXCEPT !.left = Elapse(@)]
    BY DEF Tick, Renew, Crash, vars, HoldsLease
  <2> QED BY <2>1, <2>2
<1>3. \A i \in DOMAIN pending : pending[i].attempts \in Nat
  BY CountsAreNumbers
<1> QED BY <1>1, <1>2, <1>3 DEF Counted, OnePlace, PendingRuns

\* The attempts of an outstanding run never go down: Lease, its reclaim loop
\* and a failed Release of the queue carry the count along.
THEOREM AttemptsNeverFall == Spec => AttemptsKept
<1>1. TypeOK /\ OnePlace /\ OnePlace' /\ [Next]_vars
        => [\A r \in outstanding \cap outstanding' : Attempts(r)' >= Attempts(r)]_vars
  <2> SUFFICES ASSUME TypeOK, OnePlace, OnePlace', [Next]_vars, NEW CONSTANT r, r \in outstanding \cap outstanding'
               PROVE  Attempts(r)' >= Attempts(r)
    OBVIOUS
  <2>1. \E n, v \in Nat : Counted(pending, leased, r, n) /\ Counted(pending', leased', r, v) /\ v >= n
    <3>1. ASSUME \E n \in Nat : Counted(pending, leased, r, n) /\ Counted(pending', leased', r, n)
          PROVE  \E n, v \in Nat : Counted(pending, leased, r, n) /\ Counted(pending', leased', r, v) /\ v >= n
      BY <3>1
    <3> QED BY <3>1, EnqueueCounts, LeaseCounts, ReleaseCounts, LeftCounts DEF Next
  <2>2. PICK n, v \in Nat : Counted(pending, leased, r, n) /\ Counted(pending', leased', r, v) /\ v >= n
    BY <2>1
  <2>3. Attempts(r) = n /\ Attempts(r)' = v
    BY <2>2, AttemptsAre, AttemptsAreNext
  <2> QED BY <2>2, <2>3
<1> QED BY <1>1, TypeCorrect, NoRunLost, PTL DEF Spec, AttemptsKept

(***************************************************************************)
(* Refinement                                                              *)
(***************************************************************************)
\* Every call of the queue is one step of RunBoard, or none.
LEMMA BoardStep ==
  TypeOK /\ OnePlace /\ [Next]_vars => [Board!Next]_<<PendingRuns, DOMAIN leased>>
<1> SUFFICES ASSUME TypeOK, OnePlace, [Next]_vars
             PROVE  Board!Next \/ UNCHANGED <<PendingRuns, DOMAIN leased>>
  OBVIOUS
<1>1. ASSUME NEW r \in Runs, NEW p \in Priorities, Enqueue(r, p) PROVE Board!Accept(r)
  BY <1>1, EnqueueEffect DEF Enqueue, Board!Accept
<1>2. ASSUME NEW h \in Holders, LeaseNext(h)
      PROVE  \E lost \in SUBSET DOMAIN leased, r \in Runs : Board!Grant(lost, r)
  <2>1. PICK r \in PendingRuns \cup ExpiredRuns :
           /\ PendingRuns' = (PendingRuns \cup ExpiredRuns) \ {r}
           /\ DOMAIN leased' = (DOMAIN leased \ ExpiredRuns) \cup {r}
    BY <1>2, LeaseEffect
  <2>2. ExpiredRuns \in SUBSET DOMAIN leased /\ PendingRuns \subseteq Runs
    BY DEF ExpiredRuns, OnePlace, TypeOK
  <2>3. r \in Runs
    BY <2>1, <2>2 DEF TypeOK
  <2>4. Board!Grant(ExpiredRuns, r)
    BY <2>1 DEF Board!Grant
  <2> QED BY <2>2, <2>3, <2>4
<1>3. ASSUME NEW h \in Holders, Renew(h) PROVE UNCHANGED <<PendingRuns, DOMAIN leased>>
  BY <1>3 DEF Renew, PendingRuns
<1>4. ASSUME NEW h \in Holders, Crash(h) PROVE UNCHANGED <<PendingRuns, DOMAIN leased>>
  BY <1>4 DEF Crash, PendingRuns
<1>5. ASSUME NEW h \in Holders, NEW fail \in BOOLEAN, Release(h, fail)
      PROVE  \/ UNCHANGED <<PendingRuns, DOMAIN leased>>
             \/ \E r \in Runs : Board!Finish(r) \/ Board!GiveBack(r)
  <2>1. CASE UNCHANGED <<pending, leased, outstanding>>
    BY <2>1 DEF PendingRuns
  <2>2. CASE \E r \in DOMAIN leased :
              /\ leased' = Without(leased, {r})
              /\ \/ pending' = pending
                 \/ PendingRuns' = PendingRuns \cup {r}
    <3>1. PICK r \in DOMAIN leased :
              /\ leased' = Without(leased, {r})
              /\ PendingRuns' = PendingRuns \/ PendingRuns' = PendingRuns \cup {r}
      BY <2>2 DEF PendingRuns
    <3>2. DOMAIN leased' = DOMAIN leased \ {r} /\ r \in Runs
      BY <3>1 DEF Without, TypeOK
    <3> QED BY <3>1, <3>2 DEF Board!Finish, Board!GiveBack
  <2> QED BY <1>5, <2>1, <2>2, ReleaseEffect
<1>6. ASSUME Tick PROVE UNCHANGED <<PendingRuns, DOMAIN leased>>
  BY <1>6 DEF Tick, PendingRuns
<1>7. CASE UNCHANGED vars
  BY <1>7 DEF vars, PendingRuns
<1> QED BY <1>1, <1>2, <1>3, <1>4, <1>5, <1>6, <1>7 DEF Next, Board!Next

\* MemoryQueue implements the promise of the Queue port.
THEOREM QueueImplementsBoard == Spec => ImplementsRunBoard
<1>1. Init => Board!Init
  BY DEF Init, Board!Init, PendingRuns
<1> QED BY <1>1, BoardStep, TypeCorrect, NoRunLost, PTL
     DEF Spec, ImplementsRunBoard, Board!Spec
=============================================================================
