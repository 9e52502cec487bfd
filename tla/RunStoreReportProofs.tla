------------------------ MODULE RunStoreReportProofs ------------------------
(***************************************************************************)
(* What is read out of stored runs (Reports) is the same on every backend, *)
(* for any number of runs and any sequence of calls: each report depends   *)
(* on the set of a run's steps and on the set of the listed runs, and not  *)
(* on the order in which a backend hands them out.                         *)
(***************************************************************************)
EXTENDS RunStoreRecordProofs

-----------------------------------------------------------------------------
(* The elements of a list at certain places.                               *)

Up(T) == {p \in T \X T : p[1] < p[2]}
At(seq, T) ==
  [k \in DOMAIN InOrder(T, Up(T)) |-> seq[InOrder(T, Up(T))[k]]]

LEMMA SameReportOrder ==
  ASSUME NEW rows, NEW R
  PROVE  Rep!InOrder(rows, R) = InOrder(rows, R)
<1> USE DEF Cardinality
<1> QED BY DEF InOrder, Rep!InOrder, Rep!Cardinality

\* The places in their order.
LEMMA Places ==
  ASSUME NEW n \in Nat, NEW T \in SUBSET (1..n)
  PROVE  LET m == Cardinality(T)
             o == InOrder(T, Up(T))
         IN  /\ IsFiniteSet(T) /\ m \in Nat /\ o \in [1..m -> T]
             /\ \A i \in T : \E k \in 1..m : o[k] = i
             /\ \A i, j \in 1..m : i < j => o[i] < o[j]
<1>1. IsFiniteSet(T)
  <2>1. IsFiniteSet(1..n)
    BY Z3, FS_Interval
  <2> QED BY Zenon, <2>1, FS_Subset
<1>2. \A x, y \in T : <<x, y>> \in Up(T) <=> x < y
  BY DEF Up
<1>3. IsOrder(Up(T), T)
  BY <1>2 DEF IsOrder
<1>4. Lists(InOrder(T, Up(T)), Cardinality(T), Up(T), T)
  BY <1>1, <1>3, InOrderLists
<1> HIDE DEF Up
<1> QED BY Zenon, <1>1, <1>2, <1>4 DEF Lists

LEMMA AtPlaces ==
  ASSUME NEW n \in Nat, NEW T \in SUBSET (1..n), NEW seq
  PROVE  LET m == Cardinality(T)
             o == InOrder(T, Up(T))
         IN  At(seq, T) = [k \in 1..m |-> seq[o[k]]] /\ Len(At(seq, T)) = m
<1>1. DOMAIN InOrder(T, Up(T)) = 1..Cardinality(T) /\ Cardinality(T) \in Nat
  BY Places
<1> QED BY <1>1 DEF At

\* All of the places.
LEMMA AtAll ==
  ASSUME NEW n \in Nat, NEW seq, seq = [i \in 1..n |-> seq[i]]
  PROVE  At(seq, 1..n) = seq
<1> DEFINE T == 1..n
           s == [i \in 1..n |-> i]
<1>1. \A x, y \in T : <<x, y>> \in Up(T) <=> x < y
  BY DEF Up
<1>2. IsOrder(Up(T), T) /\ Lists(s, n, Up(T), T)
  BY <1>1 DEF IsOrder, Lists
<1>3. InOrder(T, Up(T)) = s
  <2> HIDE DEF s, T
  <2> QED BY <1>2, ListedOnce
<1> QED BY <1>3 DEF At

\* One place, or none.
LEMMA AtOne ==
  ASSUME NEW seq, NEW i \in Nat
  PROVE  At(seq, {i}) = [k \in 1..1 |-> seq[i]] /\ At(seq, {}) = <<>>
<1>1. At(seq, {}) = <<>>
  <2>1. Cardinality({}) = 0 /\ DOMAIN InOrder({}, Up({})) = 1..0
    BY FS_EmptySet DEF InOrder
  <2> QED BY <2>1 DEF At
<1>2. At(seq, {i}) = [k \in 1..1 |-> seq[i]]
  <2> DEFINE T == {i}
             s == [k \in 1..1 |-> i]
  <2>1. Up(T) = {}
    BY DEF Up
  <2>2. IsOrder(Up(T), T) /\ Lists(s, 1, Up(T), T)
    BY <2>1 DEF IsOrder, Lists
  <2>3. InOrder(T, Up(T)) = s
    <3> HIDE DEF s, T
    <3> QED BY <2>2, ListedOnce
  <2> QED BY <2>3 DEF At
<1> QED BY <1>1, <1>2

-----------------------------------------------------------------------------
(* The reports of one run.                                                 *)

ChainPlaces(s) ==
  {p \in (DOMAIN s) \X (DOMAIN s) :
     \/ Rep!ChainBefore(s[p[1]], s[p[2]])
     \/ ~Rep!ChainBefore(s[p[2]], s[p[1]]) /\ p[1] < p[2]}
Decided(s, iter) ==
  {i \in DOMAIN s : s[i].iteration = iter /\ s[i].stage = "deciding" /\ s[i].ref # ""}
Decision(s, iter) ==
  IF At(s, Decided(s, iter)) = <<>> THEN None ELSE Last(At(s, Decided(s, iter))).ref

LEMMA ChainOf ==
  ASSUME NEW run
  PROVE  Rep!Reconstruct(run)
           = [k \in DOMAIN run.steps |-> run.steps[InOrder(DOMAIN run.steps, ChainPlaces(run.steps))[k]]]
<1> DEFINE s == run.steps
<1>1. Rep!Reconstruct(run) = [k \in DOMAIN s |-> s[Rep!InOrder(DOMAIN s, ChainPlaces(s))[k]]]
  BY DEF Rep!Reconstruct, Rep!Sorted, Rep!Ordered, ChainPlaces
<1> HIDE DEF s
<1> QED BY <1>1, SameReportOrder DEF s

LEMMA DecisionAt ==
  ASSUME NEW run, NEW iter
  PROVE  Rep!DecisionOf(run, iter) = Decision(run.steps, iter)
<1> DEFINE s == run.steps
           T == Decided(s, iter)
           o == Rep!InOrder(T, {p \in T \X T : p[1] < p[2]})
           d == [k \in DOMAIN o |-> s[o[k]]]
<1>1. Rep!DecisionOf(run, iter) = IF d = <<>> THEN None ELSE Rep!Last(d).ref
  BY DEF Rep!DecisionOf, Rep!Kept, Rep!Ordered, Rep!Earlier, Decided
<1> HIDE DEF s, T
<1>2. d = At(s, T)
  BY SameReportOrder DEF At, Up
<1>3. Rep!Last(d) = Last(d)
  BY DEF Rep!Last, Last
<1> QED BY Zenon, <1>1, <1>2, <1>3 DEF Decision, s, T

\* A run's steps as a list in which no stage of an iteration comes twice.
Steps(s, S) ==
  /\ s \in Seq(StepSet) /\ ToSet(s) = S /\ ~StageTwice(s)

LEMMA StepsHold ==
  ASSUME NEW S, NEW s, Steps(s, S)
  PROVE  /\ Len(s) \in Nat /\ DOMAIN s = 1..Len(s) /\ s \in [1..Len(s) -> S] /\ S \subseteq StepSet
         /\ \A x \in S : \E i \in 1..Len(s) : s[i] = x
         /\ \A i, j \in 1..Len(s) : Key(s[i]) = Key(s[j]) => i = j
<1>1. Len(s) \in Nat /\ DOMAIN s = 1..Len(s) /\ s \in [1..Len(s) -> StepSet]
  BY DEF Steps
<1>2. S = {s[i] : i \in 1..Len(s)}
  BY <1>1 DEF Steps, ToSet
<1>3. \A i, j \in 1..Len(s) : i < j => Key(s[i]) # Key(s[j])
  BY <1>1 DEF Steps, StageTwice
<1>4. \A i, j \in 1..Len(s) : Key(s[i]) = Key(s[j]) => i = j
  BY <1>1, <1>3
<1> QED BY <1>1, <1>2, <1>4

\* The canonical order of steps.
Chained(S) == {p \in S \X S : Rep!ChainBefore(p[1], p[2])}

LEMMA ChainOrders ==
  ASSUME NEW S, NEW s, Steps(s, S)
  PROVE  IsOrder(Chained(S), S)
<1> DEFINE place(x) == Rep!StagePlace(x.stage)
<1>1. \A x \in S : x.iteration \in Nat /\ x.stage \in LoopStage /\ place(x) \in Nat
  <2>1. \A x \in S : x.iteration \in Nat /\ x.stage \in LoopStage
    <3>1. S \subseteq StepSet
      BY StepsHold
    <3> QED BY Zenon, <3>1 DEF StepSet
  <2>2. \A g \in LoopStage : Rep!StagePlace(g) \in Nat
    BY DEF LoopStage, Rep!StagePlace, Rep!StageOrder
  <2> QED BY <2>1, <2>2
<1>2. \A g, h \in LoopStage : Rep!StagePlace(g) = Rep!StagePlace(h) => g = h
  BY DEF LoopStage, Rep!StagePlace, Rep!StageOrder
<1>3. \A x, y \in S : x.iteration = y.iteration /\ x.stage = y.stage => x = y
  BY StepsHold DEF Key
<1>4. \A x, y \in S : x.iteration = y.iteration /\ place(x) = place(y) => x = y
  BY <1>1, <1>2, <1>3
<1>5. \A x, y \in S : <<x, y>> \in Chained(S) <=>
        \/ x.iteration < y.iteration
        \/ x.iteration = y.iteration /\ place(x) < place(y)
  BY DEF Chained, Rep!ChainBefore
<1> HIDE DEF place
<1> QED BY <1>1, <1>4, <1>5 DEF IsOrder

\* The chain of a run's steps is the set of them in that order.
LEMMA ChainIs ==
  ASSUME NEW run, NEW S, Steps(run.steps, S)
  PROVE  Rep!Reconstruct(run) = InOrder(S, Chained(S))
<1> DEFINE s == run.steps
           n == Len(s)
           Q == ChainPlaces(s)
           R == Chained(S)
<1>1. /\ n \in Nat /\ DOMAIN s = 1..n /\ s \in [1..n -> S] /\ S \subseteq StepSet
      /\ \A x \in S : \E i \in 1..n : s[i] = x
      /\ \A i, j \in 1..n : Key(s[i]) = Key(s[j]) => i = j
  BY StepsHold
<1>2. IsOrder(R, S)
  BY ChainOrders
<1>3. Rep!Reconstruct(run) = [k \in 1..n |-> s[InOrder(1..n, Q)[k]]]
  BY Zenon, <1>1, ChainOf
<1> HIDE DEF s, n
<1>4. \A i, j \in 1..n : s[i] = s[j] => i = j
  BY <1>1
<1>5. \A x, y \in S : <<x, y>> \in R <=> Rep!ChainBefore(x, y)
  BY DEF Chained
<1>6. \A i, j \in 1..n : <<i, j>> \in Q <=>
         (Rep!ChainBefore(s[i], s[j]) \/ (~Rep!ChainBefore(s[j], s[i]) /\ i < j))
  <2>1. \A i, j : <<i, j>> \in ChainPlaces(s) <=>
          /\ i \in DOMAIN s /\ j \in DOMAIN s
          /\ \/ Rep!ChainBefore(s[i], s[j])
             \/ ~Rep!ChainBefore(s[j], s[i]) /\ i < j
    BY DEF ChainPlaces
  <2> QED BY Zenon, <1>1, <2>1
<1> HIDE DEF Q, R
<1>7. \A i, j \in 1..n : <<i, j>> \in Q <=> <<s[i], s[j]>> \in R
  <2> TAKE i, j \in 1..n
  <2>1. CASE i = j
    <3>1. <<s[i], s[i]>> \notin R
      BY <1>1, <1>2 DEF IsOrder
    <3> QED BY <1>1, <1>5, <1>6, <2>1, <3>1
  <2>2. CASE i # j
    <3>1. s[i] \in S /\ s[j] \in S /\ s[i] # s[j]
      BY <1>1, <1>4, <2>2
    <3>2. <<s[i], s[j]>> \in R \/ <<s[j], s[i]>> \in R
      BY <1>2, <3>1 DEF IsOrder
    <3> QED BY <1>5, <1>6, <3>1, <3>2
  <2> QED BY <2>1, <2>2
<1>8. [k \in 1..n |-> s[InOrder(1..n, Q)[k]]] = InOrder(S, R)
  BY Zenon, <1>1, <1>2, <1>4, <1>7, SortedLists
<1> QED BY <1>3, <1>8 DEF R

\* At most one step of an iteration decides, so its decision is the set's.
LEMMA DecisionIs ==
  ASSUME NEW S, NEW s, NEW u, Steps(s, S), Steps(u, S), NEW iter
  PROVE  Decision(s, iter) = Decision(u, iter)
<1> DEFINE D == {x \in S : x.iteration = iter /\ x.stage = "deciding" /\ x.ref # ""}
<1>1. ASSUME NEW t, Steps(t, S)
      PROVE  /\ D = {} => Decision(t, iter) = None
             /\ \A x \in D : Decision(t, iter) = x.ref
  <2> DEFINE n == Len(t)
             T == Decided(t, iter)
  <2>1. /\ n \in Nat /\ DOMAIN t = 1..n /\ t \in [1..n -> S]
        /\ \A x \in S : \E i \in 1..n : t[i] = x
        /\ \A i, j \in 1..n : Key(t[i]) = Key(t[j]) => i = j
    BY Zenon, <1>1, StepsHold
  <2> HIDE DEF n
  <2>2. \A i \in T : i \in 1..n /\ t[i] \in D /\ Key(t[i]) = <<iter, "deciding">>
    BY Zenon, <2>1 DEF Decided, Key
  <2>3. \A x \in D : \E i \in T : t[i] = x
    BY Zenon, <2>1 DEF Decided
  <2> HIDE DEF T, D
  <2>4. ASSUME D = {} PROVE Decision(t, iter) = None
    <3>1. T = {}
      BY <2>2, <2>4
    <3> QED BY Zenon, <3>1, AtOne DEF Decision, T
  <2>5. ASSUME NEW x \in D PROVE Decision(t, iter) = x.ref
    <3>1. PICK i \in T : t[i] = x
      BY <2>3
    <3>2. T = {i} /\ i \in Nat
      BY <2>1, <2>2, <3>1
    <3>3. At(t, T) = [k \in 1..1 |-> x]
      BY Zenon, <3>1, <3>2, AtOne
    <3>4. At(t, T) # <<>> /\ Last(At(t, T)) = x
      <4> DEFINE v == [k \in 1..1 |-> x]
      <4>1. DOMAIN v = 1..1 /\ Len(v) = 1 /\ v[1] = x
        OBVIOUS
      <4>2. v # <<>>
        BY <4>1
      <4> HIDE DEF v
      <4> QED BY <3>3, <4>1, <4>2 DEF Last, v
    <3> QED BY <3>4 DEF Decision, T
  <2> QED BY <2>4, <2>5
<1> HIDE DEF D
<1>2. CASE D = {}
  BY <1>1, <1>2
<1>3. CASE D # {}
  <2>1. PICK x \in D : TRUE
    BY <1>3
  <2> QED BY <1>1, <2>1
<1> QED BY <1>2, <1>3

\* The references that the steps of a layer and a stage left.
Left(S, layer, stage) == {x.ref : x \in {y \in S : y.layer = layer /\ y.stage = stage}} \ {""}

LEMMA RefsAre ==
  ASSUME NEW S, NEW s, ToSet(s) = S, NEW layer, NEW stage
  PROVE  Rep!StepRefs(s, layer, stage) = Left(S, layer, stage)
<1>1. S = {s[i] : i \in DOMAIN s}
  BY DEF ToSet
<1> QED BY Zenon, <1>1 DEF Rep!StepRefs, Left

\* An explanation of a chain takes only the status and the error of the run.
LEMMA ExplainedChain ==
  ASSUME NEW c, NEW r, NEW q
  PROVE  Rep!Explain(c, r).iterations = Rep!Explain(c, q).iterations
BY DEF Rep!Explain

LEMMA OriginalsAlike ==
  ASSUME NEW S, NEW r, NEW q, Steps(r.steps, S), Steps(q.steps, S), r.iteration = q.iteration
  PROVE  Rep!OriginalIDs(r) = Rep!OriginalIDs(q)
<1> DEFINE v(run) == [i \in 1..run.iteration + 1 |-> Rep!DecisionOf(run, i - 1)]
           some(d) == d # None
           chosen(seq) == Rep!Kept(seq, some)
<1>1. \A iter : Rep!DecisionOf(r, iter) = Rep!DecisionOf(q, iter)
  BY DecisionAt, DecisionIs
<1>2. v(r) = v(q)
  BY <1>1
<1>3. Rep!OriginalIDs(r) = chosen(v(r)) /\ Rep!OriginalIDs(q) = chosen(v(q))
  BY DEF Rep!OriginalIDs
<1> HIDE DEF v, chosen
<1> QED BY <1>2, <1>3

LEMMA InspectAlike ==
  ASSUME NEW S, NEW r, NEW q, ToSet(r.steps) = S, ToSet(q.steps) = S
  PROVE  [Rep!Inspect(r) EXCEPT !.timeline = ToSet(@)] = [Rep!Inspect(q) EXCEPT !.timeline = ToSet(@)]
<1> DEFINE refs(run, layer, stage) == Rep!StepRefs(run.steps, layer, stage)
           all(run, layer) == UNION {refs(run, layer, stage) : stage \in Rep!Status}
           x == Rep!Inspect(r)
           y == Rep!Inspect(q)
           given(run) ==
             [memories |-> refs(run, "mnemos", "observing"), outcomes |-> refs(run, "mnemos", "learning"),
              signals |-> all(run, "chronos"), decisions |-> all(run, "nous"),
              actions |-> all(run, "praxis"), timeline |-> run.steps]
<1>1. \A layer, stage : refs(r, layer, stage) = refs(q, layer, stage)
  <2> TAKE layer, stage
  <2> DEFINE s == r.steps
             u == q.steps
  <2>1. ToSet(s) = S /\ ToSet(u) = S
    OBVIOUS
  <2> HIDE DEF s, u
  <2>2. Rep!StepRefs(s, layer, stage) = Left(S, layer, stage)
    BY <2>1, RefsAre
  <2>3. Rep!StepRefs(u, layer, stage) = Left(S, layer, stage)
    BY <2>1, RefsAre
  <2> QED BY <2>2, <2>3 DEF s, u
<1>2. \A layer : all(r, layer) = all(q, layer)
  BY <1>1
<1>3. x = given(r) /\ y = given(q)
  BY DEF Rep!Inspect
<1> DEFINE F == {"memories", "outcomes", "signals", "decisions", "actions", "timeline"}
<1>4. /\ DOMAIN x = F /\ DOMAIN y = F
      /\ \A f \in F \ {"timeline"} : x[f] = y[f]
      /\ x["timeline"] = r.steps /\ y["timeline"] = q.steps
  <2> HIDE DEF x, y, refs, all
  <2> QED BY <1>1, <1>2, <1>3
<1> HIDE DEF x, y
<1>5. [x EXCEPT !.timeline = ToSet(@)] = [y EXCEPT !.timeline = ToSet(@)]
  BY <1>4
<1> QED BY <1>5 DEF x, y

\* What is read out of a run, as ReportsAgree compares it.
Report(run) ==
  <<Rep!Reconstruct(run), Rep!Explain(Rep!Reconstruct(run), run).iterations, Rep!OriginalIDs(run),
    [Rep!Inspect(run) EXCEPT !.timeline = ToSet(@)]>>

LEMMA ReportOfSteps ==
  ASSUME NEW S, NEW r, NEW q, Steps(r.steps, S), Steps(q.steps, S), r.iteration = q.iteration
  PROVE  Report(r) = Report(q)
<1>1. Rep!Reconstruct(r) = Rep!Reconstruct(q)
  BY ChainIs
<1>2. Rep!OriginalIDs(r) = Rep!OriginalIDs(q)
  BY OriginalsAlike
<1>3. [Rep!Inspect(r) EXCEPT !.timeline = ToSet(@)] = [Rep!Inspect(q) EXCEPT !.timeline = ToSet(@)]
  <2>1. ToSet(r.steps) = S /\ ToSet(q.steps) = S
    BY DEF Steps
  <2> QED BY <2>1, InspectAlike
<1> DEFINE c == Rep!Reconstruct(q)
<1>4. Rep!Explain(c, r).iterations = Rep!Explain(c, q).iterations
  BY ExplainedChain
<1> HIDE DEF c
<1>5. Rep!Explain(Rep!Reconstruct(r), r).iterations = Rep!Explain(Rep!Reconstruct(q), q).iterations
  BY <1>1, <1>4 DEF c
<1> QED BY Zenon, <1>1, <1>2, <1>3, <1>5 DEF Report

LEMMA GetsReportAlike ==
  ASSUME RecordInv, NEW id \in DOMAIN mem.runs, ~StageTwice(mem.runs[id].steps), NEW b \in {"lite", "pg"}
  PROVE  Report(GetRun(id)[b]) = Report(mem.runs[id])
<1> DEFINE g == GetRun(id)
           m == mem.runs[id]
           s == m.steps
           S == ToSet(s)
           d == Rows(s)
           L == g["lite"].steps
           P == g["pg"].steps
<1>1. /\ Together(g) /\ WellRows(d) /\ IsFiniteSet(RowSet(d))
      /\ IsOrder(ByText(RowSet(d)), RowSet(d)) /\ L = InOrder(RowSet(d), ByText(RowSet(d)))
      /\ g["mem"] = m
  BY Zenon, GetLoads, GetParts
<1>2. RunOK(id, m, now)
  BY DEF RecordInv, StoredOK
<1>3. Steps(s, S)
  BY <1>2 DEF RunOK, Steps
<1>4. P = s /\ ToSet(L) = S
  <2>1. g["mem"].steps = s
    BY <1>1
  <2> HIDE DEF s, m
  <2>2. ~StageTwice(g["mem"].steps)
    BY <2>1 DEF s, m
  <2> QED BY Zenon, <2>1, <2>2, GetsAgree
<1>5. Steps(L, S)
  <2>1. L \in Seq(StepSet) /\ ~StageTwice(L)
    <3> HIDE DEF d
    <3> QED BY <1>1, LoadedRows
  <2> QED BY <1>4, <2>1 DEF Steps
<1>6. g["lite"].iteration = m.iteration /\ g["pg"].iteration = m.iteration
  <2> HIDE DEF g, m
  <2> QED BY <1>1 DEF Together, Alike, RunFields, Backends
<1> DEFINE r == g[b]
<1>7. Steps(r.steps, S) /\ r.iteration = m.iteration
  BY <1>3, <1>4, <1>5, <1>6
<1>8. Report(r) = Report(m)
  <2> HIDE DEF r, m
  <2>1. Steps(m.steps, S)
    BY <1>3 DEF m
  <2> QED BY <1>7, <2>1, ReportOfSteps
<1> QED BY <1>8

-----------------------------------------------------------------------------
(* The lists of runs.                                                      *)

\* L lists the records that f gives the runs C, each once.
Enumerates(L, f, C, n) ==
  /\ n \in Nat /\ n = Cardinality(C) /\ Len(L) = n /\ L = [i \in 1..n |-> L[i]]
  /\ \A i \in 1..n : L[i].id \in C /\ L[i] = f[L[i].id]
  /\ \A id \in C : \E i \in 1..n : L[i].id = id
  /\ \A i, j \in 1..n : L[i].id = L[j].id => i = j

LEMMA ListEnumerates ==
  ASSUME NEW C, IsFiniteSet(C), NEW f, \A id \in C : f[id].id = id,
         NEW R, IsOrder(R, RecordsOf(f, C))
  PROVE  Enumerates(InOrder(RecordsOf(f, C), R), f, C, Cardinality(C))
<1> DEFINE M == RecordsOf(f, C)
           n == Cardinality(C)
           L == InOrder(M, R)
           g == [id \in C |-> f[id]]
<1>1. n \in Nat
  BY FS_CardinalityType
<1>2. \A x \in M : x.id \in C /\ x = f[x.id]
  BY DEF RecordsOf
<1>3. \A id \in C : f[id] \in M
  BY DEF RecordsOf
<1>4. g \in Bijection(C, M)
  <2>1. g \in [C -> M] /\ \A id \in C : g[id] = f[id]
    BY <1>3
  <2>2. \A x \in M : \E id \in C : g[id] = x
    BY <1>2
  <2>3. \A a, b \in C : g[a] = g[b] => a = b
    OBVIOUS
  <2> HIDE DEF g, M
  <2> QED BY <2>1, <2>2, <2>3 DEF Bijection, Injection, IsInjective, Surjection
<1> HIDE DEF M
<1>5. IsFiniteSet(M) /\ Cardinality(M) = n
  BY <1>4, FS_Bijection DEF ExistsBijection
<1>6. Lists(L, n, R, M)
  BY <1>5, InOrderLists DEF M
<1> HIDE DEF L, n
<1>7. L \in [1..n -> M] /\ \A x \in M : \E i \in 1..n : L[i] = x
  BY <1>6 DEF Lists
<1>8. ASSUME NEW i \in 1..n, NEW j \in 1..n, L[i].id = L[j].id PROVE i = j
  <2>1. L[i] = L[j] /\ L[i] \in M /\ <<L[i], L[i]>> \notin R
    BY <1>2, <1>7, <1>8 DEF IsOrder, M
  <2>2. ~(i < j) /\ ~(j < i)
    BY <1>6, <2>1 DEF Lists
  <2> QED BY <1>1, <2>2
<1>9. \A id \in C : \E i \in 1..n : L[i].id = id
  BY <1>3, <1>7
<1>10. \A i \in 1..n : L[i].id \in C /\ L[i] = f[L[i].id]
  BY <1>2, <1>7
<1>11. L = [i \in 1..n |-> L[i]] /\ Len(L) = n
  BY <1>1, <1>7
<1> QED BY <1>1, <1>8, <1>9, <1>10, <1>11 DEF Enumerates, L, M, n

\* How many of the listed runs are among D.
LEMMA CountsRuns ==
  ASSUME NEW L, NEW f, NEW C, NEW n, Enumerates(L, f, C, n), NEW D \in SUBSET C
  PROVE  Cardinality({i \in 1..n : L[i].id \in D}) = Cardinality(D)
<1> DEFINE T == {i \in 1..n : L[i].id \in D}
           g == [i \in T |-> L[i].id]
<1>1. n \in Nat /\ IsFiniteSet(1..n)
  BY FS_Interval DEF Enumerates
<1>2. IsFiniteSet(T)
  BY <1>1, FS_Subset
<1>3. g \in Bijection(T, D)
  <2>1. g \in [T -> D]
    OBVIOUS
  <2>2. \A id \in D : \E i \in T : g[i] = id
    BY DEF Enumerates
  <2>3. \A i, j \in T : g[i] = g[j] => i = j
    BY DEF Enumerates
  <2> HIDE DEF g, T
  <2> QED BY <2>1, <2>2, <2>3 DEF Bijection, Injection, IsInjective, Surjection
<1> HIDE DEF T, g
<1>4. Cardinality(D) = Cardinality(T)
  BY <1>2, <1>3, FS_Bijection DEF ExistsBijection
<1> QED BY <1>4 DEF T

-----------------------------------------------------------------------------
(* The dashboard.                                                          *)

\* What ReportsAgree passes for the audit logs, and the parts of a dashboard.
Windowed(runs) == Rep!Kept(runs, LAMBDA r : Rep!InWindow(r.started, None, None))
HowMany(runs, status) == Len(Rep!Kept(runs, LAMBDA r : r.status = status))
InFlight(runs) == Len(Rep!Kept(runs, LAMBDA r : r.status \notin Rep!Terminal))
Logged(logs, kind) == Len(Rep!Kept(Rep!FlattenSeq(logs), LAMBDA e : e.kind = kind))

LEMMA DashboardParts ==
  ASSUME NEW runs
  PROVE  LET c == Windowed(runs)
             logs == [i \in DOMAIN c |-> NoEvents[c[i].id]]
         IN  Rep!BuildDashboard(runs, NoEvents, None, None)
               = [total |-> Len(c), completed |-> HowMany(c, "completed"), failed |-> HowMany(c, "failed"),
                  cancelled |-> HowMany(c, "cancelled"), inFlight |-> InFlight(c),
                  approvals |-> Logged(logs, "approval_required"), outcomes |-> Logged(logs, "outcome_written")]
BY DEF Rep!BuildDashboard, Windowed, HowMany, InFlight, Logged

HasStatus(runs, status) == {i \in DOMAIN runs : runs[i].status = status}

\* Each part keeps the elements at certain places of the list.
LEMMA CountedAt ==
  ASSUME NEW runs, NEW status
  PROVE  /\ Windowed(runs) = At(runs, DOMAIN runs)
         /\ HowMany(runs, status) = Len(At(runs, HasStatus(runs, status)))
         /\ InFlight(runs) = Len(At(runs, {i \in DOMAIN runs : runs[i].status \notin Rep!Terminal}))
<1>1. Windowed(runs) = At(runs, DOMAIN runs)
  <2>1. {i \in DOMAIN runs : Rep!InWindow(runs[i].started, None, None)} = DOMAIN runs
    BY Zenon DEF Rep!InWindow
  <2> DEFINE T == {i \in DOMAIN runs : Rep!InWindow(runs[i].started, None, None)}
             o == Rep!InOrder(T, {p \in T \X T : p[1] < p[2]})
  <2>2. Windowed(runs) = [k \in DOMAIN o |-> runs[o[k]]]
    BY DEF Windowed, Rep!Kept, Rep!Ordered, Rep!Earlier
  <2>3. [k \in DOMAIN o |-> runs[o[k]]] = At(runs, T)
    <3> HIDE DEF T
    <3> QED BY SameReportOrder DEF At, Up
  <2> QED BY <2>1, <2>2, <2>3
<1>2. HowMany(runs, status) = Len(At(runs, HasStatus(runs, status)))
  <2> DEFINE T == {i \in DOMAIN runs : runs[i].status = status}
             o == Rep!InOrder(T, {p \in T \X T : p[1] < p[2]})
  <2>1. HowMany(runs, status) = Len([k \in DOMAIN o |-> runs[o[k]]])
    BY DEF HowMany, Rep!Kept, Rep!Ordered, Rep!Earlier
  <2>2. [k \in DOMAIN o |-> runs[o[k]]] = At(runs, T)
    <3> HIDE DEF T
    <3> QED BY SameReportOrder DEF At, Up
  <2> QED BY <2>1, <2>2 DEF HasStatus
<1>3. InFlight(runs) = Len(At(runs, {i \in DOMAIN runs : runs[i].status \notin Rep!Terminal}))
  <2> DEFINE T == {i \in DOMAIN runs : runs[i].status \notin Rep!Terminal}
             o == Rep!InOrder(T, {p \in T \X T : p[1] < p[2]})
  <2>1. InFlight(runs) = Len([k \in DOMAIN o |-> runs[o[k]]])
    BY DEF InFlight, Rep!Kept, Rep!Ordered, Rep!Earlier
  <2>2. [k \in DOMAIN o |-> runs[o[k]]] = At(runs, T)
    <3> HIDE DEF T
    <3> QED BY SameReportOrder DEF At, Up
  <2> QED BY <2>1, <2>2
<1> QED BY <1>1, <1>2, <1>3

\* The counters depend on the set of the listed runs and on their statuses.
Counts(C, n, st) ==
  LET logs == [i \in 1..n |-> <<>>]
      of(status) == Cardinality({id \in C : st[id] = status})
  IN  [total |-> n, completed |-> of("completed"), failed |-> of("failed"), cancelled |-> of("cancelled"),
       inFlight |-> Cardinality({id \in C : st[id] \notin Rep!Terminal}),
       approvals |-> Logged(logs, "approval_required"), outcomes |-> Logged(logs, "outcome_written")]

LEMMA DashboardCounts ==
  ASSUME NEW C \in SUBSET Ids, NEW n, NEW f, NEW L, Enumerates(L, f, C, n), NEW st,
         \A id \in C : f[id].status = st[id]
  PROVE  Rep!BuildDashboard(L, NoEvents, None, None) = Counts(C, n, st)
<1>1. /\ n \in Nat /\ Len(L) = n /\ L = [i \in 1..n |-> L[i]] /\ DOMAIN L = 1..n
      /\ \A i \in 1..n : L[i].id \in C /\ L[i].status = st[L[i].id]
  <2>1. L = [i \in 1..n |-> L[i]] /\ \A i \in 1..n : L[i].id \in C /\ L[i] = f[L[i].id]
    BY DEF Enumerates
  <2>2. DOMAIN L = 1..n
    BY <2>1
  <2> QED BY <2>1, <2>2 DEF Enumerates
<1>2. Windowed(L) = L
  BY Zenon, <1>1, CountedAt, AtAll
<1>3. ASSUME NEW D \in SUBSET C, NEW T, T = {i \in 1..n : L[i].id \in D}
      PROVE  Len(At(L, T)) = Cardinality(D)
  <2>1. T \in SUBSET (1..n)
    BY <1>3
  <2>2. Len(At(L, T)) = Cardinality(T)
    BY <1>1, <2>1, AtPlaces
  <2> QED BY <1>3, <2>2, CountsRuns
<1>4. ASSUME NEW status PROVE HowMany(L, status) = Cardinality({id \in C : st[id] = status})
  <2> DEFINE D == {id \in C : st[id] = status}
             T == {i \in 1..n : L[i].status = status}
  <2>1. T = {i \in 1..n : L[i].id \in D} /\ D \in SUBSET C
    BY <1>1
  <2>2. HowMany(L, status) = Len(At(L, T))
    <3>1. HowMany(L, status) = Len(At(L, HasStatus(L, status)))
      BY Zenon, CountedAt
    <3>2. HasStatus(L, status) = T
      BY <1>1 DEF HasStatus
    <3> QED BY <3>1, <3>2
  <2> HIDE DEF D, T
  <2> QED BY <1>3, <2>1, <2>2 DEF D
<1>5. InFlight(L) = Cardinality({id \in C : st[id] \notin Rep!Terminal})
  <2> DEFINE D == {id \in C : st[id] \notin Rep!Terminal}
             T == {i \in 1..n : L[i].status \notin Rep!Terminal}
  <2>1. T = {i \in 1..n : L[i].id \in D} /\ D \in SUBSET C
    BY <1>1
  <2>2. InFlight(L) = Len(At(L, T))
    BY Zenon, <1>1, CountedAt
  <2> HIDE DEF D, T
  <2> QED BY <1>3, <2>1, <2>2 DEF D
<1>6. [i \in DOMAIN L |-> NoEvents[L[i].id]] = [i \in 1..n |-> <<>>]
  BY <1>1 DEF NoEvents
<1> QED BY <1>1, <1>2, <1>4, <1>5, <1>6, DashboardParts DEF Counts

-----------------------------------------------------------------------------
(* Every backend reports the same.                                         *)

\* No two runs begin at one time, so their lists have one order.
LEMMA BeginOrders ==
  ASSUME NEW C, NEW f, NEW t, \A id \in C : f[id].started = t[id] /\ t[id] \in Nat,
         \A id, o \in C : t[id] = t[o] => id = o
  PROVE  LET S == RecordsOf(f, C)
         IN  IsOrder(Begins(S), S) /\ IsOrder(BeginsText(S), S)
<1> DEFINE S == RecordsOf(f, C)
<1>1. /\ \A r \in S : r.started \in Nat
      /\ \A r, q \in S : r.started = q.started => r = q
  BY DEF RecordsOf
<1>2. /\ \A r, q \in S : <<r, q>> \in Begins(S) <=> q.started < r.started
      /\ \A r, q \in S : <<r, q>> \in BeginsText(S) <=> Lite!TextBefore(q.started, r.started)
  BY DEF Begins, BeginsText, Lite!TextAfter
<1> HIDE DEF S
<1>3. IsOrder(Begins(S), S)
  BY <1>1, <1>2 DEF IsOrder
<1>4. IsOrder(BeginsText(S), S)
  <2>1. \A r \in S : <<r, r>> \notin BeginsText(S)
    BY Zenon, <1>1, <1>2, TextOrders
  <2>2. \A r, q \in S : r # q => <<r, q>> \in BeginsText(S) \/ <<q, r>> \in BeginsText(S)
    BY Zenon, <1>1, <1>2, TextOrders
  <2>3. \A r, q, p \in S :
          <<r, q>> \in BeginsText(S) /\ <<q, p>> \in BeginsText(S) => <<r, p>> \in BeginsText(S)
    <3> SUFFICES ASSUME NEW r \in S, NEW q \in S, NEW p \in S,
                        <<r, q>> \in BeginsText(S), <<q, p>> \in BeginsText(S)
                 PROVE  <<r, p>> \in BeginsText(S)
      OBVIOUS
    <3>1. Lite!TextBefore(q.started, r.started) /\ Lite!TextBefore(p.started, q.started)
      BY Zenon, <1>2
    <3>2. Lite!TextBefore(p.started, r.started)
      BY Zenon, <1>1, <3>1, TextOrders
    <3> QED BY Zenon, <1>2, <3>2
  <2> QED BY Zenon, <2>1, <2>2, <2>3 DEF IsOrder
<1> QED BY <1>3, <1>4 DEF S

\* The runs as each backend scans them, by their ids.
Scanned(b) ==
  [id \in DOMAIN mem.runs |->
     CASE b = "mem"  -> mem.runs[id]
       [] b = "lite" -> Lite!ScanRun(lite.runs[id])
       [] b = "pg"   -> Pg!ScanRun(pg.runs[id])]
Listed(b) ==
  CASE b = "mem"  -> Mem!List(mem, <<>>, 0)
    [] b = "lite" -> Lite!List(lite, <<>>, 0)
    [] b = "pg"   -> Pg!List(pg, <<>>, 0)
Began == [id \in DOMAIN mem.runs |-> mem.runs[id].started]

LEMMA ScannedAlike ==
  ASSUME RecordInv, NEW id \in DOMAIN mem.runs, NEW b \in Backends
  PROVE  LET r == Scanned(b)[id]
         IN  /\ r.id = id /\ r.status = mem.runs[id].status /\ r.started = Began[id] /\ Began[id] \in Nat
<1> DEFINE m == mem["runs"][id]
           l == Lite!ScanRun(lite["runs"][id])
           q == Pg!ScanRun(pg["runs"][id])
           r == Scanned(b)[id]
<1>1. /\ RunOK(id, m, now) /\ Alike(l, m) /\ Alike(q, m)
      /\ id \in DOMAIN lite["runs"] /\ id \in DOMAIN pg["runs"]
  BY DEF RecordInv, Shape, StoredOK, Fits
<1>2. Began[id] = m.started
  BY DEF Began
<1>4. (r = m /\ b = "mem") \/ (r = l /\ b = "lite") \/ (r = q /\ b = "pg")
  BY DEF Scanned, Backends
<1> HIDE DEF m, l, q, r
<1>5. /\ m.id = id /\ m.started \in Nat
      /\ l.id = id /\ l.started = m.started /\ l.status = m.status
      /\ q.id = id /\ q.started = m.started /\ q.status = m.status
  BY <1>1 DEF RunOK, Alike, RunFields
<1>6. mem.runs[id].status = m.status
  BY DEF m
<1>7. r.id = id /\ r.status = m.status /\ r.started = m.started
  BY Zenon, <1>4, <1>5
<1> QED BY <1>2, <1>5, <1>6, <1>7 DEF r

\* With no filter and no limit each backend lists every run.
LEMMA AllListed ==
  ASSUME RecordInv, NEW b \in Backends
  PROVE  Enumerates(Listed(b), Scanned(b), DOMAIN mem.runs, Cardinality(DOMAIN mem.runs))
<1> DEFINE C == DOMAIN mem["runs"]
           f == Scanned(b)
           S == RecordsOf(f, C)
<1>1. IsFiniteSet(C) /\ DOMAIN lite["runs"] = C /\ DOMAIN pg["runs"] = C
  BY DEF RecordInv, Shape
<1>2. \A id \in C : f[id].id = id /\ f[id].started = Began[id] /\ Began[id] \in Nat
  <2> HIDE DEF f
  <2> QED BY ScannedAlike DEF f
<1>3. \A id, o \in C : Began[id] = Began[o] => id = o
  BY DEF RecordInv, Began
<1>4. \A s : Limited(s, 0) = s
  BY DEF Limited
<1>5. \A r : Mem!MatchesRun(r, <<>>)
  BY DEF Mem!MatchesRun, Mem!MatchesFields, Mem!MatchesTenant
<1>6. \A r : MatchesFields(r, <<>>) /\ Lite!MatchesTenant(r, <<>>) /\ Pg!SameTenant(r, <<>>)
  BY DEF MatchesFields, Lite!MatchesTenant, Pg!SameTenant
<1>7. /\ b = "mem" => Listed(b) = InOrder(S, Begins(S))
      /\ b = "lite" => Listed(b) = InOrder(S, BeginsText(S))
      /\ b = "pg" => Listed(b) = InOrder(S, Begins(S))
  <2>1. CASE b = "mem"
    <3>1. MemRunsFound(<<>>) = S
      BY Zenon, <1>5, <2>1 DEF MemRunsFound, RecordsOf, Scanned
    <3>2. Listed(b) = Mem!List(mem, <<>>, 0)
      BY <2>1 DEF Listed
    <3> HIDE DEF S
    <3> QED BY <1>4, <2>1, <3>1, <3>2, ListOrders
  <2>2. CASE b = "lite"
    <3>1. LiteRunsFound(<<>>) = S
      BY Zenon, <1>1, <1>6, <2>2 DEF LiteRunsFound, RecordsOf, Scanned
    <3>2. Listed(b) = Lite!List(lite, <<>>, 0)
      BY <2>2 DEF Listed
    <3> HIDE DEF S
    <3> QED BY <1>4, <2>2, <3>1, <3>2, ListOrders
  <2>3. CASE b = "pg"
    <3>1. PgRunsFound(<<>>) = S
      BY Zenon, <1>1, <1>6, <2>3 DEF PgRunsFound, RecordsOf, Scanned
    <3>2. Listed(b) = Pg!List(pg, <<>>, 0)
      BY <2>3 DEF Listed
    <3> HIDE DEF S
    <3> QED BY <1>4, <2>3, <3>1, <3>2, ListOrders
  <2> QED BY <2>1, <2>2, <2>3 DEF Backends
<1> HIDE DEF f, C
<1>8. IsOrder(Begins(S), S) /\ IsOrder(BeginsText(S), S)
  BY <1>2, <1>3, BeginOrders
<1>9. Enumerates(InOrder(S, Begins(S)), f, C, Cardinality(C))
  BY <1>1, <1>2, <1>8, ListEnumerates
<1>10. Enumerates(InOrder(S, BeginsText(S)), f, C, Cardinality(C))
  BY <1>1, <1>2, <1>8, ListEnumerates
<1> QED BY <1>7, <1>9, <1>10 DEF Backends, f, C

\* The part of ReportsAgree that is about lists.
LEMMA DashboardsAlike ==
  ASSUME RecordInv, NEW b \in Backends
  PROVE  Rep!BuildDashboard(Listed(b), NoEvents, None, None)
           = Rep!BuildDashboard(Listed("mem"), NoEvents, None, None)
<1> DEFINE C == DOMAIN mem["runs"]
           n == Cardinality(C)
           st == [id \in C |-> mem["runs"][id].status]
<1>1. C \in SUBSET Ids
  BY DEF RecordInv, Shape
<1>2. ASSUME NEW d \in Backends PROVE Rep!BuildDashboard(Listed(d), NoEvents, None, None) = Counts(C, n, st)
  <2> DEFINE L == Listed(d)
             f == Scanned(d)
  <2>1. Enumerates(L, f, C, n)
    BY AllListed
  <2>2. \A id \in C : f[id].status = st[id]
    <3> HIDE DEF f
    <3> QED BY ScannedAlike DEF f
  <2> HIDE DEF L, f, C, n, st
  <2> QED BY <1>1, <2>1, <2>2, DashboardCounts DEF L
<1>3. "mem" \in Backends
  BY DEF Backends
<1> QED BY Zenon, <1>2, <1>3

\* On every backend the reports of a run whose stages were tried once, and the
\* dashboard of all runs, are memory's (Inspect, audit.Reconstruct, explain.Build,
\* resilience.Replay, compliance.BuildDashboard).
THEOREM ReportsAgreeAlways == Spec => []ReportsAgree
<1>1. RecordInv => ReportsAgree
  <2> SUFFICES ASSUME RecordInv PROVE ReportsAgree
    OBVIOUS
  <2>1. \A id \in {i \in Ids : Stored(i)} :
          ~StageTwice(mem.runs[id].steps) =>
            \A b \in {"lite", "pg"} : Report(GetRun(id)[b]) = Report(mem.runs[id])
    BY GetsReportAlike DEF Stored
  <2>2. \A listed \in {Lite!List(lite, <<>>, 0), Pg!List(pg, <<>>, 0)} :
          \E b \in Backends : listed = Listed(b)
    BY DEF Listed, Backends
  <2>3. Mem!List(mem, <<>>, 0) = Listed("mem")
    BY DEF Listed
  <2>4. \A listed \in {Lite!List(lite, <<>>, 0), Pg!List(pg, <<>>, 0)} :
          Rep!BuildDashboard(listed, NoEvents, None, None)
            = Rep!BuildDashboard(Mem!List(mem, <<>>, 0), NoEvents, None, None)
    BY Zenon, <2>2, <2>3, DashboardsAlike
  <2> QED BY Zenon, <2>1, <2>4 DEF ReportsAgree, Report
<1> QED BY <1>1, RecordAlways, PTL
=============================================================================
