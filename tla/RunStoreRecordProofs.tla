------------------------ MODULE RunStoreRecordProofs ------------------------
(***************************************************************************)
(* What the three backends hold of a run, for any number of runs and any   *)
(* sequence of calls: SQL has the row and the steps that memory has, one   *)
(* for each stage of each iteration, so Get and List answer alike, and a   *)
(* read that straddles a Save is of a run no older than its row.           *)
(***************************************************************************)
EXTENDS RunStoreProofs

-----------------------------------------------------------------------------
(* The invariant.                                                          *)

\* What SQL keeps of a list of steps: a row for each stage of each iteration,
\* with the reference and the start of its first step and the end of its last.
Updated(r, e) == [r EXCEPT !.out = e.out, !.err = e.err, !.completed = e.completed]
Merge(d, e) ==
  [k \in DOMAIN d \cup {Key(e)} |->
     IF k # Key(e) THEN d[k] ELSE IF k \in DOMAIN d THEN Updated(d[k], e) ELSE e]
Rows(steps) == FoldLeft(LAMBDA d, e : Merge(d, e), <<>>, steps)

\* The steps and the runs of the program.
Errs == {None, "layer_call_failed"}
StepSet ==
  [iteration : Nat, stage : LoopStage, layer : {"mnemos", "chronos", "nous", "praxis"},
   ref : Decisions \cup {"", "act-1", "mem-1"}, out : Nat, err : Errs,
   started : Nat, completed : Nat]
RunFields ==
  {"id", "itype", "caller", "tenant", "status", "iteration", "err", "pending",
   "started", "updated", "completed", "steps"}
IsRun(r) == r = [f \in RunFields |-> r[f]]
Alike(r, q) == IsRun(r) /\ \A f \in RunFields \ {"steps", "updated"} : r[f] = q[f]

\* Steps are dated in the order of the list, before t.
Dated(s, t) ==
  /\ \A i \in DOMAIN s : s[i].started < t
  /\ \A i, j \in DOMAIN s : i < j => s[i].started < s[j].started
\* Iterations only go up, unless a stage was run again.
Rising(s, n) ==
  /\ \A i \in DOMAIN s : s[i].iteration <= n
  /\ StageTwice(s) \/ \A i, j \in DOMAIN s : i < j => s[i].iteration <= s[j].iteration
Begun(s) == \E i \in DOMAIN s : Key(s[i]) = <<0, "observing">>

RunOK(id, r, t) ==
  /\ IsRun(r) /\ r.id = id /\ r.tenant = TenantOf[id] /\ r.status \in Status
  /\ r.iteration \in Nat /\ r.err \in Errs /\ r.pending \in Decisions \cup {None}
  /\ r.started \in Nat /\ r.started < t
  /\ r.steps \in Seq(StepSet) /\ Dated(r.steps, t) /\ Rising(r.steps, r.iteration)
  /\ r.iteration > 0 \/ r.pending # None => Begun(r.steps)

\* Of a table of steps: the rows as they are scanned, and those of a run.
LiteRow(row) == [row EXCEPT !.err = Lite!DecodeJSON(@)]
PgRow(row) == [row EXCEPT !.ref = Pg!StringOf(@), !.err = Pg!DecodeJSON(@)]
LiteTable(t) == [x \in DOMAIN t |-> LiteRow(t[x])]
PgTable(t) == [x \in DOMAIN t |-> PgRow(t[x])]
RowKeys(d, id) == {<<x[2], x[3]>> : x \in {x \in DOMAIN d : x[1] = id}}
RowsOf(d, id) == [k \in RowKeys(d, id) |-> d[<<id, k[1], k[2]>>]]
Keyed(t) == \A x \in DOMAIN t : x = <<x[1], x[2], x[3]>>

\* What the three backends hold of a run.
Fits(id) ==
  /\ Alike(Lite!ScanRun(lite.runs[id]), mem.runs[id])
  /\ Alike(Pg!ScanRun(pg.runs[id]), mem.runs[id])
  /\ RowsOf(LiteTable(lite.steps), id) = Rows(mem.runs[id].steps)
  /\ RowsOf(PgTable(pg.steps), id) = Rows(mem.runs[id].steps)
StoredOK(id) ==
  /\ RunOK(id, mem.runs[id], now) /\ Fits(id)
  /\ at[id] = Away => Begun(mem.runs[id].steps)

\* What the engine holds of it, over each backend.
Together(h) ==
  \A b \in Backends :
    /\ Alike(h[b], h["mem"])
    /\ h[b].steps \in Seq(StepSet) /\ Rows(h[b].steps) = Rows(h["mem"].steps)
LastRefs(h) ==
  \A b \in Backends : Last(h[b].steps).ref = Last(h["mem"].steps).ref /\ Last(h[b].steps).ref \in Decisions
PlaceOK(a, h) ==
  /\ a = [pos |-> a.pos, phase |-> a.phase]
  /\ a.pos \in 1..6 /\ a.phase \in {"between", "inside", "failing", "closing"}
  /\ a.phase = "inside" => a.pos \in 1..5 /\ h["mem"].status = Loop[a.pos]
  /\ a.phase = "failing" => a.pos \in 1..5
  /\ a.phase = "closing" => h["mem"].status = IF a.pos = 6 THEN "completed" ELSE "failed"
  /\ a.pos = 4 /\ h["mem"].status = "deciding" => LastRefs(h)
  /\ a.pos > 1 \/ a.phase \in {"failing", "closing"} => Begun(h["mem"].steps)
HeldOK(id) ==
  /\ id \in DOMAIN mem.runs
  /\ Together(held[id]) /\ RunOK(id, held[id]["mem"], now)
  /\ held[id]["mem"].started = mem.runs[id].started
  /\ held[id]["mem"].status \in Terminal => held[id]["mem"].completed # None
  /\ PlaceOK(at[id], held[id])

Shape ==
  /\ "runs" \in DOMAIN mem /\ {"runs", "steps"} \subseteq DOMAIN lite
  /\ {"runs", "steps"} \subseteq DOMAIN pg /\ DOMAIN at = Ids /\ DOMAIN held = Ids
  /\ DOMAIN mem.runs \subseteq Ids /\ IsFiniteSet(DOMAIN mem.runs)
  /\ DOMAIN lite.runs = DOMAIN mem.runs /\ DOMAIN pg.runs = DOMAIN mem.runs
  /\ Keyed(lite.steps) /\ Keyed(pg.steps)
\* The invariant: each backend holds the same of every stored run, and so does
\* the engine of every run it drives, over each of them.  The steps need not be
\* the same: SQL folds them into rows, and a Get hands out the rows as steps, so
\* what stays equal is the rows that the steps make.
RecordInv ==
  /\ Shape
  /\ \A id \in DOMAIN mem.runs : StoredOK(id)
  /\ \A id, o \in DOMAIN mem.runs : id # o => mem.runs[id].started # mem.runs[o].started
  /\ \A id \in Ids : at[id] # Away => HeldOK(id)

-----------------------------------------------------------------------------
(* Rows, one step at a time.                                               *)

LF == INSTANCE FoldFacts WITH Op <- LAMBDA c, t, s : Lite!InsertStep(t, c, s)
PF == INSTANCE FoldFacts WITH Op <- LAMBDA c, t, s : Pg!InsertStep(t, c, s)

LEMMA InsertsFold ==
  ASSUME NEW id, NEW base, NEW seq
  PROVE  /\ Lite!FoldLeft(LAMBDA t, s : Lite!InsertStep(t, id, s), base, seq) = LF!Fold(id, base, seq)
         /\ Pg!FoldLeft(LAMBDA t, s : Pg!InsertStep(t, id, s), base, seq) = PF!Fold(id, base, seq)
BY DEF Lite!FoldLeft, Lite!MapThenFoldSet, LF!Fold, LF!FoldLeft, LF!MapThenFoldSet, Lite!Max, LF!Max,
   Pg!FoldLeft, Pg!MapThenFoldSet, PF!Fold, PF!FoldLeft, PF!MapThenFoldSet, Pg!Max, PF!Max

RF == INSTANCE FoldFacts WITH Op <- LAMBDA c, d, e : Merge(d, e)

LEMMA RowsFold ==
  ASSUME NEW seq
  PROVE  Rows(seq) = RF!Fold(0, <<>>, seq)
BY DEF Rows, FoldLeft, MapThenFoldSet, RF!Fold, RF!FoldLeft, RF!MapThenFoldSet, Max, RF!Max

\* f[i] are the rows of the first i steps.
Grows(f, seq, n) ==
  /\ f[0] = <<>>
  /\ \A i \in 1..n : f[i] = Merge(f[i - 1], seq[i])

LEMMA RowsGrow ==
  ASSUME NEW seq, NEW n \in Nat, DOMAIN seq = 1..n
  PROVE  \E f : Grows(f, seq, n) /\ Rows(seq) = f[n]
<1>1. PICK f : RF!Unfolds(0, f, <<>>, seq, n) /\ RF!Fold(0, <<>>, seq) = f[n]
  BY RF!FoldUnfolds
<1>2. Grows(f, seq, n)
  BY <1>1 DEF RF!Unfolds, Grows
<1> QED BY <1>1, <1>2, RowsFold

LEMMA InductionTo ==
  ASSUME NEW n \in Nat, NEW T, 0 \in T, \A i \in 0..n - 1 : i \in T => i + 1 \in T
  PROVE  n \in T
BY RF!InductionTo

LEMMA RowsAppend ==
  ASSUME NEW S, NEW s \in Seq(S), NEW e
  PROVE  Rows(<<>>) = <<>> /\ Rows(Append(s, e)) = Merge(Rows(s), e)
<1> DEFINE n == Len(s)
           t == Append(s, e)
<1>1. n \in Nat /\ DOMAIN s = 1..n
  OBVIOUS
<1>2. DOMAIN t = 1..n + 1 /\ t[n + 1] = e /\ \A i \in 1..n : t[i] = s[i]
  <2>1. s \in Seq(S \cup {e}) /\ e \in S \cup {e}
    OBVIOUS
  <2> QED BY <2>1
<1> HIDE DEF n, t
<1>3. PICK f : Grows(f, s, n) /\ Rows(s) = f[n]
  BY <1>1, RowsGrow
<1>4. PICK g : Grows(g, t, n + 1) /\ Rows(t) = g[n + 1]
  BY <1>1, <1>2, RowsGrow
<1> DEFINE T == {i \in 0..n : f[i] = g[i]}
<1>5. 0 \in T
  BY <1>1, <1>3, <1>4 DEF Grows
<1>6. ASSUME NEW i \in 0..n - 1, i \in T PROVE i + 1 \in T
  <2>1. i + 1 \in 1..n /\ i + 1 \in 1..n + 1 /\ i + 1 \in 0..n /\ (i + 1) - 1 = i
    BY <1>1
  <2>2. f[i + 1] = Merge(f[i], s[i + 1])
    BY <1>3, <2>1 DEF Grows
  <2>3. g[i + 1] = Merge(g[i], t[i + 1])
    BY <1>4, <2>1 DEF Grows
  <2> QED BY <1>2, <1>6, <2>1, <2>2, <2>3
<1>7. n \in T
  <2> HIDE DEF T
  <2> QED BY <1>1, <1>5, <1>6, InductionTo
<1>8. n + 1 \in 1..n + 1 /\ (n + 1) - 1 = n
  BY <1>1
<1>9. g[n + 1] = Merge(g[n], t[n + 1])
  BY <1>4, <1>8 DEF Grows
<1>10. Rows(<<>>) = <<>>
  <2>1. DOMAIN <<>> = 1..0
    OBVIOUS
  <2> QED BY Zenon, <2>1, RowsGrow DEF Grows
<1> QED BY <1>2, <1>3, <1>4, <1>7, <1>9, <1>10 DEF t

LEMMA UpdatedIs ==
  ASSUME NEW r \in StepSet, NEW e \in StepSet
  PROVE  /\ Updated(r, e) \in StepSet /\ Key(Updated(r, e)) = Key(r)
         /\ Updated(r, e).out = e.out /\ Updated(r, e).err = e.err
         /\ Updated(r, e).ref = r.ref /\ Updated(r, e).started = r.started
         /\ Updated(r, r) = r
         /\ \A x \in StepSet : Updated(Updated(r, x), e) = Updated(r, e)
<1>1. /\ Updated(r, e) \in StepSet /\ Key(Updated(r, e)) = Key(r)
      /\ Updated(r, e).out = e.out /\ Updated(r, e).err = e.err
      /\ Updated(r, e).ref = r.ref /\ Updated(r, e).started = r.started
  BY Zenon DEF Updated, StepSet, Key
<1>2. Updated(r, r) = r
  BY Zenon DEF Updated, StepSet
<1>3. ASSUME NEW x \in StepSet PROVE Updated(Updated(r, x), e) = Updated(r, e)
  BY Zenon DEF Updated, StepSet
<1> QED BY <1>1, <1>2, <1>3

\* Among the first n steps, i is the first and j the last with k for a key.
Spans(s, n, k, i, j) ==
  /\ i \in 1..n /\ j \in 1..n /\ Key(s[i]) = k /\ Key(s[j]) = k
  /\ \A m \in 1..n : Key(s[m]) = k => i <= m /\ m <= j
\* d has a row for each key among the first n steps.
Shows(d, s, n) ==
  /\ d = [k \in DOMAIN d |-> d[k]]
  /\ \A m \in 1..n : Key(s[m]) \in DOMAIN d
  /\ \A k \in DOMAIN d : \E i, j \in 1..n : Spans(s, n, k, i, j) /\ d[k] = Updated(s[i], s[j])

LEMMA ShowsNext ==
  ASSUME NEW s, NEW n \in Nat, \A i \in 1..n + 1 : s[i] \in StepSet, NEW d, Shows(d, s, n)
  PROVE  Shows(Merge(d, s[n + 1]), s, n + 1)
<1> DEFINE e == s[n + 1]
           D == Merge(d, e)
<1>0. /\ \A m \in 1..n : Key(s[m]) \in DOMAIN d
      /\ \A k \in DOMAIN d : \E i, j \in 1..n : Spans(s, n, k, i, j) /\ d[k] = Updated(s[i], s[j])
  BY DEF Shows
<1>1. DOMAIN D = DOMAIN d \cup {Key(e)}
  BY DEF Merge
<1>2. \A k \in DOMAIN d : k # Key(e) => D[k] = d[k]
  BY DEF Merge
<1>3. D[Key(e)] = IF Key(e) \in DOMAIN d THEN Updated(d[Key(e)], e) ELSE e
  BY DEF Merge
<1>8. D = [k \in DOMAIN D |-> D[k]]
  BY DEF Merge
<1> HIDE DEF D
<1>4. \A m \in 1..n + 1 : m \in 1..n \/ m = n + 1
  OBVIOUS
<1>5. \A m \in 1..n : m \in 1..n + 1 /\ m <= n + 1
  OBVIOUS
<1>6. \A m \in 1..n + 1 : Key(s[m]) \in DOMAIN D
  BY <1>0, <1>1, <1>4
<1>7. ASSUME NEW k \in DOMAIN D
      PROVE  \E i, j \in 1..n + 1 : Spans(s, n + 1, k, i, j) /\ D[k] = Updated(s[i], s[j])
  <2>1. CASE k # Key(e)
    <3>1. k \in DOMAIN d
      BY <1>1, <2>1
    <3>2. PICK i, j \in 1..n : Spans(s, n, k, i, j) /\ d[k] = Updated(s[i], s[j])
      BY <1>0, <3>1
    <3>3. Spans(s, n + 1, k, i, j)
      BY <1>4, <1>5, <2>1, <3>2 DEF Spans
    <3> QED BY <1>2, <1>5, <2>1, <3>1, <3>2, <3>3
  <2>2. CASE k = Key(e) /\ k \in DOMAIN d
    <3>1. PICK i, j \in 1..n : Spans(s, n, k, i, j) /\ d[k] = Updated(s[i], s[j])
      BY <1>0, <2>2
    <3>2. n + 1 \in 1..n + 1 /\ n + 1 <= n + 1 /\ i \in 1..n + 1
      BY <1>5
    <3>3. Spans(s, n + 1, k, i, n + 1)
      BY <1>4, <1>5, <2>2, <3>1, <3>2 DEF Spans
    <3>4. s[i] \in StepSet /\ s[j] \in StepSet /\ e \in StepSet
      BY <1>5, <3>2
    <3>5. D[k] = Updated(Updated(s[i], s[j]), e)
      BY <1>3, <2>2, <3>1
    <3>6. D[k] = Updated(s[i], e)
      BY <3>4, <3>5, UpdatedIs
    <3> QED BY <3>2, <3>3, <3>6
  <2>3. CASE k = Key(e) /\ k \notin DOMAIN d
    <3>1. n + 1 \in 1..n + 1 /\ n + 1 <= n + 1
      OBVIOUS
    <3>2. Spans(s, n + 1, k, n + 1, n + 1)
      BY <1>0, <1>4, <1>5, <2>3, <3>1 DEF Spans
    <3>3. D[k] = Updated(e, e)
      BY <1>3, <2>3, <3>1, UpdatedIs
    <3> QED BY <3>1, <3>2, <3>3
  <2> QED BY <2>1, <2>2, <2>3
<1> HIDE DEF e
<1> QED BY <1>6, <1>7, <1>8 DEF Shows, D, e

LEMMA RowsShow ==
  ASSUME NEW s \in Seq(StepSet)
  PROVE  Shows(Rows(s), s, Len(s))
<1> DEFINE n == Len(s)
<1>1. n \in Nat /\ DOMAIN s = 1..n /\ \A i \in 1..n : s[i] \in StepSet
  OBVIOUS
<1> HIDE DEF n
<1>2. PICK f : Grows(f, s, n) /\ Rows(s) = f[n]
  BY <1>1, RowsGrow
<1> DEFINE T == {i \in 0..n : Shows(f[i], s, i)}
<1>3. 0 \in T
  BY <1>1, <1>2 DEF Grows, Shows
<1>4. ASSUME NEW i \in 0..n - 1, i \in T PROVE i + 1 \in T
  <2>1. i + 1 \in 1..n /\ i \in Nat /\ i + 1 \in 0..n /\ (i + 1) - 1 = i /\ 1..i + 1 \subseteq 1..n
    BY <1>1
  <2>2. f[i + 1] = Merge(f[i], s[i + 1])
    BY <1>2, <2>1 DEF Grows
  <2>3. \A m \in 1..i + 1 : s[m] \in StepSet
    BY <1>1, <2>1
  <2> QED BY <1>4, <2>1, <2>2, <2>3, ShowsNext
<1>5. n \in T
  <2> HIDE DEF T
  <2> QED BY <1>1, <1>3, <1>4, InductionTo
<1> QED BY <1>2, <1>5 DEF n

\* The rows as SQL holds them.
LiteStepRow(e) == [e EXCEPT !.err = Lite!EncodeJSON(@)]
PgStepRow(e) == [e EXCEPT !.ref = Pg!NullString(@), !.err = Pg!EncodeJSON(@)]

-----------------------------------------------------------------------------
(* The steps of a Save are merged into the rows of its run.                *)

LEMMA Decoded ==
  ASSUME NEW v \in Errs \cup Decisions
  PROVE  Lite!DecodeJSON(Lite!EncodeJSON(v)) = v /\ Pg!DecodeJSON(Pg!EncodeJSON(v)) = v
<1>1. v \in {"null", ""} => v = None
  BY Zenon, RefsAssumption DEF Errs
<1> QED BY Zenon, <1>1 DEF Lite!DecodeJSON, Lite!EncodeJSON, Lite!Null, Pg!DecodeJSON, Pg!EncodeJSON

LEMMA StepRows ==
  ASSUME NEW e \in StepSet
  PROVE  LiteRow(LiteStepRow(e)) = e /\ PgRow(PgStepRow(e)) = e
<1>1. e.err \in Errs /\ e.ref # "NULL"
  BY Zenon, RefsAssumption DEF StepSet
<1>2. Lite!DecodeJSON(Lite!EncodeJSON(e.err)) = e.err /\ Pg!DecodeJSON(Pg!EncodeJSON(e.err)) = e.err
  BY <1>1, Decoded
<1>3. Pg!StringOf(Pg!NullString(e.ref)) = e.ref
  BY Zenon, <1>1 DEF Pg!StringOf, Pg!NullString, Pg!NULL
<1>4. LiteRow(LiteStepRow(e)) = [e EXCEPT !.err = Lite!DecodeJSON(Lite!EncodeJSON(e.err))]
  BY Zenon DEF LiteRow, LiteStepRow, StepSet
<1>5. PgRow(PgStepRow(e)) = [e EXCEPT !.ref = Pg!StringOf(Pg!NullString(e.ref)), !.err = Pg!DecodeJSON(Pg!EncodeJSON(e.err))]
  BY Zenon DEF PgRow, PgStepRow, StepSet
<1>6. [e EXCEPT !.err = e.err] = e /\ [e EXCEPT !.ref = e.ref, !.err = e.err] = e
  BY Zenon DEF StepSet
<1> QED BY <1>2, <1>3, <1>4, <1>5, <1>6

MergeAt(d, id, e) ==
  [x \in DOMAIN d \cup {<<id, e.iteration, e.stage>>} |->
     IF x # <<id, e.iteration, e.stage>> THEN d[x]
     ELSE IF x \in DOMAIN d THEN Updated(d[x], e) ELSE e]

LEMMA ConflictRows ==
  ASSUME NEW r, NEW e \in StepSet
  PROVE  /\ LiteRow([r EXCEPT !.out = e.out, !.err = Lite!EncodeJSON(e.err), !.completed = e.completed])
              = Updated(LiteRow(r), e)
         /\ PgRow([r EXCEPT !.out = e.out, !.completed = e.completed, !.err = Pg!EncodeJSON(e.err)])
              = Updated(PgRow(r), e)
<1>1. Lite!DecodeJSON(Lite!EncodeJSON(e.err)) = e.err /\ Pg!DecodeJSON(Pg!EncodeJSON(e.err)) = e.err
  BY Zenon, Decoded DEF StepSet
<1>2. LiteRow([r EXCEPT !.out = e.out, !.err = Lite!EncodeJSON(e.err), !.completed = e.completed])
        = Updated(LiteRow(r), e)
  BY Zenon, <1>1 DEF LiteRow, Updated
<1>3. PgRow([r EXCEPT !.out = e.out, !.completed = e.completed, !.err = Pg!EncodeJSON(e.err)])
        = Updated(PgRow(r), e)
  BY Zenon, <1>1 DEF PgRow, Updated
<1> QED BY <1>2, <1>3

LEMMA InsertMerges ==
  ASSUME NEW t, NEW id, NEW e \in StepSet
  PROVE  /\ LiteTable(Lite!InsertStep(t, id, e)) = MergeAt(LiteTable(t), id, e)
         /\ PgTable(Pg!InsertStep(t, id, e)) = MergeAt(PgTable(t), id, e)
<1> DEFINE x0 == <<id, e.iteration, e.stage>>
           u == Lite!InsertStep(t, id, e)
           v == Pg!InsertStep(t, id, e)
<1>1. u = IF x0 \in DOMAIN t
            THEN [t EXCEPT ![x0] = [t[x0] EXCEPT !.out = e.out, !.err = Lite!EncodeJSON(e.err), !.completed = e.completed]]
            ELSE Lite!Put(t, x0, LiteStepRow(e))
  BY Zenon DEF Lite!InsertStep, LiteStepRow, StepSet
<1>2. v = Pg!Put(t, x0,
            IF x0 \in DOMAIN t
              THEN [t[x0] EXCEPT !.out = e.out, !.completed = e.completed, !.err = Pg!EncodeJSON(e.err)]
              ELSE PgStepRow(e))
  BY DEF Pg!InsertStep, PgStepRow
<1> HIDE DEF x0, u, v
<1>3. /\ DOMAIN u = DOMAIN t \cup {x0} /\ \A x \in DOMAIN t : x # x0 => u[x] = t[x]
      /\ u[x0] = IF x0 \in DOMAIN t
                   THEN [t[x0] EXCEPT !.out = e.out, !.err = Lite!EncodeJSON(e.err), !.completed = e.completed]
                   ELSE LiteStepRow(e)
  BY <1>1 DEF Lite!Put
<1>4. /\ DOMAIN v = DOMAIN t \cup {x0} /\ \A x \in DOMAIN t : x # x0 => v[x] = t[x]
      /\ v[x0] = IF x0 \in DOMAIN t
                   THEN [t[x0] EXCEPT !.out = e.out, !.completed = e.completed, !.err = Pg!EncodeJSON(e.err)]
                   ELSE PgStepRow(e)
  BY <1>2 DEF Pg!Put
<1>5. LiteRow(u[x0]) = IF x0 \in DOMAIN t THEN Updated(LiteRow(t[x0]), e) ELSE e
  BY Zenon, <1>3, ConflictRows, StepRows
<1>6. PgRow(v[x0]) = IF x0 \in DOMAIN t THEN Updated(PgRow(t[x0]), e) ELSE e
  BY Zenon, <1>4, ConflictRows, StepRows
<1>7. MergeAt(LiteTable(t), id, e)
        = [x \in DOMAIN t \cup {x0} |->
             IF x # x0 THEN LiteRow(t[x]) ELSE IF x \in DOMAIN t THEN Updated(LiteRow(t[x]), e) ELSE e]
  BY DEF MergeAt, LiteTable, x0
<1>8. MergeAt(PgTable(t), id, e)
        = [x \in DOMAIN t \cup {x0} |->
             IF x # x0 THEN PgRow(t[x]) ELSE IF x \in DOMAIN t THEN Updated(PgRow(t[x]), e) ELSE e]
  BY DEF MergeAt, PgTable, x0
<1>9. LiteTable(u) = MergeAt(LiteTable(t), id, e)
  BY <1>3, <1>5, <1>7 DEF LiteTable
<1>10. PgTable(v) = MergeAt(PgTable(t), id, e)
  BY <1>4, <1>6, <1>8 DEF PgTable
<1> QED BY <1>9, <1>10 DEF u, v

LEMMA KeysOf ==
  ASSUME NEW d, Keyed(d), NEW id, NEW k \in RowKeys(d, id)
  PROVE  <<id, k[1], k[2]>> \in DOMAIN d /\ k = <<k[1], k[2]>>
<1>1. PICK x \in DOMAIN d : x[1] = id /\ k = <<x[2], x[3]>>
  BY DEF RowKeys
<1>2. x = <<x[1], x[2], x[3]>>
  BY DEF Keyed
<1>3. k[1] = x[2] /\ k[2] = x[3]
  BY <1>1
<1>4. x = <<id, k[1], k[2]>>
  BY <1>1, <1>2, <1>3
<1> QED BY <1>1, <1>3, <1>4

LEMMA KeyedMerge ==
  ASSUME NEW d, Keyed(d), NEW id, NEW e
  PROVE  /\ Keyed(MergeAt(d, id, e))
         /\ RowsOf(MergeAt(d, id, e), id) = Merge(RowsOf(d, id), e)
         /\ \A o : o # id => RowsOf(MergeAt(d, id, e), o) = RowsOf(d, o)
<1> DEFINE x0 == <<id, e.iteration, e.stage>>
           D == MergeAt(d, id, e)
<1>1. /\ DOMAIN D = DOMAIN d \cup {x0} /\ \A x \in DOMAIN d : x # x0 => D[x] = d[x]
      /\ D[x0] = IF x0 \in DOMAIN d THEN Updated(d[x0], e) ELSE e
  BY DEF MergeAt
<1>2. x0 = <<id, e.iteration, e.stage>> /\ x0[1] = id /\ <<x0[2], x0[3]>> = Key(e) /\ Key(e) = <<e.iteration, e.stage>>
  BY DEF Key
<1> HIDE DEF D, x0
<1>3. Keyed(D)
  BY <1>1, <1>2 DEF Keyed
<1>4. \A o : \A k \in RowKeys(D, o) : <<o, k[1], k[2]>> \in DOMAIN D /\ k = <<k[1], k[2]>>
  BY Zenon, <1>3, KeysOf
<1>5. \A o : \A k \in RowKeys(d, o) : <<o, k[1], k[2]>> \in DOMAIN d /\ k = <<k[1], k[2]>>
  BY Zenon, KeysOf
<1>6. RowKeys(D, id) = RowKeys(d, id) \cup {Key(e)}
  BY <1>1, <1>2 DEF RowKeys
<1>7. \A o : o # id => RowKeys(D, o) = RowKeys(d, o)
  BY <1>1, <1>2 DEF RowKeys
<1>8. ASSUME NEW o, o # id PROVE RowsOf(D, o) = RowsOf(d, o)
  <2>1. ASSUME NEW k \in RowKeys(d, o) PROVE D[<<o, k[1], k[2]>>] = d[<<o, k[1], k[2]>>]
    <3>1. <<o, k[1], k[2]>> \in DOMAIN d /\ <<o, k[1], k[2]>> # x0
      BY <1>2, <1>5, <1>8
    <3> QED BY <1>1, <3>1
  <2> QED BY <1>7, <1>8, <2>1 DEF RowsOf
<1>9. RowsOf(D, id) = Merge(RowsOf(d, id), e)
  <2> DEFINE r == RowsOf(d, id)
  <2>1. DOMAIN r = RowKeys(d, id) /\ \A k \in DOMAIN r : r[k] = d[<<id, k[1], k[2]>>]
    BY DEF RowsOf
  <2> HIDE DEF r
  <2>2. ASSUME NEW k \in RowKeys(D, id)
        PROVE  D[<<id, k[1], k[2]>>]
                 = IF k # Key(e) THEN r[k] ELSE IF k \in DOMAIN r THEN Updated(r[k], e) ELSE e
    <3>1. CASE k # Key(e)
      <4>1. k \in RowKeys(d, id) /\ k = <<k[1], k[2]>>
        BY Zenon, <1>4, <1>6, <3>1
      <4>2. <<id, k[1], k[2]>> \in DOMAIN d /\ <<id, k[1], k[2]>> # x0
        BY <1>2, <1>5, <3>1, <4>1
      <4> QED BY <1>1, <2>1, <3>1, <4>1, <4>2
    <3>2. CASE k = Key(e)
      <4>1. <<id, k[1], k[2]>> = x0
        BY <1>2, <3>2
      <4>2. x0 \in DOMAIN d <=> k \in DOMAIN r
        <5>1. k \in DOMAIN r => x0 \in DOMAIN d
          BY <1>5, <2>1, <4>1
        <5>2. x0 \in DOMAIN d => k \in DOMAIN r
          BY <1>2, <2>1, <3>2 DEF RowKeys
        <5> QED BY <5>1, <5>2
      <4> QED BY <1>1, <2>1, <3>2, <4>1, <4>2
    <3> QED BY <3>1, <3>2
  <2>3. Merge(r, e) = [k \in DOMAIN r \cup {Key(e)} |->
                         IF k # Key(e) THEN r[k] ELSE IF k \in DOMAIN r THEN Updated(r[k], e) ELSE e]
    BY DEF Merge
  <2>4. DOMAIN r \cup {Key(e)} = RowKeys(D, id)
    BY <1>6, <2>1
  <2>5. RowsOf(D, id) = [k \in RowKeys(D, id) |-> D[<<id, k[1], k[2]>>]]
    BY DEF RowsOf
  <2> HIDE DEF Merge
  <2>6. RowsOf(D, id) = Merge(r, e)
    BY <2>2, <2>3, <2>4, <2>5
  <2> QED BY <2>6 DEF r
<1> QED BY <1>3, <1>8, <1>9 DEF D

\* F[i] is the table after i inserts of run id.
Inserts(F, d, id, seq, n) ==
  /\ F[0] = d
  /\ \A i \in 1..n : F[i] = MergeAt(F[i - 1], id, seq[i])

LEMMA InsertsShow ==
  ASSUME NEW d, Keyed(d), NEW id, RowsOf(d, id) = <<>>, NEW seq, NEW n \in Nat, DOMAIN seq = 1..n,
         NEW F, Inserts(F, d, id, seq, n)
  PROVE  /\ Keyed(F[n]) /\ RowsOf(F[n], id) = Rows(seq)
         /\ \A o : o # id => RowsOf(F[n], o) = RowsOf(d, o)
<1>1. PICK f : Grows(f, seq, n) /\ Rows(seq) = f[n]
  BY RowsGrow
<1> DEFINE Q(i) == /\ Keyed(F[i]) /\ RowsOf(F[i], id) = f[i]
                   /\ \A o : o # id => RowsOf(F[i], o) = RowsOf(d, o)
           T == {i \in 0..n : Q(i)}
<1>2. Q(0)
  BY <1>1 DEF Inserts, Grows
<1>3. ASSUME NEW i \in 0..n - 1, Q(i) PROVE Q(i + 1)
  <2>1. i + 1 \in 1..n /\ (i + 1) - 1 = i
    OBVIOUS
  <2>2. F[i + 1] = MergeAt(F[i], id, seq[i + 1])
    BY <2>1 DEF Inserts
  <2>3. f[i + 1] = Merge(f[i], seq[i + 1])
    BY <1>1, <2>1 DEF Grows
  <2> QED BY <1>3, <2>2, <2>3, KeyedMerge
<1>4. 0 \in T /\ \A i \in 0..n - 1 : i \in T => i + 1 \in T
  <2>1. 0 \in 0..n /\ \A i \in 0..n - 1 : i + 1 \in 0..n
    OBVIOUS
  <2> HIDE DEF Q
  <2> QED BY <1>2, <1>3, <2>1
<1>5. n \in T
  <2> HIDE DEF T
  <2> QED BY <1>4, InductionTo
<1> QED BY <1>1, <1>5

\* u is t without the rows of run id.
IsCleared(u, t, id) == u = [k \in DOMAIN t \ {x \in DOMAIN t : x[1] = id} |-> t[k]]

LEMMA Cleared ==
  ASSUME NEW t, Keyed(t), NEW id, NEW u, IsCleared(u, t, id)
  PROVE  /\ Keyed(LiteTable(u)) /\ Keyed(PgTable(u))
         /\ RowsOf(LiteTable(u), id) = <<>> /\ RowsOf(PgTable(u), id) = <<>>
         /\ \A o : o # id => /\ RowsOf(LiteTable(u), o) = RowsOf(LiteTable(t), o)
                             /\ RowsOf(PgTable(u), o) = RowsOf(PgTable(t), o)
<1>1. DOMAIN u = {x \in DOMAIN t : x[1] # id} /\ \A x \in DOMAIN u : u[x] = t[x]
  BY DEF IsCleared
<1>2. /\ DOMAIN LiteTable(u) = DOMAIN u /\ DOMAIN PgTable(u) = DOMAIN u
      /\ DOMAIN LiteTable(t) = DOMAIN t /\ DOMAIN PgTable(t) = DOMAIN t
      /\ \A x \in DOMAIN u : LiteTable(u)[x] = LiteTable(t)[x] /\ PgTable(u)[x] = PgTable(t)[x]
  BY <1>1 DEF LiteTable, PgTable
<1> DEFINE a == LiteTable(u)
           b == PgTable(u)
           c == LiteTable(t)
           e == PgTable(t)
<1> HIDE DEF a, b, c, e
<1>3. Keyed(a) /\ Keyed(b) /\ Keyed(c) /\ Keyed(e)
  BY <1>1, <1>2 DEF Keyed, a, b, c, e
<1>4. RowKeys(a, id) = {} /\ RowKeys(b, id) = {}
  BY <1>1, <1>2 DEF RowKeys, a, b
<1>5. RowsOf(a, id) = <<>> /\ RowsOf(b, id) = <<>>
  BY <1>4 DEF RowsOf
<1>6. ASSUME NEW o, o # id PROVE RowsOf(a, o) = RowsOf(c, o) /\ RowsOf(b, o) = RowsOf(e, o)
  <2>1. RowKeys(a, o) = RowKeys(c, o) /\ RowKeys(b, o) = RowKeys(e, o)
    BY <1>1, <1>2, <1>6 DEF RowKeys, a, b, c, e
  <2>2. \A k \in RowKeys(a, o) : <<o, k[1], k[2]>> \in DOMAIN a
    BY <1>3, KeysOf
  <2>3. \A k \in RowKeys(b, o) : <<o, k[1], k[2]>> \in DOMAIN b
    BY <1>3, KeysOf
  <2>4. \A k \in RowKeys(a, o) : a[<<o, k[1], k[2]>>] = c[<<o, k[1], k[2]>>]
    BY <1>2, <2>2 DEF a, c
  <2>5. \A k \in RowKeys(b, o) : b[<<o, k[1], k[2]>>] = e[<<o, k[1], k[2]>>]
    BY <1>2, <2>3 DEF b, e
  <2> QED BY <2>1, <2>4, <2>5 DEF RowsOf
<1> QED BY <1>3, <1>5, <1>6 DEF a, b, c, e

\* The table of steps after a Save.
LiteSaved(t, id, seq) ==
  Lite!FoldLeft(LAMBDA x, s : Lite!InsertStep(x, id, s), Lite!Without(t, Lite!StepsOf(t, id)), seq)
PgSaved(t, id, seq) ==
  Pg!FoldLeft(LAMBDA x, s : Pg!InsertStep(x, id, s), Pg!Without(t, Pg!RowsOf(t, id)), seq)

LEMMA SaveRows ==
  ASSUME NEW t, Keyed(t), NEW id, NEW seq \in Seq(StepSet)
  PROVE  LET u == LiteSaved(t, id, seq)
             v == PgSaved(t, id, seq)
         IN  /\ Keyed(u) /\ RowsOf(LiteTable(u), id) = Rows(seq)
             /\ \A o : o # id => RowsOf(LiteTable(u), o) = RowsOf(LiteTable(t), o)
             /\ Keyed(v) /\ RowsOf(PgTable(v), id) = Rows(seq)
             /\ \A o : o # id => RowsOf(PgTable(v), o) = RowsOf(PgTable(t), o)
<1> DEFINE c == [k \in DOMAIN t \ {x \in DOMAIN t : x[1] = id} |-> t[k]]
           n == Len(seq)
           u == LF!Fold(id, c, seq)
           v == PF!Fold(id, c, seq)
<1>1. LiteSaved(t, id, seq) = u
  <2>1. Lite!Without(t, Lite!StepsOf(t, id)) = c
    BY DEF Lite!Without, Lite!StepsOf
  <2> HIDE DEF c
  <2> QED BY Zenon, <2>1, InsertsFold DEF LiteSaved
<1>2. PgSaved(t, id, seq) = v
  <2>1. Pg!Without(t, Pg!RowsOf(t, id)) = c
    BY DEF Pg!Without, Pg!RowsOf
  <2> HIDE DEF c
  <2> QED BY Zenon, <2>1, InsertsFold DEF PgSaved
<1>3. n \in Nat /\ DOMAIN seq = 1..n /\ \A i \in 1..n : seq[i] \in StepSet
  OBVIOUS
<1>0. IsCleared(c, t, id)
  BY DEF IsCleared
<1> HIDE DEF c, n
<1>4. /\ Keyed(LiteTable(c)) /\ Keyed(PgTable(c))
      /\ RowsOf(LiteTable(c), id) = <<>> /\ RowsOf(PgTable(c), id) = <<>>
      /\ \A o : o # id => /\ RowsOf(LiteTable(c), o) = RowsOf(LiteTable(t), o)
                          /\ RowsOf(PgTable(c), o) = RowsOf(PgTable(t), o)
  BY <1>0, Cleared
<1>5. /\ Keyed(u) /\ RowsOf(LiteTable(u), id) = Rows(seq)
      /\ \A o : o # id => RowsOf(LiteTable(u), o) = RowsOf(LiteTable(t), o)
  <2>1. PICK f : LF!Unfolds(id, f, c, seq, n) /\ LF!Fold(id, c, seq) = f[n]
    BY <1>3, LF!FoldUnfolds
  <2> DEFINE F == [i \in 0..n |-> LiteTable(f[i])]
  <2>2. F[0] = LiteTable(c)
    BY <1>3, <2>1 DEF LF!Unfolds
  <2>3. ASSUME NEW i \in 1..n PROVE F[i] = MergeAt(F[i - 1], id, seq[i])
    <3>1. f[i] = Lite!InsertStep(f[i - 1], id, seq[i])
      BY <2>1 DEF LF!Unfolds
    <3>2. LiteTable(f[i]) = MergeAt(LiteTable(f[i - 1]), id, seq[i])
      BY <1>3, <3>1, InsertMerges
    <3>3. i \in 0..n /\ i - 1 \in 0..n
      BY <1>3
    <3> QED BY <3>2, <3>3
  <2>4. F[n] = LiteTable(u)
    BY <1>3, <2>1
  <2> HIDE DEF F, u
  <2>5. Inserts(F, LiteTable(c), id, seq, n)
    BY <2>2, <2>3 DEF Inserts
  <2>6. /\ Keyed(LiteTable(u)) /\ RowsOf(LiteTable(u), id) = Rows(seq)
        /\ \A o : o # id => RowsOf(LiteTable(u), o) = RowsOf(LiteTable(c), o)
    BY <1>3, <1>4, <2>4, <2>5, InsertsShow
  <2>7. Keyed(u)
    BY <2>6 DEF Keyed, LiteTable
  <2> QED BY <1>4, <2>6, <2>7
<1>6. /\ Keyed(v) /\ RowsOf(PgTable(v), id) = Rows(seq)
      /\ \A o : o # id => RowsOf(PgTable(v), o) = RowsOf(PgTable(t), o)
  <2>1. PICK f : PF!Unfolds(id, f, c, seq, n) /\ PF!Fold(id, c, seq) = f[n]
    BY <1>3, PF!FoldUnfolds
  <2> DEFINE F == [i \in 0..n |-> PgTable(f[i])]
  <2>2. F[0] = PgTable(c)
    BY <1>3, <2>1 DEF PF!Unfolds
  <2>3. ASSUME NEW i \in 1..n PROVE F[i] = MergeAt(F[i - 1], id, seq[i])
    <3>1. f[i] = Pg!InsertStep(f[i - 1], id, seq[i])
      BY <2>1 DEF PF!Unfolds
    <3>2. PgTable(f[i]) = MergeAt(PgTable(f[i - 1]), id, seq[i])
      BY <1>3, <3>1, InsertMerges
    <3>3. i \in 0..n /\ i - 1 \in 0..n
      BY <1>3
    <3> QED BY <3>2, <3>3
  <2>4. F[n] = PgTable(v)
    BY <1>3, <2>1
  <2> HIDE DEF F, v
  <2>5. Inserts(F, PgTable(c), id, seq, n)
    BY <2>2, <2>3 DEF Inserts
  <2>6. /\ Keyed(PgTable(v)) /\ RowsOf(PgTable(v), id) = Rows(seq)
        /\ \A o : o # id => RowsOf(PgTable(v), o) = RowsOf(PgTable(c), o)
    BY <1>3, <1>4, <2>4, <2>5, InsertsShow
  <2>7. Keyed(v)
    BY <2>6 DEF Keyed, PgTable
  <2> QED BY <1>4, <2>6, <2>7
<1> HIDE DEF u, v
<1> QED BY <1>1, <1>2, <1>5, <1>6

-----------------------------------------------------------------------------
(* The order in which rows are read: they come back as distinct steps.     *)

\* Rows that bear their keys and began at different times.
WellRows(d) ==
  /\ d = [k \in DOMAIN d |-> d[k]]
  /\ \A k \in DOMAIN d : d[k] \in StepSet /\ Key(d[k]) = k
  /\ \A k, l \in DOMAIN d : d[k].started = d[l].started => k = l
RowSet(d) == {d[k] : k \in DOMAIN d}

LEMMA RowsWell ==
  ASSUME NEW s \in Seq(StepSet), NEW t, Dated(s, t)
  PROVE  WellRows(Rows(s)) /\ IsFiniteSet(RowSet(Rows(s)))
<1> DEFINE d == Rows(s)
           n == Len(s)
<1>1. n \in Nat /\ DOMAIN s = 1..n /\ \A i \in 1..n : s[i] \in StepSet
  OBVIOUS
<1>2. /\ \A m \in 1..n : Key(s[m]) \in DOMAIN d
      /\ \A k \in DOMAIN d : \E i, j \in 1..n : Spans(s, n, k, i, j) /\ d[k] = Updated(s[i], s[j])
  BY Zenon, RowsShow DEF Shows
<1>3. \A i, j \in 1..n : i < j => s[i].started < s[j].started
  BY <1>1 DEF Dated
<1>4. \A i \in 1..n : s[i].started \in Nat
  BY Zenon, <1>1 DEF StepSet
<1> HIDE DEF d, n
<1>5. ASSUME NEW k \in DOMAIN d
      PROVE  d[k] \in StepSet /\ Key(d[k]) = k /\ \E i \in 1..n : d[k].started = s[i].started /\ Key(s[i]) = k
  <2>1. PICK i, j \in 1..n : Spans(s, n, k, i, j) /\ d[k] = Updated(s[i], s[j])
    BY <1>2
  <2>2. Key(s[i]) = k /\ s[i] \in StepSet /\ s[j] \in StepSet
    BY <1>1, <2>1 DEF Spans
  <2> QED BY <2>1, <2>2, UpdatedIs
<1>6. ASSUME NEW k \in DOMAIN d, NEW l \in DOMAIN d, d[k].started = d[l].started PROVE k = l
  <2>1. PICK i \in 1..n : d[k].started = s[i].started /\ Key(s[i]) = k
    BY <1>5
  <2>2. PICK j \in 1..n : d[l].started = s[j].started /\ Key(s[j]) = l
    BY <1>5
  <2>3. s[i].started = s[j].started /\ s[i].started \in Nat
    BY Zenon, <1>4, <1>6, <2>1, <2>2
  <2>4. ~(i < j) /\ ~(j < i)
    BY <1>3, <2>3
  <2>5. i = j
    BY <1>1, <2>4
  <2> QED BY <2>1, <2>2, <2>5
<1>7. IsFiniteSet(RowSet(d))
  <2> DEFINE G(i) == {d[Key(s[m])] : m \in 1..i}
             T == {i \in 0..n : IsFiniteSet(G(i))}
  <2>0. /\ G(0) = {}
        /\ \A i \in 0..n - 1 : G(i + 1) = G(i) \cup {d[Key(s[i + 1])]} /\ i + 1 \in 0..n
    <3>1. \A i \in 0..n - 1 : 1..i + 1 = (1..i) \cup {i + 1} /\ i + 1 \in 0..n
      BY <1>1
    <3>2. 1..0 = {}
      OBVIOUS
    <3> QED BY <3>1, <3>2
  <2> HIDE DEF G
  <2>1. 0 \in T
    BY <1>1, <2>0, FS_EmptySet
  <2>2. ASSUME NEW i \in 0..n - 1, i \in T PROVE i + 1 \in T
    <3>1. IsFiniteSet(G(i))
      BY <2>2
    <3>2. IsFiniteSet(G(i) \cup {d[Key(s[i + 1])]})
      BY Zenon, <3>1, FS_AddElement
    <3> QED BY Zenon, <2>0, <3>2
  <2>3. n \in T
    <3> HIDE DEF T
    <3> QED BY <1>1, <2>1, <2>2, InductionTo
  <2>4. RowSet(d) = {d[Key(s[m])] : m \in 1..n}
    <3>1. ASSUME NEW k \in DOMAIN d PROVE \E m \in 1..n : d[k] = d[Key(s[m])]
      BY <1>5
    <3> QED BY <1>2, <3>1 DEF RowSet
  <2> QED BY <2>3, <2>4 DEF G
<1>8. d = [k \in DOMAIN d |-> d[k]]
  BY RowsShow DEF Shows, d
<1> QED BY <1>5, <1>6, <1>7, <1>8 DEF WellRows, d

\* The two orders in which steps are read.
ByTime(S) ==
  {p \in S \X S : \/ p[1].iteration < p[2].iteration
                  \/ p[1].iteration = p[2].iteration /\ p[1].started < p[2].started}
ByText(S) ==
  {p \in S \X S : \/ p[1].iteration < p[2].iteration
                  \/ p[1].iteration = p[2].iteration /\ Lite!TextBefore(p[1].started, p[2].started)}

LEMMA TextOrders ==
  /\ \A t \in Nat : ~Lite!TextBefore(t, t)
  /\ \A t, u \in Nat : t # u => Lite!TextBefore(t, u) \/ Lite!TextBefore(u, t)
  /\ \A t, u, v \in Nat : Lite!TextBefore(t, u) /\ Lite!TextBefore(u, v) => Lite!TextBefore(t, v)
<1>1. \A t \in Nat : /\ t \div 2 \in Nat /\ t % 2 \in Nat /\ t = 2 * (t \div 2) + (t % 2)
  OBVIOUS
<1>2. \A t, u \in Nat : Lite!TextBefore(t, u)
        <=> t \div 2 < u \div 2 \/ (t \div 2 = u \div 2 /\ t % 2 > u % 2)
  BY DEF Lite!TextBefore
<1>3. \A t, u \in Nat : t # u => t \div 2 # u \div 2 \/ t % 2 # u % 2
  BY <1>1
<1>4. \A t \in Nat : t \div 2 \in Int /\ t % 2 \in Int
  BY <1>1
<1> QED BY <1>2, <1>3, <1>4

LEMMA WellOrders ==
  ASSUME NEW d, WellRows(d)
  PROVE  IsOrder(ByTime(RowSet(d)), RowSet(d)) /\ IsOrder(ByText(RowSet(d)), RowSet(d))
<1> DEFINE S == RowSet(d)
<1>0. /\ \A k \in DOMAIN d : d[k].iteration \in Nat /\ d[k].started \in Nat
      /\ \A k, l \in DOMAIN d : d[k].started = d[l].started => k = l
  BY Zenon DEF WellRows, StepSet
<1>1. /\ \A x \in S : x.iteration \in Nat /\ x.started \in Nat
      /\ \A x, y \in S : x.started = y.started => x = y
  BY <1>0 DEF RowSet
<1> HIDE DEF S
<1>2. IsOrder(ByTime(S), S)
  <2>1. \A x, y \in S : <<x, y>> \in ByTime(S)
          <=> x.iteration < y.iteration \/ (x.iteration = y.iteration /\ x.started < y.started)
    BY DEF ByTime
  <2> QED BY <1>1, <2>1 DEF IsOrder
<1>3. IsOrder(ByText(S), S)
  <2>1. \A x, y \in S : <<x, y>> \in ByText(S)
          <=> x.iteration < y.iteration \/ (x.iteration = y.iteration /\ Lite!TextBefore(x.started, y.started))
    BY DEF ByText
  <2>2. \A x \in S : <<x, x>> \notin ByText(S)
    BY <1>1, <2>1, TextOrders
  <2>3. \A x, y \in S : x # y => <<x, y>> \in ByText(S) \/ <<y, x>> \in ByText(S)
    BY <1>1, <2>1, TextOrders
  <2>4. ASSUME NEW x \in S, NEW y \in S, NEW z \in S, <<x, y>> \in ByText(S), <<y, z>> \in ByText(S)
        PROVE  <<x, z>> \in ByText(S)
    <3>1. /\ x.iteration \in Nat /\ y.iteration \in Nat /\ z.iteration \in Nat
          /\ x.started \in Nat /\ y.started \in Nat /\ z.started \in Nat
      BY <1>1
    <3>2. CASE x.iteration = y.iteration /\ y.iteration = z.iteration
      <4>1. Lite!TextBefore(x.started, y.started) /\ Lite!TextBefore(y.started, z.started)
        BY <2>1, <2>4, <3>1, <3>2
      <4> QED BY <2>1, <3>1, <3>2, <4>1, TextOrders
    <3>3. CASE x.iteration # y.iteration \/ y.iteration # z.iteration
      BY <2>1, <2>4, <3>1, <3>3
    <3> QED BY <3>2, <3>3
  <2> QED BY <2>2, <2>3, <2>4 DEF IsOrder
<1> QED BY <1>2, <1>3 DEF S

LEMMA LoadOrders ==
  ASSUME NEW id
  PROVE  /\ Keyed(lite.steps) =>
              LET S == RowSet(RowsOf(LiteTable(lite.steps), id))
              IN  Lite!LoadProvenance(lite, id) = InOrder(S, ByText(S))
         /\ Keyed(pg.steps) =>
              LET S == RowSet(RowsOf(PgTable(pg.steps), id))
              IN  Pg!LoadProvenance(pg, id) = InOrder(S, ByTime(S))
<1>1. ASSUME Keyed(lite.steps)
      PROVE  LET S == RowSet(RowsOf(LiteTable(lite.steps), id))
             IN  Lite!LoadProvenance(lite, id) = InOrder(S, ByText(S))
  <2> DEFINE t == lite.steps
             S == RowSet(RowsOf(LiteTable(t), id))
             rows == {[t[x] EXCEPT !.err = Lite!DecodeJSON(@)] : x \in Lite!StepsOf(t, id)}
  <2>1. Lite!LoadProvenance(lite, id)
          = Lite!InOrder(rows, {p \in rows \X rows :
               \/ p[1].iteration < p[2].iteration
               \/ p[1].iteration = p[2].iteration /\ Lite!TextBefore(p[1].started, p[2].started)})
    BY DEF Lite!LoadProvenance, Lite!Ordered
  <2>2. S = rows
    <3>1. S = {LiteTable(t)[<<id, k[1], k[2]>>] : k \in RowKeys(LiteTable(t), id)}
      BY DEF RowSet, RowsOf
    <3>2. rows = {LiteTable(t)[x] : x \in {x \in DOMAIN t : x[1] = id}}
      BY Zenon DEF LiteTable, LiteRow, Lite!StepsOf
    <3>3. ASSUME NEW x \in DOMAIN t, x[1] = id
          PROVE  <<x[2], x[3]>> \in RowKeys(LiteTable(t), id) /\ x = <<id, x[2], x[3]>>
      BY <1>1, <3>3 DEF Keyed, RowKeys, LiteTable
    <3>4. ASSUME NEW k \in RowKeys(LiteTable(t), id)
          PROVE  <<id, k[1], k[2]>> \in DOMAIN t /\ <<id, k[1], k[2]>>[1] = id
      <4>1. Keyed(LiteTable(t)) /\ DOMAIN LiteTable(t) = DOMAIN t
        BY <1>1 DEF Keyed, LiteTable
      <4> QED BY <4>1, KeysOf
    <3> HIDE DEF t, S, rows
    <3>5. S \subseteq rows
      BY Zenon, <3>1, <3>2, <3>4
    <3>6. ASSUME NEW x \in DOMAIN t, x[1] = id PROVE LiteTable(t)[x] \in S
      <4> DEFINE k == <<x[2], x[3]>>
      <4>1. k \in RowKeys(LiteTable(t), id) /\ x = <<id, k[1], k[2]>>
        BY <3>3, <3>6
      <4> HIDE DEF k
      <4> QED BY Zenon, <3>1, <4>1
    <3> QED BY <3>2, <3>5, <3>6
  <2> HIDE DEF rows, S
  <2>3. Lite!LoadProvenance(lite, id) = InOrder(rows, ByText(rows))
    BY <2>1, SameInOrder DEF ByText
  <2> QED BY <2>2, <2>3 DEF S
<1>2. ASSUME Keyed(pg.steps)
      PROVE  LET S == RowSet(RowsOf(PgTable(pg.steps), id))
             IN  Pg!LoadProvenance(pg, id) = InOrder(S, ByTime(S))
  <2> DEFINE t == pg.steps
             S == RowSet(RowsOf(PgTable(t), id))
             rows == {[t[x] EXCEPT !.ref = Pg!StringOf(@), !.err = Pg!DecodeJSON(@)] : x \in Pg!RowsOf(t, id)}
  <2>1. Pg!LoadProvenance(pg, id)
          = Pg!InOrder(rows, {p \in rows \X rows :
               \/ p[1].iteration < p[2].iteration
               \/ p[1].iteration = p[2].iteration /\ Pg!Earlier(p[1].started, p[2].started)})
    BY DEF Pg!LoadProvenance, Pg!Ordered
  <2>2. S = rows
    <3>1. S = {PgTable(t)[<<id, k[1], k[2]>>] : k \in RowKeys(PgTable(t), id)}
      BY DEF RowSet, RowsOf
    <3>2. rows = {PgTable(t)[x] : x \in {x \in DOMAIN t : x[1] = id}}
      BY Zenon DEF PgTable, PgRow, Pg!RowsOf
    <3>3. ASSUME NEW x \in DOMAIN t, x[1] = id
          PROVE  <<x[2], x[3]>> \in RowKeys(PgTable(t), id) /\ x = <<id, x[2], x[3]>>
      BY <1>2, <3>3 DEF Keyed, RowKeys, PgTable
    <3>4. ASSUME NEW k \in RowKeys(PgTable(t), id)
          PROVE  <<id, k[1], k[2]>> \in DOMAIN t /\ <<id, k[1], k[2]>>[1] = id
      <4>1. Keyed(PgTable(t)) /\ DOMAIN PgTable(t) = DOMAIN t
        BY <1>2 DEF Keyed, PgTable
      <4> QED BY <4>1, KeysOf
    <3> HIDE DEF t, S, rows
    <3>5. S \subseteq rows
      BY Zenon, <3>1, <3>2, <3>4
    <3>6. ASSUME NEW x \in DOMAIN t, x[1] = id PROVE PgTable(t)[x] \in S
      <4> DEFINE k == <<x[2], x[3]>>
      <4>1. k \in RowKeys(PgTable(t), id) /\ x = <<id, k[1], k[2]>>
        BY <3>3, <3>6
      <4> HIDE DEF k
      <4> QED BY Zenon, <3>1, <4>1
    <3> QED BY <3>2, <3>5, <3>6
  <2> HIDE DEF rows, S
  <2>3. Pg!LoadProvenance(pg, id) = InOrder(rows, ByTime(rows))
    BY <2>1, SameInOrder DEF ByTime, Pg!Earlier
  <2> QED BY <2>2, <2>3 DEF S
<1> QED BY <1>1, <1>2

\* What is read back, in either order: each row once, and the same table when saved.
LEMMA LoadedRows ==
  ASSUME NEW d, WellRows(d), IsFiniteSet(RowSet(d)), NEW R, IsOrder(R, RowSet(d))
  PROVE  LET L == InOrder(RowSet(d), R)
         IN  L \in Seq(StepSet) /\ Rows(L) = d /\ ~StageTwice(L) /\ ToSet(L) = RowSet(d)
<1> DEFINE S == RowSet(d)
           L == InOrder(S, R)
           n == Cardinality(S)
<1>1. Lists(L, n, R, S)
  BY InOrderLists
<1>2. /\ \A k \in DOMAIN d : d[k] \in StepSet /\ Key(d[k]) = k
      /\ \A x \in S : x \in StepSet /\ Key(x) \in DOMAIN d /\ d[Key(x)] = x
  BY DEF WellRows, RowSet
<1>3. \A k \in DOMAIN d : d[k] \in S
  BY DEF RowSet
<1> HIDE DEF S, L, n
<1>4. /\ n \in Nat /\ L \in [1..n -> S]
      /\ \A x \in S : \E i \in 1..n : L[i] = x
      /\ \A i, j \in 1..n : i < j => <<L[i], L[j]>> \in R
  BY <1>1 DEF Lists
<1>5. \A i \in 1..n : L[i] \in S /\ L[i] \in StepSet
  BY <1>2, <1>4
<1>6. L \in Seq(StepSet) /\ Len(L) = n /\ DOMAIN L = 1..n
  BY <1>4, <1>5
<1>7. \A i, j \in 1..n : Key(L[i]) = Key(L[j]) => i = j
  <2> SUFFICES ASSUME NEW i \in 1..n, NEW j \in 1..n, Key(L[i]) = Key(L[j]) PROVE i = j
    OBVIOUS
  <2>1. L[i] = L[j] /\ L[i] \in S
    BY <1>2, <1>5
  <2>2. <<L[i], L[i]>> \notin R
    BY <2>1 DEF IsOrder, S
  <2>3. ~(i < j) /\ ~(j < i)
    BY <1>4, <2>1, <2>2
  <2> QED BY <1>4, <2>3
<1>8. ~StageTwice(L)
  BY <1>4, <1>6, <1>7 DEF StageTwice
<1>9. ToSet(L) = S
  BY <1>4, <1>5, <1>6 DEF ToSet
<1>10. Rows(L) = d
  <2> DEFINE D == Rows(L)
  <2>1. /\ \A m \in 1..n : Key(L[m]) \in DOMAIN D
        /\ \A k \in DOMAIN D : \E i, j \in 1..n : Spans(L, n, k, i, j) /\ D[k] = Updated(L[i], L[j])
    BY Zenon, <1>6, RowsShow DEF Shows
  <2>2. ASSUME NEW k \in DOMAIN D PROVE k \in DOMAIN d /\ D[k] = d[k]
    <3>1. PICK i, j \in 1..n : Spans(L, n, k, i, j) /\ D[k] = Updated(L[i], L[j])
      BY <2>1
    <3>2. Key(L[i]) = k /\ i = j
      BY <1>7, <3>1 DEF Spans
    <3>3. D[k] = L[i]
      BY <1>5, <3>1, <3>2, UpdatedIs
    <3> QED BY <1>2, <1>5, <3>2, <3>3
  <2>3. ASSUME NEW k \in DOMAIN d PROVE k \in DOMAIN D
    <3>1. PICK i \in 1..n : L[i] = d[k]
      BY <1>3, <1>4
    <3> QED BY <1>2, <2>1, <3>1
  <2>4. D = [k \in DOMAIN D |-> D[k]] /\ d = [k \in DOMAIN d |-> d[k]]
    BY <1>6, RowsShow DEF Shows, WellRows
  <2> QED BY <2>2, <2>3, <2>4
<1> QED BY <1>6, <1>8, <1>9, <1>10 DEF S, L

\* As long as no stage ran twice, what is read back is what was saved.
LEMMA UnrepeatedOrder ==
  ASSUME NEW s \in Seq(StepSet), NEW t, Dated(s, t), NEW m, Rising(s, m), ~StageTwice(s)
  PROVE  LET S == RowSet(Rows(s))
         IN  /\ S = ToSet(s) /\ InOrder(S, ByTime(S)) = s
             /\ TextFaithful({x.started : x \in ToSet(s)}) => InOrder(S, ByText(S)) = s
<1> DEFINE d == Rows(s)
           S == RowSet(d)
           n == Len(s)
<1>1. n \in Nat /\ DOMAIN s = 1..n /\ s \in [1..n -> StepSet] /\ \A i \in 1..n : s[i] \in StepSet
  OBVIOUS
<1>2. /\ \A i \in 1..n : Key(s[i]) \in DOMAIN d
      /\ \A k \in DOMAIN d : \E i, j \in 1..n : Spans(s, n, k, i, j) /\ d[k] = Updated(s[i], s[j])
  BY Zenon, RowsShow DEF Shows
<1>3. IsOrder(ByTime(S), S) /\ IsOrder(ByText(S), S)
  BY RowsWell, WellOrders
<1> HIDE DEF d, n
<1>4. \A i, j \in 1..n : i < j => s[i].started < s[j].started /\ s[i].iteration <= s[j].iteration
  BY <1>1 DEF Dated, Rising
<1>5. \A i, j \in 1..n : Key(s[i]) = Key(s[j]) => i = j
  <2>1. \A i, j \in 1..n : i < j => Key(s[i]) # Key(s[j])
    BY <1>1 DEF StageTwice
  <2> QED BY <1>1, <2>1
<1>6. \A i \in 1..n : s[i].started \in Nat /\ s[i].iteration \in Nat
  BY Zenon, <1>1 DEF StepSet
<1>7. ASSUME NEW k \in DOMAIN d PROVE \E i \in 1..n : Key(s[i]) = k /\ d[k] = s[i]
  <2>1. PICK i, j \in 1..n : Spans(s, n, k, i, j) /\ d[k] = Updated(s[i], s[j])
    BY <1>2
  <2>2. Key(s[i]) = k /\ i = j
    BY <1>5, <2>1 DEF Spans
  <2> QED BY <1>1, <2>1, <2>2, UpdatedIs
<1>8. S = {s[i] : i \in 1..n}
  <2>1. ASSUME NEW i \in 1..n PROVE s[i] \in S
    <3>1. PICK j \in 1..n : Key(s[j]) = Key(s[i]) /\ d[Key(s[i])] = s[j]
      BY Zenon, <1>2, <1>7
    <3> QED BY Zenon, <1>2, <1>5, <3>1 DEF RowSet
  <2>2. ASSUME NEW x \in S PROVE \E i \in 1..n : x = s[i]
    BY <1>7 DEF RowSet
  <2> QED BY <2>1, <2>2
<1>9. S = ToSet(s)
  BY <1>1, <1>8 DEF ToSet
<1> HIDE DEF S
<1>10. s \in [1..n -> S] /\ \A x \in S : \E i \in 1..n : s[i] = x
  BY <1>1, <1>8
<1>11. InOrder(S, ByTime(S)) = s
  <2>1. ASSUME NEW i \in 1..n, NEW j \in 1..n, i < j PROVE <<s[i], s[j]>> \in ByTime(S)
    <3>1. s[i] \in S /\ s[j] \in S
      BY <1>8
    <3>2. s[i].iteration < s[j].iteration \/ s[i].iteration = s[j].iteration
      BY <1>4, <1>6, <2>1
    <3> QED BY <1>4, <2>1, <3>1, <3>2 DEF ByTime
  <2>2. Lists(s, n, ByTime(S), S)
    BY <1>1, <1>10, <2>1 DEF Lists
  <2> QED BY <1>3, <2>2, ListedOnce
<1>12. ASSUME TextFaithful({x.started : x \in ToSet(s)}) PROVE InOrder(S, ByText(S)) = s
  <2>1. ASSUME NEW i \in 1..n, NEW j \in 1..n, i < j PROVE <<s[i], s[j]>> \in ByText(S)
    <3>1. s[i] \in S /\ s[j] \in S
      BY <1>8
    <3>2. s[i].iteration < s[j].iteration \/ s[i].iteration = s[j].iteration
      BY <1>4, <1>6, <2>1
    <3>3. Lite!TextBefore(s[i].started, s[j].started)
      BY <1>4, <1>9, <1>12, <2>1, <3>1 DEF TextFaithful
    <3> QED BY <3>1, <3>2, <3>3 DEF ByText
  <2>2. Lists(s, n, ByText(S), S)
    BY <1>1, <1>10, <2>1 DEF Lists
  <2> QED BY <1>3, <2>2, ListedOnce
<1> QED BY <1>9, <1>11, <1>12 DEF S, d

-----------------------------------------------------------------------------
(* A stored run as it is read.                                             *)

LEMMA GetParts ==
  ASSUME RecordInv, NEW id \in DOMAIN mem.runs
  PROVE  /\ GetRun(id)["mem"] = mem.runs[id]
         /\ GetRun(id)["lite"] = [Lite!ScanRun(lite.runs[id]) EXCEPT !.steps = Lite!LoadProvenance(lite, id)]
         /\ GetRun(id)["pg"] = [Pg!ScanRun(pg.runs[id]) EXCEPT !.steps = Pg!LoadProvenance(pg, id)]
<1>1. id \in DOMAIN lite.runs /\ id \in DOMAIN pg.runs
  BY DEF RecordInv, Shape
<1>2. GetRun(id)["mem"] = mem.runs[id]
  BY DEF GetRun, Backends, Mem!Get, Mem!Lookup
<1>3. GetRun(id)["lite"] = [Lite!ScanRun(lite.runs[id]) EXCEPT !.steps = Lite!LoadProvenance(lite, id)]
  BY <1>1 DEF GetRun, Backends, Lite!Get, Lite!SelectRun
<1>4. GetRun(id)["pg"] = [Pg!ScanRun(pg.runs[id]) EXCEPT !.steps = Pg!LoadProvenance(pg, id)]
  BY <1>1 DEF GetRun, Backends, Pg!Get
<1> QED BY <1>2, <1>3, <1>4

\* r with the steps s.
LEMMA AlikeSteps ==
  ASSUME NEW r, NEW q, Alike(r, q), NEW s
  PROVE  Alike([r EXCEPT !.steps = s], q) /\ [r EXCEPT !.steps = s].steps = s
<1>1. DOMAIN r = RunFields /\ "steps" \in RunFields
  BY DEF Alike, IsRun, RunFields
<1> DEFINE u == [r EXCEPT !.steps = s]
<1>2. u = [f \in RunFields |-> u[f]] /\ u["steps"] = s /\ \A f \in RunFields : f # "steps" => u[f] = r[f]
  BY <1>1
<1> HIDE DEF u
<1> QED BY <1>2 DEF Alike, IsRun, u

LEMMA GetLoads ==
  ASSUME RecordInv, NEW id \in DOMAIN mem.runs
  PROVE  LET g == GetRun(id)
             d == Rows(mem.runs[id].steps)
         IN  /\ Together(g) /\ WellRows(d) /\ IsFiniteSet(RowSet(d))
             /\ IsOrder(ByText(RowSet(d)), RowSet(d)) /\ IsOrder(ByTime(RowSet(d)), RowSet(d))
             /\ g["lite"].steps = InOrder(RowSet(d), ByText(RowSet(d)))
             /\ g["pg"].steps = InOrder(RowSet(d), ByTime(RowSet(d)))
<1> DEFINE g == GetRun(id)
           s == mem.runs[id].steps
           d == Rows(s)
<1>1. /\ RunOK(id, mem.runs[id], now)
      /\ Alike(Lite!ScanRun(lite.runs[id]), mem.runs[id])
      /\ Alike(Pg!ScanRun(pg.runs[id]), mem.runs[id])
      /\ RowsOf(LiteTable(lite.steps), id) = d
      /\ RowsOf(PgTable(pg.steps), id) = d
      /\ Keyed(lite.steps) /\ Keyed(pg.steps)
  BY DEF RecordInv, Shape, StoredOK, Fits
<1>2. s \in Seq(StepSet) /\ Dated(s, now) /\ IsRun(mem.runs[id])
  BY <1>1 DEF RunOK
<1>3. WellRows(d) /\ IsFiniteSet(RowSet(d))
  BY <1>2, RowsWell
<1>4. IsOrder(ByText(RowSet(d)), RowSet(d)) /\ IsOrder(ByTime(RowSet(d)), RowSet(d))
  BY <1>3, WellOrders
<1> HIDE DEF d
<1>5. /\ Lite!LoadProvenance(lite, id) = InOrder(RowSet(d), ByText(RowSet(d)))
      /\ Pg!LoadProvenance(pg, id) = InOrder(RowSet(d), ByTime(RowSet(d)))
  BY <1>1, LoadOrders
<1>6. /\ g["mem"] = mem.runs[id]
      /\ Alike(g["lite"], mem.runs[id]) /\ g["lite"].steps = InOrder(RowSet(d), ByText(RowSet(d)))
      /\ Alike(g["pg"], mem.runs[id]) /\ g["pg"].steps = InOrder(RowSet(d), ByTime(RowSet(d)))
  <2> DEFINE r == Lite!ScanRun(lite.runs[id])
             q == Pg!ScanRun(pg.runs[id])
             L == InOrder(RowSet(d), ByText(RowSet(d)))
             P == InOrder(RowSet(d), ByTime(RowSet(d)))
  <2>1. g["mem"] = mem.runs[id] /\ g["lite"] = [r EXCEPT !.steps = L] /\ g["pg"] = [q EXCEPT !.steps = P]
    BY <1>5, GetParts
  <2>2. Alike(r, mem.runs[id]) /\ Alike(q, mem.runs[id])
    BY <1>1
  <2> HIDE DEF r, q, L, P, g
  <2>3. Alike([r EXCEPT !.steps = L], mem.runs[id]) /\ [r EXCEPT !.steps = L].steps = L
    BY <2>2, AlikeSteps
  <2>4. Alike([q EXCEPT !.steps = P], mem.runs[id]) /\ [q EXCEPT !.steps = P].steps = P
    BY <2>2, AlikeSteps
  <2> QED BY <2>1, <2>3, <2>4 DEF L, P
<1>7. Alike(g["mem"], mem.runs[id])
  BY <1>2, <1>6 DEF Alike
<1>8. /\ g["lite"].steps \in Seq(StepSet) /\ Rows(g["lite"].steps) = d
      /\ g["pg"].steps \in Seq(StepSet) /\ Rows(g["pg"].steps) = d
  BY <1>3, <1>4, <1>6, LoadedRows
<1>9. Together(g)
  <2>1. g["mem"].steps \in Seq(StepSet) /\ Rows(g["mem"].steps) = d
    BY <1>2, <1>6 DEF d
  <2> HIDE DEF g
  <2> QED BY <1>6, <1>7, <1>8, <2>1 DEF Together, Backends
<1> QED BY <1>3, <1>4, <1>6, <1>9 DEF d

-----------------------------------------------------------------------------
(* What a call does to the stored runs.                                    *)

\* A call for another run leaves o alone in every backend.
RunStays(o) ==
  /\ mem'["runs"][o] = mem["runs"][o] /\ lite'["runs"][o] = lite["runs"][o] /\ pg'["runs"][o] = pg["runs"][o]
  /\ RowsOf(LiteTable(lite'["steps"]), o) = RowsOf(LiteTable(lite["steps"]), o)
  /\ RowsOf(PgTable(pg'["steps"]), o) = RowsOf(PgTable(pg["steps"]), o)

LEMMA EncodedAlike ==
  ASSUME NEW r, IsRun(r), r.err \in Errs, r.pending \in Decisions \cup {None}, NEW x, x = r.started
  PROVE  /\ Alike(Lite!ScanRun([Lite!RunRow(r) EXCEPT !.started = x]), r)
         /\ Alike(Lite!ScanRun(Lite!RunRow(r)), r)
         /\ Alike(Pg!ScanRun([r EXCEPT !.err = Pg!EncodeJSON(@), !.pending = Pg!EncodeJSON(@),
                                       !.steps = <<>>, !.started = x]), r)
         /\ Lite!RunRow(r).id = r.id
<1>1. /\ Lite!DecodeJSON(Lite!EncodeJSON(r.err)) = r.err /\ Pg!DecodeJSON(Pg!EncodeJSON(r.err)) = r.err
      /\ Lite!DecodeJSON(Lite!EncodeJSON(r.pending)) = r.pending
      /\ Pg!DecodeJSON(Pg!EncodeJSON(r.pending)) = r.pending
  BY Decoded DEF Errs
<1>2. DOMAIN r = RunFields
  BY DEF IsRun
<1>3. {"id", "err", "pending", "steps", "started"} \subseteq RunFields
  BY DEF RunFields
<1> DEFINE a == Lite!RunRow(r)
           b == [a EXCEPT !.started = x]
           c == [r EXCEPT !.err = Pg!EncodeJSON(@), !.pending = Pg!EncodeJSON(@), !.steps = <<>>, !.started = x]
<1>4. /\ DOMAIN a = RunFields /\ a["err"] = Lite!EncodeJSON(r.err) /\ a["pending"] = Lite!EncodeJSON(r.pending)
      /\ \A f \in RunFields \ {"err", "pending", "steps"} : a[f] = r[f]
  BY Zenon, <1>2, <1>3 DEF Lite!RunRow
<1> HIDE DEF a
<1>5. /\ DOMAIN b = RunFields /\ b["err"] = Lite!EncodeJSON(r.err) /\ b["pending"] = Lite!EncodeJSON(r.pending)
      /\ \A f \in RunFields \ {"err", "pending", "steps"} : b[f] = r[f]
  BY <1>3, <1>4
<1>6. /\ DOMAIN c = RunFields /\ c["err"] = Pg!EncodeJSON(r.err) /\ c["pending"] = Pg!EncodeJSON(r.pending)
      /\ \A f \in RunFields \ {"err", "pending", "steps"} : c[f] = r[f]
  BY Zenon, <1>2, <1>3
<1> HIDE DEF b, c
<1>7. ASSUME NEW y, DOMAIN y = RunFields, y["err"] = Lite!EncodeJSON(r.err), y["pending"] = Lite!EncodeJSON(r.pending),
             \A f \in RunFields \ {"err", "pending", "steps"} : y[f] = r[f]
      PROVE  Alike(Lite!ScanRun(y), r)
  <2> DEFINE z == Lite!ScanRun(y)
  <2>1. /\ z = [f \in RunFields |-> z[f]] /\ z["err"] = r.err /\ z["pending"] = r.pending
        /\ \A f \in RunFields \ {"err", "pending"} : z[f] = y[f]
    BY Zenon, <1>1, <1>3, <1>7 DEF Lite!ScanRun
  <2> HIDE DEF z
  <2>2. \A f \in RunFields \ {"steps", "updated"} : z[f] = r[f]
    BY <1>7, <2>1
  <2> QED BY <2>1, <2>2 DEF Alike, IsRun, z
<1>8. Alike(Pg!ScanRun(c), r)
  <2> DEFINE z == Pg!ScanRun(c)
  <2>1. /\ z = [f \in RunFields |-> z[f]] /\ z["err"] = r.err /\ z["pending"] = r.pending
        /\ \A f \in RunFields \ {"err", "pending"} : z[f] = c[f]
    BY Zenon, <1>1, <1>3, <1>6 DEF Pg!ScanRun
  <2> HIDE DEF z
  <2>2. \A f \in RunFields \ {"steps", "updated"} : z[f] = r[f]
    BY <1>6, <2>1
  <2> QED BY <2>1, <2>2 DEF Alike, IsRun, z
<1>9. Alike(Lite!ScanRun(a), r)
  BY <1>4, <1>7
<1>10. Alike(Lite!ScanRun(b), r)
  BY <1>5, <1>7
<1>11. a["id"] = r["id"]
  BY <1>3, <1>4
<1> QED BY <1>8, <1>9, <1>10, <1>11 DEF a, b, c

\* What SaveRun may be given: the same run thrice, which every store accepts.
Savable(id, h) ==
  /\ Together(h) /\ IsRun(h["mem"]) /\ h["mem"].id = id /\ h["mem"].status \in Status
  /\ h["mem"].err \in Errs /\ h["mem"].pending \in Decisions \cup {None}
  /\ h["mem"].status \in Terminal => h["mem"].completed # None
  /\ id \in DOMAIN mem.runs => h["mem"].started = mem.runs[id].started

LEMMA SavableParts ==
  ASSUME NEW id, NEW h, Savable(id, h), NEW b \in Backends
  PROVE  /\ IsRun(h[b]) /\ h[b].id = id /\ h[b].err \in Errs /\ h[b].pending \in Decisions \cup {None}
         /\ h[b].started = h["mem"].started
         /\ h[b].steps \in Seq(StepSet) /\ Rows(h[b].steps) = Rows(h["mem"].steps)
         /\ h[b].status \in Status /\ (h[b].status \in Terminal => h[b].completed # None)
         /\ Alike(h[b], h["mem"])
<1>1. Alike(h[b], h["mem"]) /\ h[b].steps \in Seq(StepSet) /\ Rows(h[b].steps) = Rows(h["mem"].steps)
  BY DEF Savable, Together
<1>2. \A f \in {"id", "err", "pending", "started", "status", "completed"} : h[b][f] = h["mem"][f]
  BY <1>1 DEF Alike, RunFields
<1> QED BY <1>1, <1>2 DEF Savable, Alike

LEMMA MemSaves ==
  ASSUME Shape, NEW id, NEW h, Savable(id, h), SaveRun(id, h)
  PROVE  /\ "runs" \in DOMAIN mem' /\ DOMAIN mem'["runs"] = DOMAIN mem["runs"] \cup {id}
         /\ mem'["runs"][id] = h["mem"]
         /\ \A o \in DOMAIN mem["runs"] : o # id => mem'["runs"][o] = mem["runs"][o]
<1>1. Mem!Validate(h["mem"]) /\ h["mem"].id = id
  BY DEF Savable, Mem!Validate, Mem!Status, Mem!Terminal, Mem!LoopStage, Status, Terminal, LoopStage
<1>2. mem' = [mem EXCEPT !.runs = Mem!Put(mem.runs, id, h["mem"])]
  BY <1>1 DEF SaveRun, Mem!Save
<1>3. mem'["runs"] = Mem!Put(mem["runs"], id, h["mem"]) /\ "runs" \in DOMAIN mem'
  BY <1>2 DEF Shape
<1> QED BY <1>3 DEF Mem!Put

LEMMA LiteSaves ==
  ASSUME Shape, NEW id, NEW h, Savable(id, h), SaveRun(id, h),
         id \in DOMAIN mem.runs => Fits(id)
  PROVE  /\ {"runs", "steps"} \subseteq DOMAIN lite' /\ DOMAIN lite'["runs"] = DOMAIN lite["runs"] \cup {id}
         /\ \A o \in DOMAIN lite["runs"] : o # id => lite'["runs"][o] = lite["runs"][o]
         /\ Alike(Lite!ScanRun(lite'["runs"][id]), h["mem"])
         /\ Keyed(lite'["steps"]) /\ RowsOf(LiteTable(lite'["steps"]), id) = Rows(h["mem"].steps)
         /\ \A o : o # id => RowsOf(LiteTable(lite'["steps"]), o) = RowsOf(LiteTable(lite["steps"]), o)
<1> DEFINE r == h["lite"]
           row == Lite!RunRow(r)
           kept == [row EXCEPT !.started = lite["runs"][id].started]
           table == LiteSaved(lite["steps"], id, r.steps)
<1>1. /\ IsRun(r) /\ r.id = id /\ r.err \in Errs /\ r.pending \in Decisions \cup {None}
      /\ r.started = h["mem"].started /\ r.steps \in Seq(StepSet) /\ Rows(r.steps) = Rows(h["mem"].steps)
      /\ r.status \in Status /\ (r.status \in Terminal => r.completed # None) /\ Alike(r, h["mem"])
  BY SavableParts DEF Backends
<1>2. Lite!Validate(r)
  BY <1>1 DEF Lite!Validate, Lite!Status, Lite!Terminal, Lite!LoopStage, Status, Terminal, LoopStage
<1>3. row.id = id /\ Alike(Lite!ScanRun(row), r)
  BY Zenon, <1>1, EncodedAlike
<1>4. lite' = [lite EXCEPT !.runs = Lite!UpsertRun(lite.runs, row), !.steps = table]
  <2>1. lite' = Lite!Save(lite, r)
    BY DEF SaveRun
  <2> HIDE DEF r
  <2> QED BY <1>1, <1>2, <2>1 DEF Lite!Save, LiteSaved
<1> HIDE DEF row, table
<1>5. /\ {"runs", "steps"} \subseteq DOMAIN lite' /\ lite'["steps"] = table
      /\ lite'["runs"] = Lite!UpsertRun(lite["runs"], row)
  BY <1>4 DEF Shape
<1>6. /\ DOMAIN lite'["runs"] = DOMAIN lite["runs"] \cup {id}
      /\ \A o \in DOMAIN lite["runs"] : o # id => lite'["runs"][o] = lite["runs"][o]
      /\ lite'["runs"][id] = IF id \in DOMAIN lite["runs"] THEN kept ELSE row
  BY <1>3, <1>5 DEF Lite!UpsertRun, Lite!Put
<1>7. id \in DOMAIN lite["runs"] => lite["runs"][id].started = r.started
  <2> SUFFICES ASSUME id \in DOMAIN lite["runs"] PROVE lite["runs"][id].started = r.started
    OBVIOUS
  <2>1. id \in DOMAIN mem.runs /\ Alike(Lite!ScanRun(lite.runs[id]), mem.runs[id])
    BY DEF Shape, Fits
  <2>2. Lite!ScanRun(lite.runs[id]).started = mem.runs[id].started
    BY <2>1 DEF Alike, RunFields
  <2>3. Lite!ScanRun(lite.runs[id]).started = lite.runs[id].started
    <3>1. DOMAIN Lite!ScanRun(lite.runs[id]) = RunFields
      BY <2>1 DEF Alike, IsRun
    <3>2. "started" \in DOMAIN lite.runs[id]
      BY <3>1 DEF Lite!ScanRun, RunFields
    <3> QED BY <3>2 DEF Lite!ScanRun
  <2> QED BY <1>1, <2>1, <2>2, <2>3 DEF Savable
<1>8. id \in DOMAIN lite["runs"] => Alike(Lite!ScanRun(kept), r)
  <2> HIDE DEF r
  <2> QED BY Zenon, <1>1, <1>7, EncodedAlike DEF row
<1>9. Alike(Lite!ScanRun(lite'["runs"][id]), h["mem"])
  <2>1. Alike(Lite!ScanRun(lite'["runs"][id]), r)
    BY <1>3, <1>6, <1>8
  <2> HIDE DEF r
  <2> QED BY <1>1, <2>1 DEF Alike
<1>10. /\ Keyed(table) /\ RowsOf(LiteTable(table), id) = Rows(r.steps)
       /\ \A o : o # id => RowsOf(LiteTable(table), o) = RowsOf(LiteTable(lite["steps"]), o)
  <2>1. Keyed(lite["steps"])
    BY DEF Shape
  <2> HIDE DEF r
  <2> QED BY <1>1, <2>1, SaveRows DEF table
<1> HIDE DEF r
<1> QED BY <1>1, <1>5, <1>6, <1>9, <1>10

LEMMA PgSaves ==
  ASSUME Shape, NEW id, NEW h, Savable(id, h), SaveRun(id, h),
         id \in DOMAIN mem.runs => Fits(id)
  PROVE  /\ {"runs", "steps"} \subseteq DOMAIN pg' /\ DOMAIN pg'["runs"] = DOMAIN pg["runs"] \cup {id}
         /\ \A o \in DOMAIN pg["runs"] : o # id => pg'["runs"][o] = pg["runs"][o]
         /\ Alike(Pg!ScanRun(pg'["runs"][id]), h["mem"])
         /\ Keyed(pg'["steps"]) /\ RowsOf(PgTable(pg'["steps"]), id) = Rows(h["mem"].steps)
         /\ \A o : o # id => RowsOf(PgTable(pg'["steps"]), o) = RowsOf(PgTable(pg["steps"]), o)
<1> DEFINE r == h["pg"]
           begun == IF id \in DOMAIN pg["runs"] THEN pg["runs"][id].started ELSE r.started
           row == [r EXCEPT !.err = Pg!EncodeJSON(@), !.pending = Pg!EncodeJSON(@), !.steps = <<>>,
                            !.started = begun]
           table == PgSaved(pg["steps"], id, r.steps)
<1>1. /\ IsRun(r) /\ r.id = id /\ r.err \in Errs /\ r.pending \in Decisions \cup {None}
      /\ r.started = h["mem"].started /\ r.steps \in Seq(StepSet) /\ Rows(r.steps) = Rows(h["mem"].steps)
      /\ r.status \in Status /\ (r.status \in Terminal => r.completed # None) /\ Alike(r, h["mem"])
  BY SavableParts DEF Backends
<1>2. Pg!Validate(r)
  BY <1>1 DEF Pg!Validate, Pg!Status, Pg!Terminal, Pg!LoopStage, Status, Terminal, LoopStage
<1>3. pg' = [pg EXCEPT !.runs = Pg!Put(pg.runs, id, row), !.steps = table]
  <2>1. pg' = Pg!Save(pg, r)
    BY DEF SaveRun
  <2>2. row = [r EXCEPT !.err = Pg!EncodeJSON(@), !.pending = Pg!EncodeJSON(@), !.steps = <<>>,
                 !.started = IF r.id \in DOMAIN pg.runs THEN pg.runs[r.id].started ELSE @]
    <3> HIDE DEF r
    <3> QED BY <1>1
  <2> HIDE DEF r, row
  <2> QED BY <1>1, <1>2, <2>1, <2>2 DEF Pg!Save, PgSaved
<1> HIDE DEF row, table, begun
<1>4. /\ {"runs", "steps"} \subseteq DOMAIN pg' /\ pg'["steps"] = table
      /\ pg'["runs"] = Pg!Put(pg["runs"], id, row)
  BY <1>3 DEF Shape
<1>5. /\ DOMAIN pg'["runs"] = DOMAIN pg["runs"] \cup {id}
      /\ \A o \in DOMAIN pg["runs"] : o # id => pg'["runs"][o] = pg["runs"][o]
      /\ pg'["runs"][id] = row
  BY <1>4 DEF Pg!Put
<1>6. begun = r.started
  <2> SUFFICES ASSUME id \in DOMAIN pg["runs"] PROVE pg["runs"][id].started = r.started
    BY DEF begun
  <2>1. id \in DOMAIN mem.runs /\ Alike(Pg!ScanRun(pg.runs[id]), mem.runs[id])
    BY DEF Shape, Fits
  <2>2. Pg!ScanRun(pg.runs[id]).started = mem.runs[id].started
    BY <2>1 DEF Alike, RunFields
  <2>3. Pg!ScanRun(pg.runs[id]).started = pg.runs[id].started
    <3>1. DOMAIN Pg!ScanRun(pg.runs[id]) = RunFields
      BY <2>1 DEF Alike, IsRun
    <3>2. "started" \in DOMAIN pg.runs[id]
      BY <3>1 DEF Pg!ScanRun, RunFields
    <3> QED BY <3>2 DEF Pg!ScanRun
  <2> QED BY <1>1, <2>1, <2>2, <2>3 DEF Savable
<1>7. Alike(Pg!ScanRun(row), r)
  <2> HIDE DEF r
  <2> QED BY Zenon, <1>1, <1>6, EncodedAlike DEF row
<1>8. Alike(Pg!ScanRun(pg'["runs"][id]), h["mem"])
  <2>1. Alike(Pg!ScanRun(pg'["runs"][id]), r)
    BY <1>5, <1>7
  <2> HIDE DEF r
  <2> QED BY <1>1, <2>1 DEF Alike
<1>9. /\ Keyed(table) /\ RowsOf(PgTable(table), id) = Rows(r.steps)
      /\ \A o : o # id => RowsOf(PgTable(table), o) = RowsOf(PgTable(pg["steps"]), o)
  <2>1. Keyed(pg["steps"])
    BY DEF Shape
  <2> HIDE DEF r
  <2> QED BY <1>1, <2>1, SaveRows DEF table
<1> HIDE DEF r
<1> QED BY <1>1, <1>4, <1>5, <1>8, <1>9

\* The stores have the right form, and only run id is another.
ShapeBut(id) ==
  /\ "runs" \in DOMAIN mem' /\ {"runs", "steps"} \subseteq DOMAIN lite' /\ {"runs", "steps"} \subseteq DOMAIN pg'
  /\ id \in Ids /\ id \in DOMAIN mem'["runs"] /\ DOMAIN mem'["runs"] = DOMAIN mem["runs"] \cup {id}
  /\ DOMAIN lite'["runs"] = DOMAIN mem'["runs"] /\ DOMAIN pg'["runs"] = DOMAIN mem'["runs"]
  /\ Keyed(lite'["steps"]) /\ Keyed(pg'["steps"])
  /\ \A o \in DOMAIN mem["runs"] : o # id => RunStays(o)

LEMMA SaveFits ==
  ASSUME Shape, NEW id \in Ids, NEW h, Savable(id, h), SaveRun(id, h),
         id \in DOMAIN mem.runs => Fits(id)
  PROVE  ShapeBut(id) /\ Fits(id)' /\ mem'["runs"][id] = h["mem"] /\ held' = [held EXCEPT ![id] = h]
<1>0. /\ DOMAIN lite["runs"] = DOMAIN mem["runs"] /\ DOMAIN pg["runs"] = DOMAIN mem["runs"]
  BY DEF Shape
<1>1. /\ "runs" \in DOMAIN mem' /\ DOMAIN mem'["runs"] = DOMAIN mem["runs"] \cup {id}
      /\ mem'["runs"][id] = h["mem"]
      /\ \A o \in DOMAIN mem["runs"] : o # id => mem'["runs"][o] = mem["runs"][o]
  BY MemSaves
<1>2. /\ {"runs", "steps"} \subseteq DOMAIN lite' /\ DOMAIN lite'["runs"] = DOMAIN lite["runs"] \cup {id}
      /\ \A o \in DOMAIN lite["runs"] : o # id => lite'["runs"][o] = lite["runs"][o]
      /\ Alike(Lite!ScanRun(lite'["runs"][id]), h["mem"])
      /\ Keyed(lite'["steps"]) /\ RowsOf(LiteTable(lite'["steps"]), id) = Rows(h["mem"].steps)
      /\ \A o : o # id => RowsOf(LiteTable(lite'["steps"]), o) = RowsOf(LiteTable(lite["steps"]), o)
  BY LiteSaves
<1>3. /\ {"runs", "steps"} \subseteq DOMAIN pg' /\ DOMAIN pg'["runs"] = DOMAIN pg["runs"] \cup {id}
      /\ \A o \in DOMAIN pg["runs"] : o # id => pg'["runs"][o] = pg["runs"][o]
      /\ Alike(Pg!ScanRun(pg'["runs"][id]), h["mem"])
      /\ Keyed(pg'["steps"]) /\ RowsOf(PgTable(pg'["steps"]), id) = Rows(h["mem"].steps)
      /\ \A o : o # id => RowsOf(PgTable(pg'["steps"]), o) = RowsOf(PgTable(pg["steps"]), o)
  BY PgSaves
<1>4. ASSUME NEW o \in DOMAIN mem["runs"], o # id PROVE RunStays(o)
  BY <1>0, <1>1, <1>2, <1>3, <1>4 DEF RunStays
<1>5. ShapeBut(id)
  BY <1>0, <1>1, <1>2, <1>3, <1>4 DEF ShapeBut
<1>6. Fits(id)'
  BY <1>1, <1>2, <1>3 DEF Fits
<1> QED BY <1>1, <1>5, <1>6 DEF SaveRun

LEMMA ScanStatus ==
  ASSUME NEW row, NEW r, IsRun(r), NEW st, NEW t
  PROVE  /\ Alike(Lite!ScanRun(row), r)
              => Alike(Lite!ScanRun([row EXCEPT !.status = st, !.updated = t]), [r EXCEPT !.status = st])
         /\ Alike(Pg!ScanRun(row), r)
              => Alike(Pg!ScanRun([row EXCEPT !.status = st, !.updated = t]), [r EXCEPT !.status = st])
         /\ Alike(Lite!ScanRun(row), r) => Alike(Lite!ScanRun([row EXCEPT !.updated = t]), r)
         /\ Alike(Pg!ScanRun(row), r) => Alike(Pg!ScanRun([row EXCEPT !.updated = t]), r)
<1> DEFINE q == [r EXCEPT !.status = st]
           w == [row EXCEPT !.status = st, !.updated = t]
           y == [row EXCEPT !.updated = t]
<1>1. DOMAIN r = RunFields /\ {"status", "updated", "err", "pending"} \subseteq RunFields
  BY DEF IsRun, RunFields
<1>2. q["status"] = st /\ \A f \in RunFields : f # "status" => q[f] = r[f]
  BY <1>1
<1> HIDE DEF q
<1>3. ASSUME Alike(Lite!ScanRun(row), r)
      PROVE  Alike(Lite!ScanRun(w), q) /\ Alike(Lite!ScanRun(y), r)
  <2> DEFINE a == Lite!ScanRun(row)
             b == Lite!ScanRun(w)
             c == Lite!ScanRun(y)
  <2>1. DOMAIN row = RunFields
    BY Zenon, <1>3 DEF Alike, IsRun, Lite!ScanRun
  <2>2. /\ DOMAIN w = RunFields /\ w["status"] = st /\ DOMAIN y = RunFields
        /\ \A f \in RunFields : f \notin {"status", "updated"} => w[f] = row[f]
        /\ \A f \in RunFields : f # "updated" => y[f] = row[f]
    BY Zenon, <1>1, <2>1
  <2> HIDE DEF w, y
  <2>3. /\ b = [f \in RunFields |-> b[f]] /\ c = [f \in RunFields |-> c[f]] /\ b["status"] = st
        /\ \A f \in RunFields \ {"steps", "updated"} : f # "status" => b[f] = a[f]
        /\ \A f \in RunFields \ {"steps", "updated"} : c[f] = a[f]
    BY Zenon, <1>1, <2>1, <2>2 DEF Lite!ScanRun
  <2>4. \A f \in RunFields \ {"steps", "updated"} : a[f] = r[f]
    BY <1>3 DEF Alike
  <2> HIDE DEF a, b, c
  <2> QED BY <1>2, <2>3, <2>4 DEF Alike, IsRun, b, c
<1>4. ASSUME Alike(Pg!ScanRun(row), r)
      PROVE  Alike(Pg!ScanRun(w), q) /\ Alike(Pg!ScanRun(y), r)
  <2> DEFINE a == Pg!ScanRun(row)
             b == Pg!ScanRun(w)
             c == Pg!ScanRun(y)
  <2>1. DOMAIN row = RunFields
    BY Zenon, <1>4 DEF Alike, IsRun, Pg!ScanRun
  <2>2. /\ DOMAIN w = RunFields /\ w["status"] = st /\ DOMAIN y = RunFields
        /\ \A f \in RunFields : f \notin {"status", "updated"} => w[f] = row[f]
        /\ \A f \in RunFields : f # "updated" => y[f] = row[f]
    BY Zenon, <1>1, <2>1
  <2> HIDE DEF w, y
  <2>3. /\ b = [f \in RunFields |-> b[f]] /\ c = [f \in RunFields |-> c[f]] /\ b["status"] = st
        /\ \A f \in RunFields \ {"steps", "updated"} : f # "status" => b[f] = a[f]
        /\ \A f \in RunFields \ {"steps", "updated"} : c[f] = a[f]
    BY Zenon, <1>1, <2>1, <2>2 DEF Pg!ScanRun
  <2>4. \A f \in RunFields \ {"steps", "updated"} : a[f] = r[f]
    BY <1>4 DEF Alike
  <2> HIDE DEF a, b, c
  <2> QED BY <1>2, <2>3, <2>4 DEF Alike, IsRun, b, c
<1> QED BY <1>3, <1>4 DEF q

LEMMA StatusFits ==
  ASSUME Shape, NEW id \in DOMAIN mem.runs, IsRun(mem.runs[id]), Fits(id), NEW st, SetStatus(id, st)
  PROVE  ShapeBut(id) /\ Fits(id)' /\ mem'["runs"][id] = [mem["runs"][id] EXCEPT !.status = st]
<1>0. id \in DOMAIN lite.runs /\ id \in DOMAIN pg.runs /\ id \in Ids
  BY DEF Shape
<1>1. /\ mem' = [mem EXCEPT !.runs[id].status = st]
      /\ lite' = [lite EXCEPT !.runs[id].status = st, !.runs[id].updated = now]
      /\ pg' = [pg EXCEPT !.runs[id].status = st, !.runs[id].updated = now]
  BY <1>0 DEF SetStatus, Mem!UpdateStatus, Lite!UpdateStatus, Pg!UpdateStatus
<1>2. /\ "runs" \in DOMAIN mem' /\ DOMAIN mem'["runs"] = DOMAIN mem["runs"]
      /\ mem'["runs"][id] = [mem["runs"][id] EXCEPT !.status = st]
      /\ \A o \in DOMAIN mem["runs"] : o # id => mem'["runs"][o] = mem["runs"][o]
  BY <1>1 DEF Shape
<1>3. /\ {"runs", "steps"} \subseteq DOMAIN lite' /\ lite'["steps"] = lite["steps"]
      /\ DOMAIN lite'["runs"] = DOMAIN lite["runs"]
      /\ lite'["runs"][id] = [lite["runs"][id] EXCEPT !.status = st, !.updated = now]
      /\ \A o \in DOMAIN lite["runs"] : o # id => lite'["runs"][o] = lite["runs"][o]
  BY Zenon, <1>0, <1>1 DEF Shape
<1>4. /\ {"runs", "steps"} \subseteq DOMAIN pg' /\ pg'["steps"] = pg["steps"]
      /\ DOMAIN pg'["runs"] = DOMAIN pg["runs"]
      /\ pg'["runs"][id] = [pg["runs"][id] EXCEPT !.status = st, !.updated = now]
      /\ \A o \in DOMAIN pg["runs"] : o # id => pg'["runs"][o] = pg["runs"][o]
  BY Zenon, <1>0, <1>1 DEF Shape
<1>a. /\ DOMAIN lite["runs"] = DOMAIN mem["runs"] /\ DOMAIN pg["runs"] = DOMAIN mem["runs"]
      /\ Keyed(lite["steps"]) /\ Keyed(pg["steps"])
  BY DEF Shape
<1>b. ASSUME NEW o \in DOMAIN mem["runs"], o # id PROVE RunStays(o)
  BY <1>2, <1>3, <1>4, <1>a, <1>b DEF RunStays
<1>5. ShapeBut(id)
  BY <1>0, <1>2, <1>3, <1>4, <1>a, <1>b DEF ShapeBut
<1>6. mem'["runs"][id].steps = mem["runs"][id].steps
  BY <1>2 DEF IsRun, RunFields
<1>7. Fits(id)'
  <2>1. /\ Alike(Lite!ScanRun(lite["runs"][id]), mem["runs"][id])
        /\ Alike(Pg!ScanRun(pg["runs"][id]), mem["runs"][id])
        /\ RowsOf(LiteTable(lite["steps"]), id) = Rows(mem["runs"][id].steps)
        /\ RowsOf(PgTable(pg["steps"]), id) = Rows(mem["runs"][id].steps)
    BY DEF Fits
  <2>2. /\ Alike(Lite!ScanRun(lite'["runs"][id]), mem'["runs"][id])
        /\ Alike(Pg!ScanRun(pg'["runs"][id]), mem'["runs"][id])
    <3> DEFINE r == mem["runs"][id]
               a == lite["runs"][id]
               b == pg["runs"][id]
    <3>1. /\ IsRun(r) /\ Alike(Lite!ScanRun(a), r) /\ Alike(Pg!ScanRun(b), r)
          /\ mem'["runs"][id] = [r EXCEPT !.status = st]
          /\ lite'["runs"][id] = [a EXCEPT !.status = st, !.updated = now]
          /\ pg'["runs"][id] = [b EXCEPT !.status = st, !.updated = now]
      BY <1>2, <1>3, <1>4, <2>1
    <3> HIDE DEF r, a, b
    <3>2. Alike(Lite!ScanRun([a EXCEPT !.status = st, !.updated = now]), [r EXCEPT !.status = st])
      BY Zenon, <3>1, ScanStatus
    <3>3. Alike(Pg!ScanRun([b EXCEPT !.status = st, !.updated = now]), [r EXCEPT !.status = st])
      BY Zenon, <3>1, ScanStatus
    <3> QED BY <3>1, <3>2, <3>3
  <2> QED BY <1>3, <1>4, <1>6, <2>1, <2>2 DEF Fits
<1> QED BY <1>2, <1>5, <1>7

LEMMA AppendFits ==
  ASSUME Shape, NEW id \in DOMAIN mem.runs, IsRun(mem.runs[id]), NEW e \in StepSet,
         mem.runs[id].steps \in Seq(StepSet), Fits(id),
         mem' = Mem!AppendProvenance(mem, id, e),
         lite' = Lite!AppendProvenance(lite, id, e), pg' = Pg!AppendProvenance(pg, id, e)
  PROVE  ShapeBut(id) /\ Fits(id)' /\ mem'["runs"][id] = AppendStep(mem["runs"][id], e)
<1> DEFINE r == mem["runs"][id]
           q == AppendStep(r, e)
           a == lite["runs"][id]
           b == pg["runs"][id]
           L == Lite!InsertStep(lite["steps"], id, e)
           P == Pg!InsertStep(pg["steps"], id, e)
<1>0. /\ id \in DOMAIN lite.runs /\ id \in DOMAIN pg.runs /\ id \in Ids
      /\ DOMAIN lite["runs"] = DOMAIN mem["runs"] /\ DOMAIN pg["runs"] = DOMAIN mem["runs"]
      /\ Keyed(lite["steps"]) /\ Keyed(pg["steps"])
  BY DEF Shape
<1>1. /\ mem' = [mem EXCEPT !.runs = Mem!Put(mem.runs, id, q)]
      /\ lite' = [lite EXCEPT !.steps = L, !.runs[id].updated = e.completed]
      /\ pg' = [pg EXCEPT !.steps = P, !.runs[id].updated = e.completed]
  BY <1>0 DEF Mem!AppendProvenance, Lite!AppendProvenance, Pg!AppendProvenance, Mem!AppendStep, AppendStep
<1> HIDE DEF L, P, q
<1>2. /\ "runs" \in DOMAIN mem' /\ DOMAIN mem'["runs"] = DOMAIN mem["runs"] /\ mem'["runs"][id] = q
      /\ \A o \in DOMAIN mem["runs"] : o # id => mem'["runs"][o] = mem["runs"][o]
  <2>1. mem'["runs"] = Mem!Put(mem["runs"], id, q) /\ "runs" \in DOMAIN mem'
    BY <1>1 DEF Shape
  <2> QED BY <2>1 DEF Mem!Put
<1>3. /\ {"runs", "steps"} \subseteq DOMAIN lite' /\ lite'["steps"] = L
      /\ DOMAIN lite'["runs"] = DOMAIN lite["runs"]
      /\ lite'["runs"][id] = [a EXCEPT !.updated = e.completed]
      /\ \A o \in DOMAIN lite["runs"] : o # id => lite'["runs"][o] = lite["runs"][o]
  BY <1>0, <1>1 DEF Shape
<1>4. /\ {"runs", "steps"} \subseteq DOMAIN pg' /\ pg'["steps"] = P
      /\ DOMAIN pg'["runs"] = DOMAIN pg["runs"]
      /\ pg'["runs"][id] = [b EXCEPT !.updated = e.completed]
      /\ \A o \in DOMAIN pg["runs"] : o # id => pg'["runs"][o] = pg["runs"][o]
  BY <1>0, <1>1 DEF Shape
<1>5. /\ Keyed(L) /\ RowsOf(LiteTable(L), id) = Merge(RowsOf(LiteTable(lite["steps"]), id), e)
      /\ \A o : o # id => RowsOf(LiteTable(L), o) = RowsOf(LiteTable(lite["steps"]), o)
  <2> DEFINE d == LiteTable(lite["steps"])
  <2>1. Keyed(d) /\ DOMAIN LiteTable(L) = DOMAIN L /\ LiteTable(L) = MergeAt(d, id, e)
    BY <1>0, InsertMerges DEF Keyed, LiteTable, L
  <2> HIDE DEF d
  <2>2. Keyed(LiteTable(L)) => Keyed(L)
    BY <2>1 DEF Keyed
  <2> QED BY <2>1, <2>2, KeyedMerge DEF d
<1>6. /\ Keyed(P) /\ RowsOf(PgTable(P), id) = Merge(RowsOf(PgTable(pg["steps"]), id), e)
      /\ \A o : o # id => RowsOf(PgTable(P), o) = RowsOf(PgTable(pg["steps"]), o)
  <2> DEFINE d == PgTable(pg["steps"])
  <2>1. Keyed(d) /\ DOMAIN PgTable(P) = DOMAIN P /\ PgTable(P) = MergeAt(d, id, e)
    BY <1>0, InsertMerges DEF Keyed, PgTable, P
  <2> HIDE DEF d
  <2>2. Keyed(PgTable(P)) => Keyed(P)
    BY <2>1 DEF Keyed
  <2> QED BY <2>1, <2>2, KeyedMerge DEF d
<1>7. ASSUME NEW o \in DOMAIN mem["runs"], o # id PROVE RunStays(o)
  BY <1>0, <1>2, <1>3, <1>4, <1>5, <1>6, <1>7 DEF RunStays
<1>8. ShapeBut(id)
  BY <1>0, <1>2, <1>3, <1>4, <1>5, <1>6, <1>7 DEF ShapeBut
<1>9. Fits(id)'
  <2>1. /\ Alike(Lite!ScanRun(a), r) /\ Alike(Pg!ScanRun(b), r) /\ IsRun(r) /\ r["steps"] \in Seq(StepSet)
        /\ RowsOf(LiteTable(lite["steps"]), id) = Rows(r["steps"])
        /\ RowsOf(PgTable(pg["steps"]), id) = Rows(r["steps"])
    BY DEF Fits
  <2> HIDE DEF r, a, b
  <2>2. /\ \A f \in RunFields : f \notin {"steps", "updated"} => q[f] = r[f]
        /\ q["steps"] = Append(r["steps"], e)
    BY <2>1 DEF q, AppendStep, IsRun, RunFields
  <2>3. Alike(Lite!ScanRun([a EXCEPT !.updated = e.completed]), r)
    BY Zenon, <2>1, ScanStatus
  <2>4. Alike(Pg!ScanRun([b EXCEPT !.updated = e.completed]), r)
    BY Zenon, <2>1, ScanStatus
  <2>5. Alike(Lite!ScanRun(lite'["runs"][id]), q) /\ Alike(Pg!ScanRun(pg'["runs"][id]), q)
    BY <1>3, <1>4, <2>2, <2>3, <2>4 DEF Alike
  <2>6. Rows(q["steps"]) = Merge(Rows(r["steps"]), e)
    BY <2>1, <2>2, RowsAppend
  <2> QED BY <1>2, <1>3, <1>4, <1>5, <1>6, <2>1, <2>5, <2>6 DEF Fits
<1> QED BY <1>2, <1>8, <1>9 DEF q

-----------------------------------------------------------------------------
(* The runs a call leaves alone.                                           *)

LEMMA RunOKLater ==
  ASSUME NEW t \in Nat, NEW u \in Nat, t <= u, NEW id, NEW r, RunOK(id, r, t)
  PROVE  RunOK(id, r, u)
<1>1. r.started \in Nat /\ r.started < t /\ r.steps \in Seq(StepSet) /\ Dated(r.steps, t)
  BY DEF RunOK
<1>2. \A i \in DOMAIN r.steps : r.steps[i].started \in Nat
  <2> DEFINE s == r.steps
  <2>1. \A x \in StepSet : x.started \in Nat
    BY Zenon DEF StepSet
  <2>2. \A i \in DOMAIN s : s[i] \in StepSet
    <3>1. s \in Seq(StepSet)
      BY <1>1
    <3> HIDE DEF s
    <3> QED BY <3>1
  <2> QED BY <2>1, <2>2
<1>3. Dated(r.steps, u) /\ r.started < u
  BY <1>1, <1>2 DEF Dated
<1> QED BY <1>3 DEF RunOK

LEMMA OthersKeep ==
  ASSUME RecordInv, now \in Nat, now' \in Nat, now <= now',
         NEW o \in DOMAIN mem.runs, RunStays(o), o \in DOMAIN mem'["runs"],
         at'[o] = at[o], held'[o] = held[o]
  PROVE  StoredOK(o)' /\ (at'[o] # Away => HeldOK(o)')
<1>1. StoredOK(o) /\ o \in Ids
  BY DEF RecordInv, Shape
<1>2. mem'["runs"][o] = mem["runs"][o]
  BY DEF RunStays
<1>3. RunOK(o, mem'["runs"][o], now')
  BY <1>1, <1>2, RunOKLater DEF StoredOK
<1>4. Fits(o)'
  BY <1>1 DEF StoredOK, Fits, RunStays
<1>5. StoredOK(o)'
  BY <1>1, <1>2, <1>3, <1>4 DEF StoredOK
<1>6. ASSUME at'[o] # Away PROVE HeldOK(o)'
  <2>1. HeldOK(o)
    BY <1>1, <1>6 DEF RecordInv
  <2>2. RunOK(o, held[o]["mem"], now')
    BY <2>1, RunOKLater DEF HeldOK
  <2> QED BY <1>2, <2>1, <2>2 DEF HeldOK
<1> QED BY <1>5, <1>6

LEMMA OneRun ==
  ASSUME RecordInv, now \in Nat, now' \in Nat, now <= now', NEW id \in Ids, ShapeBut(id),
         DOMAIN at' = Ids, DOMAIN held' = Ids,
         \A o \in Ids : o # id => at'[o] = at[o] /\ held'[o] = held[o],
         \A o \in DOMAIN mem.runs : o # id => mem.runs[o].started # mem'["runs"][id].started,
         StoredOK(id)', at'[id] # Away => HeldOK(id)'
  PROVE  RecordInv'
<1>0. /\ DOMAIN mem'["runs"] = DOMAIN mem["runs"] \cup {id} /\ id \in DOMAIN mem'["runs"]
      /\ DOMAIN mem["runs"] \subseteq Ids
      /\ \A o \in DOMAIN mem["runs"] : o # id => RunStays(o)
  BY DEF ShapeBut, RecordInv, Shape
<1>1. Shape'
  <2>1. IsFiniteSet(DOMAIN mem'["runs"])
    BY <1>0, FS_AddElement DEF RecordInv, Shape
  <2> QED BY <1>0, <2>1 DEF ShapeBut, Shape
<1>2. ASSUME NEW o \in DOMAIN mem["runs"], o # id
      PROVE  StoredOK(o)' /\ (at'[o] # Away => HeldOK(o)') /\ mem'["runs"][o] = mem["runs"][o]
  BY <1>0, <1>2, OthersKeep DEF RunStays
<1>3. \A o \in DOMAIN mem'["runs"] : StoredOK(o)'
  BY <1>0, <1>2
<1>4. \A o \in Ids : at'[o] # Away => HeldOK(o)'
  <2> SUFFICES ASSUME NEW o \in Ids, at'[o] # Away, o # id PROVE HeldOK(o)'
    OBVIOUS
  <2>1. o \in DOMAIN mem["runs"]
    BY DEF RecordInv, HeldOK
  <2> QED BY <1>2, <2>1
<1>5. \A i, o \in DOMAIN mem'["runs"] : i # o => mem'["runs"][i].started # mem'["runs"][o].started
  <2>1. \A i, o \in DOMAIN mem["runs"] : i # o => mem["runs"][i].started # mem["runs"][o].started
    BY DEF RecordInv
  <2> QED BY <1>0, <1>2, <2>1
<1> QED BY <1>1, <1>3, <1>4, <1>5 DEF RecordInv

\* The calls that touch no run.
LEMMA NoRun ==
  ASSUME RecordInv, now \in Nat, now' \in Nat, now <= now', UNCHANGED <<at, held>>,
         "runs" \in DOMAIN mem', {"runs", "steps"} \subseteq DOMAIN lite',
         {"runs", "steps"} \subseteq DOMAIN pg', mem'["runs"] = mem["runs"],
         lite'["runs"] = lite["runs"], lite'["steps"] = lite["steps"],
         pg'["runs"] = pg["runs"], pg'["steps"] = pg["steps"]
  PROVE  RecordInv'
<1>1. Shape'
  BY DEF RecordInv, Shape
<1>2. ASSUME NEW o \in DOMAIN mem["runs"]
      PROVE  StoredOK(o)' /\ (at'[o] # Away => HeldOK(o)')
  <2>1. RunStays(o)
    BY DEF RunStays
  <2> QED BY <2>1, OthersKeep
<1>3. \A o \in DOMAIN mem'["runs"] : StoredOK(o)'
  BY <1>2
<1>4. \A o \in Ids : at'[o] # Away => HeldOK(o)'
  <2> SUFFICES ASSUME NEW o \in Ids, at'[o] # Away PROVE HeldOK(o)'
    OBVIOUS
  <2>1. o \in DOMAIN mem["runs"]
    BY DEF RecordInv, HeldOK
  <2> QED BY <1>2, <2>1
<1> QED BY <1>1, <1>3, <1>4 DEF RecordInv

-----------------------------------------------------------------------------
(* What the engine does to its copies.                                     *)

\* q is r but for the fields in F.
Edited(q, r, F) == IsRun(q) /\ \A f \in RunFields \ F : q[f] = r[f]

LEMMA RunEdits ==
  ASSUME NEW r, IsRun(r)
  PROVE  /\ \A st, t : LET q == [r EXCEPT !.status = st, !.updated = t]
                       IN  Edited(q, r, {"status", "updated"}) /\ q.status = st
         /\ \A st : LET q == [r EXCEPT !.status = st]
                    IN  Edited(q, r, {"status"}) /\ q.status = st
         /\ \A st, p : LET q == [r EXCEPT !.status = st, !.pending = p]
                       IN  Edited(q, r, {"status", "pending"}) /\ q.status = st /\ q.pending = p
         /\ \A p : LET q == [r EXCEPT !.pending = p]
                   IN  Edited(q, r, {"pending"}) /\ q.pending = p
         /\ \A st, t : LET q == [r EXCEPT !.iteration = @ + 1, !.status = st, !.updated = t]
                       IN  Edited(q, r, {"iteration", "status", "updated"}) /\ q.status = st
                           /\ q.iteration = r.iteration + 1
         /\ \A e : LET q == AppendStep(r, e)
                   IN  Edited(q, r, {"steps", "updated"}) /\ q.steps = Append(r.steps, e)
<1>1. /\ DOMAIN r = RunFields
      /\ {"status", "updated", "pending", "iteration", "steps"} \subseteq RunFields
  BY DEF IsRun, RunFields
<1>2. ASSUME NEW st, NEW t
      PROVE  LET q == [r EXCEPT !.status = st, !.updated = t]
             IN  Edited(q, r, {"status", "updated"}) /\ q.status = st
  BY Zenon, <1>1 DEF Edited, IsRun
<1>3. ASSUME NEW st
      PROVE  LET q == [r EXCEPT !.status = st]
             IN  Edited(q, r, {"status"}) /\ q.status = st
  BY <1>1 DEF Edited, IsRun
<1>4. ASSUME NEW st, NEW p
      PROVE  LET q == [r EXCEPT !.status = st, !.pending = p]
             IN  Edited(q, r, {"status", "pending"}) /\ q.status = st /\ q.pending = p
  BY Zenon, <1>1 DEF Edited, IsRun
<1>5. ASSUME NEW p
      PROVE  LET q == [r EXCEPT !.pending = p]
             IN  Edited(q, r, {"pending"}) /\ q.pending = p
  BY <1>1 DEF Edited, IsRun
<1>6. ASSUME NEW st, NEW t
      PROVE  LET q == [r EXCEPT !.iteration = @ + 1, !.status = st, !.updated = t]
             IN  Edited(q, r, {"iteration", "status", "updated"}) /\ q.status = st
                 /\ q.iteration = r.iteration + 1
  BY Zenon, <1>1 DEF Edited, IsRun
<1>7. ASSUME NEW e
      PROVE  LET q == AppendStep(r, e)
             IN  Edited(q, r, {"steps", "updated"}) /\ q.steps = Append(r.steps, e)
  BY Zenon, <1>1 DEF Edited, IsRun, AppendStep
<1> QED BY Zenon, <1>2, <1>3, <1>4, <1>5, <1>6, <1>7

LEMMA FinishEdits ==
  ASSUME NEW r, IsRun(r), NEW st, NEW t
  PROVE  LET q == [CompleteRun(r, st, t) EXCEPT !.err = IF st = "failed" THEN "layer_call_failed" ELSE @]
         IN  /\ Edited(q, r, {"status", "updated", "completed", "err"}) /\ q.status = st /\ q.completed = t
             /\ q.err = IF st = "failed" THEN "layer_call_failed" ELSE r.err
<1>1. DOMAIN r = RunFields /\ {"status", "updated", "completed", "err"} \subseteq RunFields
  BY DEF IsRun, RunFields
<1> QED BY Zenon, <1>1 DEF Edited, IsRun, CompleteRun

\* The copies stay together when each is edited in the same way.
LEMMA TogetherEdited ==
  ASSUME NEW h, Together(h), NEW g, NEW F \in SUBSET RunFields, "steps" \notin F,
         \A b \in Backends : Edited(g[b], h[b], F),
         \A b \in Backends : \A f \in F \ {"updated"} : g[b][f] = g["mem"][f]
  PROVE  Together(g)
<1> SUFFICES ASSUME NEW b \in Backends
             PROVE  /\ Alike(g[b], g["mem"])
                    /\ g[b].steps \in Seq(StepSet) /\ Rows(g[b].steps) = Rows(g["mem"].steps)
  BY DEF Together
<1>1. "mem" \in Backends /\ Edited(g[b], h[b], F) /\ Edited(g["mem"], h["mem"], F)
  BY DEF Backends
<1>2. /\ \A f \in RunFields \ {"steps", "updated"} : h[b][f] = h["mem"][f]
      /\ h[b].steps \in Seq(StepSet) /\ Rows(h[b].steps) = Rows(h["mem"].steps)
  BY DEF Together, Alike
<1>3. \A f \in RunFields \ {"steps", "updated"} : g[b][f] = g["mem"][f]
  <2> TAKE f \in RunFields \ {"steps", "updated"}
  <2>1. CASE f \in F
    BY <2>1
  <2>2. CASE f \notin F
    BY <1>1, <1>2, <2>2 DEF Edited
  <2> QED BY <2>1, <2>2
<1>4. g[b].steps = h[b].steps /\ g["mem"].steps = h["mem"].steps
  BY <1>1 DEF Edited, RunFields
<1> QED BY <1>1, <1>2, <1>3, <1>4 DEF Alike, Edited

\* A run stays well formed when what the other fields do not bind is edited.
LEMMA RunOKEdited ==
  ASSUME NEW id, NEW r, NEW t, RunOK(id, r, t), NEW q, NEW F \in SUBSET {"status", "updated", "completed", "err", "pending"},
         Edited(q, r, F),
         q.status \in Status, q.err \in Errs, q.pending \in Decisions \cup {None},
         q.pending # None => Begun(r.steps)
  PROVE  RunOK(id, q, t)
<1>1. /\ q.id = r.id /\ q.tenant = r.tenant /\ q.iteration = r.iteration
      /\ q.started = r.started /\ q.steps = r.steps /\ IsRun(q)
  BY DEF Edited, RunFields
<1> QED BY <1>1 DEF RunOK

\* Where the engine is with a run it holds.
LEMMA HeldParts ==
  ASSUME RecordInv, NEW id \in Ids, at[id].phase \in {"between", "inside", "failing", "closing"}
  PROVE  /\ at[id] # Away /\ HeldOK(id) /\ StoredOK(id)
         /\ Together(held[id]) /\ RunOK(id, held[id]["mem"], now) /\ PlaceOK(at[id], held[id])
         /\ id \in DOMAIN mem.runs /\ IsRun(mem.runs[id]) /\ RunOK(id, mem.runs[id], now) /\ Fits(id)
         /\ \A b \in Backends : IsRun(held[id][b])
         /\ held[id]["mem"].started = mem.runs[id].started
<1>1. at[id] # Away
  BY DEF Away
<1>2. HeldOK(id) /\ id \in DOMAIN mem.runs
  BY <1>1 DEF RecordInv, HeldOK
<1>3. StoredOK(id)
  BY <1>2 DEF RecordInv
<1>4. RunOK(id, mem.runs[id], now) /\ IsRun(mem.runs[id]) /\ Fits(id)
  BY <1>3 DEF StoredOK, RunOK
<1>5. \A b \in Backends : IsRun(held[id][b])
  BY <1>2 DEF HeldOK, Together, Alike
<1> QED BY <1>1, <1>2, <1>3, <1>4, <1>5 DEF HeldOK

-----------------------------------------------------------------------------
(* One lemma for each call.                                                *)

LEMMA LoopIs ==
  /\ DOMAIN Loop = 1..5 /\ \A i \in 1..5 : Loop[i] \in LoopStage /\ Loop[i] \in Status /\ Loop[i] \notin Terminal
  /\ Loop[1] = "observing" /\ Loop[2] = "understanding" /\ Loop[3] = "deciding"
  /\ Loop[4] = "acting" /\ Loop[5] = "learning"
BY DEF Loop, LoopStage, Status, Terminal

LEMMA StatusRun ==
  ASSUME RecordInv, NEW id \in DOMAIN mem.runs, NEW st \in Status, SetStatus(id, st), now' = now
  PROVE  /\ ShapeBut(id) /\ Fits(id)' /\ RunOK(id, mem'["runs"][id], now')
         /\ \A f \in RunFields \ {"status"} : mem'["runs"][id][f] = mem["runs"][id][f]
         /\ mem'["runs"][id].status = st /\ lite'["steps"] = lite["steps"]
<1> DEFINE r == mem["runs"][id]
           q == [r EXCEPT !.status = st]
<1>1. RunOK(id, r, now) /\ IsRun(r) /\ Fits(id) /\ Shape
  BY DEF RecordInv, StoredOK, RunOK
<1>2. ShapeBut(id) /\ Fits(id)' /\ mem'["runs"][id] = q
  BY <1>1, StatusFits
<1> HIDE DEF r
<1>3. Edited(q, r, {"status"}) /\ q.status = st
  BY Zenon, <1>1, RunEdits
<1> HIDE DEF q
<1>4. q.err = r.err /\ q.pending = r.pending /\ q.started = r.started /\ q.steps = r.steps
  BY <1>3 DEF Edited, RunFields
<1>5. q.err \in Errs /\ q.pending \in Decisions \cup {None} /\ (q.pending # None => Begun(r.steps))
  BY <1>1, <1>4 DEF RunOK
<1>6. RunOK(id, q, now)
  BY <1>1, <1>3, <1>5, RunOKEdited
<1>7. lite'["steps"] = lite["steps"]
  BY Zenon DEF SetStatus, Lite!UpdateStatus, RecordInv, Shape
<1>8. \A f \in RunFields \ {"status"} : q[f] = r[f]
  BY <1>3 DEF Edited
<1> QED BY <1>2, <1>3, <1>6, <1>7, <1>8 DEF r

\* The stores have what the engine holds of the run, and the other runs stay.
Wrote(id) == ShapeBut(id) /\ mem'["runs"][id] = held'[id]["mem"]

LEMMA SubmitKeeps ==
  ASSUME RecordInv, ClockInv, ClockInv', NEW id \in Ids, SubmitRun(id)
  PROVE  RecordInv' /\ Wrote(id)
<1> DEFINE n == NewRun(id, TenantOf[id])
           h == [b \in Backends |-> n]
<1>1. /\ id \notin DOMAIN mem.runs /\ SaveRun(id, h) /\ now' = now + pace
      /\ at' = [at EXCEPT ![id] = [pos |-> 1, phase |-> "between"]]
  BY DEF SubmitRun, Stored, Tick
<1>2. now \in Nat /\ now' \in Nat /\ now < now'
  BY <1>1, PacesAssumption DEF ClockInv
<1>3. /\ IsRun(n) /\ n.id = id /\ n.tenant = TenantOf[id] /\ n.status = "pending" /\ n.iteration = 0
      /\ n.err = None /\ n.pending = None /\ n.started = now /\ n.steps = <<>>
  BY DEF NewRun, IsRun, RunFields
<1> HIDE DEF n
<1>4. /\ <<>> \in Seq(StepSet) /\ Dated(<<>>, now') /\ Rising(<<>>, 0) /\ "pending" \in Status
      /\ "pending" \notin Terminal
  BY DEF Dated, Rising, Status, Terminal
<1>5. RunOK(id, n, now')
  BY <1>2, <1>3, <1>4 DEF RunOK, Errs
<1>6. Together(h) /\ h["mem"] = n
  BY Zenon, <1>3, <1>4 DEF Together, Alike, Backends
<1> HIDE DEF h
<1>7. Savable(id, h)
  BY <1>1, <1>3, <1>4, <1>6 DEF Savable, Errs
<1>8. ShapeBut(id) /\ Fits(id)' /\ mem'["runs"][id] = n /\ held' = [held EXCEPT ![id] = h]
  BY <1>1, <1>6, <1>7, SaveFits DEF RecordInv
<1>9. DOMAIN at = Ids /\ DOMAIN held = Ids
  BY DEF RecordInv, Shape
<1>10. /\ DOMAIN at' = Ids /\ DOMAIN held' = Ids /\ held'[id] = h
       /\ at'[id] = [pos |-> 1, phase |-> "between"]
       /\ \A o \in Ids : o # id => at'[o] = at[o] /\ held'[o] = held[o]
  BY <1>1, <1>8, <1>9
<1>11. \A o \in DOMAIN mem.runs : o # id => mem.runs[o].started # n.started
  <2> TAKE o \in DOMAIN mem.runs
  <2>1. mem.runs[o].started \in Nat /\ mem.runs[o].started < now
    BY DEF RecordInv, StoredOK, RunOK
  <2> QED BY <1>2, <1>3, <2>1
<1>12. StoredOK(id)'
  BY <1>5, <1>8, <1>10 DEF StoredOK, Away
<1>13. PlaceOK(at'[id], h)
  BY <1>10 DEF PlaceOK
<1>14. HeldOK(id)'
  BY <1>3, <1>4, <1>5, <1>6, <1>8, <1>10, <1>13 DEF HeldOK, ShapeBut
<1>15. Wrote(id)
  BY <1>6, <1>8, <1>10 DEF Wrote
<1> QED BY <1>2, <1>8, <1>10, <1>11, <1>12, <1>14, <1>15, OneRun

\* What the engine saves, and what it keeps beside a status it writes.
LEMMA SavedKeeps ==
  ASSUME RecordInv, now \in Nat, now' \in Nat, now <= now', NEW id \in DOMAIN mem.runs, NEW g, NEW a,
         Together(g), RunOK(id, g["mem"], now'), g["mem"].started = mem.runs[id].started,
         g["mem"].status \in Terminal => g["mem"].completed # None,
         SaveRun(id, g), at' = [at EXCEPT ![id] = a],
         a = Away => Begun(g["mem"].steps), a # Away => PlaceOK(a, g)
  PROVE  RecordInv' /\ Wrote(id)
<1>1. id \in Ids /\ DOMAIN at = Ids /\ DOMAIN held = Ids /\ Fits(id) /\ Shape
  BY DEF RecordInv, Shape, StoredOK
<1>2. Savable(id, g)
  <2>1. /\ IsRun(g["mem"]) /\ g["mem"].id = id /\ g["mem"].err \in Errs
        /\ g["mem"].pending \in Decisions \cup {None} /\ g["mem"].status \in Status
    BY DEF RunOK
  <2> QED BY <2>1 DEF Savable
<1>3. ShapeBut(id) /\ Fits(id)' /\ mem'["runs"][id] = g["mem"] /\ held' = [held EXCEPT ![id] = g]
  BY <1>1, <1>2, SaveFits
<1>4. /\ DOMAIN at' = Ids /\ DOMAIN held' = Ids /\ held'[id] = g /\ at'[id] = a
      /\ \A o \in Ids : o # id => at'[o] = at[o] /\ held'[o] = held[o]
  BY <1>1, <1>3
<1>5. StoredOK(id)'
  BY <1>3, <1>4 DEF StoredOK
<1>6. at'[id] # Away => HeldOK(id)'
  BY <1>3, <1>4 DEF HeldOK, ShapeBut
<1>7. \A o \in DOMAIN mem.runs : o # id => mem.runs[o].started # mem'["runs"][id].started
  BY <1>3 DEF RecordInv
<1>8. Wrote(id)
  BY <1>3, <1>4 DEF Wrote
<1> QED BY <1>1, <1>3, <1>4, <1>5, <1>6, <1>7, <1>8, OneRun

LEMMA StatusKeeps ==
  ASSUME RecordInv, now \in Nat, now' = now, NEW id \in DOMAIN mem.runs, NEW g, NEW a, NEW st \in Status,
         Together(g), RunOK(id, g["mem"], now), g["mem"].started = mem.runs[id].started,
         g["mem"].status \in Terminal => g["mem"].completed # None,
         SetStatus(id, st), held' = [held EXCEPT ![id] = g], at' = [at EXCEPT ![id] = a], PlaceOK(a, g)
  PROVE  RecordInv'
<1>1. id \in Ids /\ DOMAIN at = Ids /\ DOMAIN held = Ids
  BY DEF RecordInv, Shape
<1>2. /\ ShapeBut(id) /\ Fits(id)' /\ RunOK(id, mem'["runs"][id], now')
      /\ mem'["runs"][id].started = mem["runs"][id].started
  BY StatusRun DEF RunFields
<1>3. /\ DOMAIN at' = Ids /\ DOMAIN held' = Ids /\ held'[id] = g /\ at'[id] = a
      /\ \A o \in Ids : o # id => at'[o] = at[o] /\ held'[o] = held[o]
  BY <1>1
<1>4. a # Away
  BY DEF PlaceOK, Away
<1>5. StoredOK(id)'
  BY <1>2, <1>3, <1>4 DEF StoredOK
<1>6. HeldOK(id)'
  BY <1>2, <1>3 DEF HeldOK, ShapeBut
<1>7. \A o \in DOMAIN mem.runs : o # id => mem.runs[o].started # mem'["runs"][id].started
  BY <1>2 DEF RecordInv
<1> QED BY <1>1, <1>2, <1>3, <1>5, <1>6, <1>7, OneRun

LEMMA EnterKeeps ==
  ASSUME RecordInv, ClockInv, NEW id \in Ids, Enter(id)
  PROVE  RecordInv'
<1> DEFINE p == at[id].pos
           h == held[id]
           g == [b \in Backends |-> [h[b] EXCEPT !.status = Loop[p], !.updated = now]]
<1>1. /\ at[id].phase = "between" /\ p \in 1..5 /\ held' = [held EXCEPT ![id] = g]
      /\ SetStatus(id, Loop[p]) /\ at' = [at EXCEPT ![id].phase = "inside"] /\ now' = now
  BY Zenon, LoopIs DEF Enter
<1>2. /\ Together(h) /\ RunOK(id, h["mem"], now) /\ PlaceOK(at[id], h)
      /\ id \in DOMAIN mem.runs /\ \A b \in Backends : IsRun(h[b])
      /\ h["mem"].started = mem.runs[id].started
  BY Zenon, <1>1, HeldParts
<1>3. Loop[p] \in Status /\ Loop[p] \notin Terminal /\ now \in Nat
  BY Zenon, <1>1, LoopIs DEF ClockInv
<1>7. \A b \in Backends : Edited(g[b], h[b], {"status", "updated"}) /\ g[b].status = Loop[p]
  <2> TAKE b \in Backends
  <2> DEFINE r == h[b]
             q == [r EXCEPT !.status = Loop[p], !.updated = now]
  <2>1. g[b] = q /\ IsRun(r)
    BY <1>2
  <2> HIDE DEF r, g
  <2>2. \A st, t : LET u == [r EXCEPT !.status = st, !.updated = t]
                  IN  Edited(u, r, {"status", "updated"}) /\ u.status = st
    BY Zenon, <2>1, RunEdits
  <2>3. Edited(q, r, {"status", "updated"}) /\ q.status = Loop[p]
    BY Zenon, <2>2
  <2> QED BY <2>1, <2>3 DEF r
<1> HIDE DEF g, h, p
<1>8. "mem" \in Backends /\ {"status", "updated"} \in SUBSET RunFields
  BY DEF Backends, RunFields
<1>9. Together(g)
  BY Zenon, <1>2, <1>7, <1>8, TogetherEdited
<1>10. \A f \in RunFields \ {"status", "updated"} : g["mem"][f] = h["mem"][f]
  BY <1>7, <1>8 DEF Edited
<1>11. RunOK(id, g["mem"], now)
  <2>1. /\ g["mem"].err \in Errs /\ g["mem"].pending \in Decisions \cup {None}
        /\ g["mem"].pending # None => Begun(h["mem"].steps)
    BY <1>2, <1>10 DEF RunOK, RunFields
  <2> QED BY <1>2, <1>3, <1>7, <1>8, <2>1, RunOKEdited
<1> DEFINE a == [at[id] EXCEPT !.phase = "inside"]
<1>12. a = [pos |-> p, phase |-> "inside"]
  BY <1>1, <1>2 DEF PlaceOK, p
<1>13. g["mem"].status = Loop[p] /\ g["mem"].steps = h["mem"].steps /\ g["mem"].started = h["mem"].started
  BY <1>7, <1>8, <1>10 DEF RunFields
<1>14. PlaceOK(a, g)
  <2>1. p = 4 => g["mem"].status # "deciding"
    BY <1>13, LoopIs
  <2>2. p > 1 => Begun(h["mem"].steps)
    BY <1>2 DEF PlaceOK, p
  <2> QED BY <1>1, <1>12, <1>13, <2>1, <2>2 DEF PlaceOK
<1>15. at' = [at EXCEPT ![id] = a]
  BY <1>1
<1> HIDE DEF a
<1> QED BY Zenon, <1>1, <1>2, <1>3, <1>9, <1>11, <1>13, <1>14, <1>15, StatusKeeps

\* What one more step makes of a list of steps.
LEMMA OneMore ==
  ASSUME NEW s \in Seq(StepSet), NEW e \in StepSet
  PROVE  LET u == Append(s, e)
         IN  /\ u \in Seq(StepSet) /\ Last(u) = e /\ Rows(u) = Merge(Rows(s), e)
             /\ Begun(s) \/ Key(e) = <<0, "observing">> => Begun(u)
             /\ \A t, v \in Nat : Dated(s, t) /\ t < v /\ e.started = t => Dated(u, v)
             /\ \A n \in Nat : Rising(s, n) /\ e.iteration = n => Rising(u, n)
             /\ \A n \in Nat : Rising(s, n) /\ e.iteration <= n /\ (\E i \in DOMAIN s : Key(s[i]) = Key(e))
                  => Rising(u, n)
<1> DEFINE u == Append(s, e)
           n0 == Len(s)
<1>1. /\ n0 \in Nat /\ DOMAIN s = 1..n0 /\ DOMAIN u = 1..n0 + 1
      /\ u \in Seq(StepSet) /\ u[n0 + 1] = e /\ Len(u) = n0 + 1
      /\ \A i \in 1..n0 : u[i] = s[i] /\ s[i] \in StepSet
  OBVIOUS
<1>2. Rows(u) = Merge(Rows(s), e)
  BY RowsAppend
<1> HIDE DEF u, n0
<1>3. /\ \A i \in 1..n0 : s[i].started \in Nat /\ s[i].iteration \in Nat
      /\ e.started \in Nat /\ e.iteration \in Nat
  BY Zenon, <1>1 DEF StepSet
<1>4. n0 + 1 \in 1..n0 + 1 /\ \A i \in 1..n0 + 1 : i \in 1..n0 \/ i = n0 + 1
  BY <1>1
<1>5. Last(u) = e
  BY <1>1 DEF Last
<1>6. ASSUME Begun(s) \/ Key(e) = <<0, "observing">> PROVE Begun(u)
  BY <1>1, <1>4, <1>6 DEF Begun
<1>7. ASSUME NEW t \in Nat, NEW v \in Nat, Dated(s, t), t < v, e.started = t PROVE Dated(u, v)
  <2>1. \A i \in 1..n0 : u[i].started \in Nat /\ u[i].started < t
    BY Zenon, <1>1, <1>3, <1>7 DEF Dated
  <2>2. \A i \in DOMAIN u : u[i].started < v
    BY <1>1, <1>4, <1>7, <2>1
  <2>3. ASSUME NEW i \in DOMAIN u, NEW j \in DOMAIN u, i < j PROVE u[i].started < u[j].started
    <3>1. i \in 1..n0
      BY <1>1, <2>3
    <3>2. CASE j = n0 + 1
      BY <1>1, <1>7, <2>1, <3>1, <3>2
    <3>3. CASE j \in 1..n0
      BY <1>1, <1>7, <2>3, <3>1, <3>3 DEF Dated
    <3> QED BY <1>1, <1>4, <3>2, <3>3
  <2> QED BY <2>2, <2>3 DEF Dated
<1>8. StageTwice(s) => StageTwice(u)
  <2> SUFFICES ASSUME NEW i \in 1..n0, NEW j \in 1..n0, i < j, Key(s[i]) = Key(s[j]) PROVE StageTwice(u)
    BY <1>1 DEF StageTwice
  <2>1. i \in DOMAIN u /\ j \in DOMAIN u /\ Key(u[i]) = Key(u[j])
    BY <1>1
  <2> QED BY <2>1 DEF StageTwice
<1>9. ASSUME NEW n \in Nat, Rising(s, n), e.iteration <= n PROVE \A i \in DOMAIN u : u[i].iteration <= n
  <2>1. \A i \in 1..n0 : s[i].iteration <= n
    BY <1>1, <1>9 DEF Rising
  <2> QED BY <1>1, <1>4, <1>9, <2>1
<1>10. ASSUME NEW n \in Nat, Rising(s, n), e.iteration = n PROVE Rising(u, n)
  <2>1. \A i \in DOMAIN u : u[i].iteration <= n
    BY <1>3, <1>9, <1>10
  <2>2. CASE StageTwice(s)
    BY <1>8, <2>1, <2>2 DEF Rising
  <2>3. CASE ~StageTwice(s)
    <3>1. \A i, j \in 1..n0 : i < j => s[i].iteration <= s[j].iteration
      BY <1>1, <1>10, <2>3 DEF Rising
    <3>2. ASSUME NEW i \in DOMAIN u, NEW j \in DOMAIN u, i < j PROVE u[i].iteration <= u[j].iteration
      <4>1. CASE j = n0 + 1
        BY <1>1, <1>10, <2>1, <4>1
      <4>2. CASE j \in 1..n0
        <5>1. i \in 1..n0
          BY <1>1, <3>2, <4>2
        <5> QED BY <1>1, <3>1, <3>2, <4>2, <5>1
      <4> QED BY <1>1, <1>4, <4>1, <4>2
    <3> QED BY <2>1, <3>2 DEF Rising
  <2> QED BY <2>2, <2>3
<1>11. ASSUME NEW n \in Nat, Rising(s, n), e.iteration <= n, NEW i \in DOMAIN s, Key(s[i]) = Key(e)
       PROVE  Rising(u, n)
  <2>1. i \in 1..n0 /\ n0 + 1 \in DOMAIN u /\ i \in DOMAIN u /\ i < n0 + 1 /\ Key(u[i]) = Key(u[n0 + 1])
    BY <1>1, <1>4, <1>11
  <2>2. StageTwice(u)
    BY <2>1 DEF StageTwice
  <2> QED BY <1>9, <1>11, <2>2 DEF Rising
<1> QED BY <1>1, <1>2, <1>5, <1>6, <1>7, <1>10, <1>11 DEF u

LEMMA LeaveStep ==
  ASSUME NEW p \in 1..5, NEW n \in Nat, NEW t \in Nat, NEW ref, NEW err,
         \/ ref \in Refs(Loop[p]) /\ err = None
         \/ ref = "" /\ err = "layer_call_failed"
  PROVE  /\ [iteration |-> n, stage |-> Loop[p], layer |-> LayerOf[Loop[p]], ref |-> ref, out |-> t,
             err |-> err, started |-> t, completed |-> t] \in StepSet
         /\ p = 3 /\ ref \in Refs(Loop[p]) => ref \in Decisions
<1>1. Loop[p] \in LoopStage /\ (p = 3 => Loop[p] = "deciding")
  BY Zenon, LoopIs
<1>2. LayerOf[Loop[p]] \in {"mnemos", "chronos", "nous", "praxis"}
  <2>1. /\ LayerOf["observing"] = "mnemos" /\ LayerOf["understanding"] = "chronos"
        /\ LayerOf["deciding"] = "nous" /\ LayerOf["acting"] = "praxis" /\ LayerOf["learning"] = "mnemos"
    BY Zenon DEF LayerOf
  <2> QED BY Zenon, <1>1, <2>1 DEF LoopStage
<1>3. ref \in Decisions \cup {"", "act-1", "mem-1"} /\ err \in Errs
  BY Zenon DEF Refs, Errs
<1>4. p = 3 /\ ref \in Refs(Loop[p]) => ref \in Decisions
  <2>1. Refs("deciding") = Decisions
    BY Zenon DEF Refs
  <2> QED BY Zenon, <1>1, <2>1
<1> QED BY Zenon, <1>1, <1>2, <1>3, <1>4 DEF StepSet

LEMMA LeaveKeeps ==
  ASSUME RecordInv, ClockInv, ClockInv', NEW id \in Ids, Leave(id)
  PROVE  RecordInv' /\ Wrote(id)
<1> DEFINE p == at[id].pos
           h == held[id]
           n == h["mem"].iteration
           s == h["mem"].steps
           step(b, ref, err) ==
             [iteration |-> h[b].iteration, stage |-> Loop[p], layer |-> LayerOf[Loop[p]],
              ref |-> ref, out |-> now, err |-> err, started |-> now, completed |-> now]
<1>1. PICK ref, err, a :
        /\ \/ ref \in Refs(Loop[p]) /\ err = None /\ a = [pos |-> p + 1, phase |-> "between"]
           \/ ref = "" /\ err = "layer_call_failed" /\ a = [at[id] EXCEPT !.phase = "failing"]
        /\ SaveRun(id, [b \in Backends |-> AppendStep(h[b], step(b, ref, err))])
        /\ at' = [at EXCEPT ![id] = a]
  <2> DEFINE saved(ref, err) == SaveRun(id, [b \in Backends |-> AppendStep(h[b], step(b, ref, err))])
  <2>1. \/ /\ \E ref \in Refs(Loop[p]) : saved(ref, None)
           /\ at' = [at EXCEPT ![id] = [pos |-> p + 1, phase |-> "between"]]
        \/ /\ saved("", "layer_call_failed")
           /\ at' = [at EXCEPT ![id] = [at[id] EXCEPT !.phase = "failing"]]
    BY Zenon DEF Leave
  <2> HIDE DEF saved
  <2>2. \E ref, err, a :
          /\ \/ ref \in Refs(Loop[p]) /\ err = None /\ a = [pos |-> p + 1, phase |-> "between"]
             \/ ref = "" /\ err = "layer_call_failed" /\ a = [at[id] EXCEPT !.phase = "failing"]
          /\ saved(ref, err) /\ at' = [at EXCEPT ![id] = a]
    BY Zenon, <2>1
  <2> QED BY Zenon, <2>2 DEF saved
<1>2. at[id].phase = "inside" /\ now' = now + pace
  BY Zenon DEF Leave, Tick
<1>3. /\ Together(h) /\ RunOK(id, h["mem"], now) /\ PlaceOK(at[id], h)
      /\ id \in DOMAIN mem.runs /\ \A b \in Backends : IsRun(h[b])
      /\ h["mem"].started = mem.runs[id].started /\ Fits(id)
  BY <1>2, HeldParts
<1>4. now \in Nat /\ now' \in Nat /\ now < now'
  BY <1>2, PacesAssumption DEF ClockInv
<1>5. p \in 1..5 /\ at[id] = [pos |-> p, phase |-> "inside"] /\ h["mem"].status = Loop[p]
  BY <1>2, <1>3 DEF PlaceOK
<1>6. n \in Nat /\ s \in Seq(StepSet) /\ Dated(s, now) /\ Rising(s, n) /\ (n > 0 => Begun(s))
      /\ (p > 1 => Begun(s))
  BY <1>3 DEF RunOK, PlaceOK
<1> DEFINE e == [iteration |-> n, stage |-> Loop[p], layer |-> LayerOf[Loop[p]], ref |-> ref,
                 out |-> now, err |-> err, started |-> now, completed |-> now]
           g == [b \in Backends |-> AppendStep(h[b], e)]
<1>7. SaveRun(id, g)
  <2>1. \A b \in Backends : h[b].iteration = n
    BY <1>3 DEF Together, Alike, RunFields
  <2>2. \A b \in Backends : step(b, ref, err) = e
    BY <2>1
  <2>3. [b \in Backends |-> AppendStep(h[b], step(b, ref, err))] = g
    <3> HIDE DEF step, e
    <3> QED BY <2>2
  <2> QED BY Zenon, <1>1, <2>3
<1>8. e \in StepSet /\ (p = 3 /\ ref \in Refs(Loop[p]) => ref \in Decisions)
  BY Zenon, <1>1, <1>4, <1>5, <1>6, LeaveStep
<1>9. e.iteration = n /\ e.started = now /\ e.ref = ref /\ Key(e) = <<n, Loop[p]>>
  BY DEF Key
<1> HIDE DEF e, step, g
<1>10. /\ a = [pos |-> a.pos, phase |-> a.phase] /\ a.pos \in 1..6 /\ a.phase \in {"between", "failing"}
       /\ a.phase = "failing" => a.pos \in 1..5 /\ a.pos = p
       /\ a.phase = "between" => a.pos = p + 1 /\ ref \in Refs(Loop[p])
  <2>1. CASE ref \in Refs(Loop[p]) /\ a = [pos |-> p + 1, phase |-> "between"]
    <3> HIDE DEF p
    <3> QED BY <1>5, <2>1
  <2>2. CASE a = [at[id] EXCEPT !.phase = "failing"]
    <3>1. a = [pos |-> p, phase |-> "failing"]
      BY <1>5, <2>2
    <3> HIDE DEF p
    <3> QED BY <1>5, <3>1
  <2> QED BY Zenon, <1>1, <2>1, <2>2
<1>11. /\ Append(s, e) \in Seq(StepSet) /\ Last(Append(s, e)) = e /\ Begun(Append(s, e))
       /\ Dated(Append(s, e), now') /\ Rising(Append(s, e), n)
  <2>1. n = 0 /\ p = 1 => Key(e) = <<0, "observing">>
    BY <1>9, LoopIs
  <2>2. n > 0 \/ p > 1 \/ (n = 0 /\ p = 1)
    BY <1>5, <1>6
  <2>3. Begun(s) \/ Key(e) = <<0, "observing">>
    BY <1>6, <2>1, <2>2
  <2> QED BY <1>4, <1>6, <1>8, <1>9, <2>3, OneMore
<1>12. \A b \in Backends : Edited(g[b], h[b], {"steps", "updated"}) /\ g[b].steps = Append(h[b].steps, e)
  <2> TAKE b \in Backends
  <2>1. g[b] = AppendStep(h[b], e) /\ IsRun(h[b])
    BY <1>3 DEF g
  <2>2. \A x : LET q == AppendStep(h[b], x)
              IN  Edited(q, h[b], {"steps", "updated"}) /\ q.steps = Append(h[b].steps, x)
    BY Zenon, <2>1, RunEdits
  <2> QED BY <2>1, <2>2
<1>13. "mem" \in Backends
  BY DEF Backends
<1>14. /\ \A f \in RunFields \ {"steps", "updated"} : g["mem"][f] = h["mem"][f]
       /\ g["mem"].steps = Append(s, e)
  BY <1>12, <1>13 DEF Edited
<1>15. \A b \in Backends : g[b].steps \in Seq(StepSet) /\ Last(g[b].steps) = e
                           /\ Rows(g[b].steps) = Rows(g["mem"].steps)
  <2> TAKE b \in Backends
  <2>1. h[b].steps \in Seq(StepSet) /\ Rows(h[b].steps) = Rows(s)
    BY <1>3 DEF Together
  <2>2. /\ Append(h[b].steps, e) \in Seq(StepSet) /\ Last(Append(h[b].steps, e)) = e
        /\ Rows(Append(h[b].steps, e)) = Merge(Rows(s), e)
    BY <1>8, <2>1, OneMore
  <2>3. Rows(Append(s, e)) = Merge(Rows(s), e)
    BY <1>6, <1>8, OneMore
  <2> QED BY Zenon, <1>12, <1>14, <2>2, <2>3
<1>16. Together(g)
  <2> SUFFICES ASSUME NEW b \in Backends PROVE Alike(g[b], g["mem"])
    BY <1>15 DEF Together
  <2>1. \A f \in RunFields \ {"steps", "updated"} : g[b][f] = h[b][f] /\ h[b][f] = h["mem"][f]
    BY <1>3, <1>12 DEF Edited, Together, Alike
  <2> QED BY <1>12, <1>14, <2>1 DEF Alike, Edited
<1>17. RunOK(id, g["mem"], now')
  <2>1. RunOK(id, h["mem"], now')
    BY <1>3, <1>4, RunOKLater
  <2>2. IsRun(g["mem"]) /\ g["mem"].iteration = n
    BY <1>12, <1>13, <1>14 DEF Edited, RunFields
  <2> HIDE DEF n, s
  <2> QED BY Zenon, <1>11, <1>14, <2>1, <2>2 DEF RunOK, RunFields
<1>18. g["mem"].status = Loop[p] /\ Loop[p] \in Status /\ Loop[p] \notin Terminal
       /\ g["mem"].started = mem.runs[id].started
  BY <1>3, <1>5, <1>14, LoopIs DEF RunFields
<1>23. PlaceOK(a, g)
  <2>1. a.pos = 4 /\ g["mem"].status = "deciding" => LastRefs(g)
    <3> SUFFICES ASSUME a.pos = 4, g["mem"].status = "deciding" PROVE LastRefs(g)
      OBVIOUS
    <3>1. p = 3 /\ ref \in Refs(Loop[p])
      BY <1>5, <1>10, <1>18, LoopIs
    <3> QED BY <1>8, <1>9, <1>13, <1>15, <3>1 DEF LastRefs
  <2> QED BY <1>10, <1>11, <1>14, <2>1 DEF PlaceOK
<1>24. a # Away
  BY <1>10 DEF Away
<1>25. at' = [at EXCEPT ![id] = a]
  BY Zenon, <1>1
<1>26. now <= now'
  BY <1>4
<1> HIDE DEF n, s, h, p
<1> QED BY Zenon, <1>3, <1>4, <1>7, <1>16, <1>17, <1>18, <1>23, <1>24, <1>25, <1>26, SavedKeeps

LEMMA SuspendKeeps ==
  ASSUME RecordInv, ClockInv, NEW id \in Ids, Suspend(id)
  PROVE  RecordInv' /\ Wrote(id)
<1> DEFINE h == held[id]
           g == [b \in Backends |->
                   [h[b] EXCEPT !.status = "awaiting_approval", !.pending = Last(h[b].steps).ref]]
           ref == Last(h["mem"].steps).ref
<1>1. /\ at[id] = [pos |-> 4, phase |-> "between"] /\ h["mem"].status = "deciding"
      /\ SaveRun(id, g) /\ at' = [at EXCEPT ![id] = Away] /\ now' = now
  BY Zenon DEF Suspend
<1>a. at[id].pos = 4 /\ at[id].phase = "between"
  <2>1. at[id] = [pos |-> 4, phase |-> "between"]
    BY Zenon, <1>1
  <2> QED BY <2>1
<1>2. /\ Together(h) /\ RunOK(id, h["mem"], now) /\ PlaceOK(at[id], h)
      /\ id \in DOMAIN mem.runs /\ \A b \in Backends : IsRun(h[b])
      /\ h["mem"].started = mem.runs[id].started
  BY <1>a, HeldParts
<1>3. Begun(h["mem"].steps) /\ LastRefs(h)
  <2>1. h["mem"].status = "deciding" /\ PlaceOK(at[id], h)
    BY Zenon, <1>1, <1>2
  <2> HIDE DEF h
  <2> QED BY <1>a, <2>1 DEF PlaceOK
<1>4. ref \in Decisions /\ \A b \in Backends : Last(h[b].steps).ref = ref
  BY <1>3 DEF LastRefs, Backends
<1>5. \A b \in Backends :
        /\ Edited(g[b], h[b], {"status", "pending"})
        /\ g[b].status = "awaiting_approval" /\ g[b].pending = ref
  <2> TAKE b \in Backends
  <2>1. IsRun(h[b]) /\ g[b] = [h[b] EXCEPT !.status = "awaiting_approval", !.pending = ref]
    BY Zenon, <1>2, <1>4
  <2> HIDE DEF g, ref, h
  <2>2. \A st, p : LET q == [h[b] EXCEPT !.status = st, !.pending = p]
                   IN  Edited(q, h[b], {"status", "pending"}) /\ q.status = st /\ q.pending = p
    BY Zenon, <2>1, RunEdits
  <2> DEFINE q == [h[b] EXCEPT !.status = "awaiting_approval", !.pending = ref]
  <2>3. Edited(q, h[b], {"status", "pending"}) /\ q.status = "awaiting_approval" /\ q.pending = ref
    BY Zenon, <2>2
  <2> QED BY <2>1, <2>3
<1> HIDE DEF g, ref
<1>6. "mem" \in Backends /\ {"status", "pending"} \in SUBSET RunFields
  BY DEF Backends, RunFields
<1>7. Together(g)
  BY Zenon, <1>2, <1>5, <1>6, TogetherEdited
<1>8. /\ \A f \in RunFields \ {"status", "pending"} : g["mem"][f] = h["mem"][f]
      /\ g["mem"].status = "awaiting_approval" /\ g["mem"].pending = ref
  BY <1>5, <1>6 DEF Edited
<1>9. g["mem"].steps = h["mem"].steps /\ g["mem"].started = h["mem"].started /\ g["mem"].err = h["mem"].err
  BY <1>8 DEF RunFields
<1>10. RunOK(id, g["mem"], now)
  <2>1. "awaiting_approval" \in Status /\ h["mem"].err \in Errs
    BY <1>2 DEF Status, RunOK
  <2> QED BY <1>2, <1>3, <1>4, <1>5, <1>6, <1>8, <1>9, <2>1, RunOKEdited
<1>11. "awaiting_approval" \notin Terminal
  BY DEF Terminal
<1>12. now \in Nat /\ now' \in Nat /\ now <= now' /\ RunOK(id, g["mem"], now')
  BY <1>1, <1>10 DEF ClockInv
<1>13. \E a : at' = [at EXCEPT ![id] = a] /\ a = Away
  BY Zenon, <1>1
<1>14. Begun(g["mem"].steps) /\ g["mem"].status \notin Terminal /\ g["mem"].started = mem.runs[id].started
  BY <1>2, <1>3, <1>8, <1>9, <1>11
<1> HIDE DEF h
<1> QED BY Zenon, <1>1, <1>2, <1>7, <1>12, <1>13, <1>14, SavedKeeps

LEMMA IterateKeeps ==
  ASSUME RecordInv, ClockInv, NEW id \in Ids, Iterate(id)
  PROVE  RecordInv'
<1> DEFINE h == held[id]
           g == [b \in Backends |->
                   [h[b] EXCEPT !.iteration = @ + 1, !.status = "observing", !.updated = now]]
           a == [pos |-> 1, phase |-> "between"]
<1>1. /\ at[id] = [pos |-> 6, phase |-> "between"] /\ held' = [held EXCEPT ![id] = g]
      /\ SetStatus(id, "observing") /\ at' = [at EXCEPT ![id] = a] /\ now' = now
  BY Zenon DEF Iterate
<1>a. at[id].pos = 6 /\ at[id].phase = "between"
  <2>1. at[id] = [pos |-> 6, phase |-> "between"]
    BY Zenon, <1>1
  <2> QED BY <2>1
<1>2. /\ Together(h) /\ RunOK(id, h["mem"], now) /\ PlaceOK(at[id], h)
      /\ id \in DOMAIN mem.runs /\ \A b \in Backends : IsRun(h[b])
      /\ h["mem"].started = mem.runs[id].started
  BY <1>a, HeldParts
<1>3. Begun(h["mem"].steps)
  BY <1>a, <1>2 DEF PlaceOK
<1>4. \A b \in Backends :
        /\ Edited(g[b], h[b], {"iteration", "status", "updated"})
        /\ g[b].status = "observing" /\ g[b].iteration = h["mem"].iteration + 1
  <2> TAKE b \in Backends
  <2>1. /\ IsRun(h[b]) /\ h[b].iteration = h["mem"].iteration
        /\ g[b] = [h[b] EXCEPT !.iteration = @ + 1, !.status = "observing", !.updated = now]
    BY <1>2 DEF Together, Alike, RunFields
  <2> HIDE DEF g, h
  <2>2. \A st, t : LET q == [h[b] EXCEPT !.iteration = @ + 1, !.status = st, !.updated = t]
                   IN  Edited(q, h[b], {"iteration", "status", "updated"}) /\ q.status = st
                       /\ q.iteration = h[b].iteration + 1
    BY Zenon, <2>1, RunEdits
  <2> DEFINE q == [h[b] EXCEPT !.iteration = @ + 1, !.status = "observing", !.updated = now]
  <2>3. Edited(q, h[b], {"iteration", "status", "updated"}) /\ q.status = "observing"
        /\ q.iteration = h[b].iteration + 1
    BY Zenon, <2>2
  <2> QED BY <2>1, <2>3
<1> HIDE DEF g
<1>5. "mem" \in Backends /\ {"iteration", "status", "updated"} \in SUBSET RunFields
  BY DEF Backends, RunFields
<1>6. Together(g)
  BY <1>2, <1>4, <1>5, TogetherEdited
<1>7. /\ \A f \in RunFields \ {"iteration", "status", "updated"} : g["mem"][f] = h["mem"][f]
      /\ g["mem"].status = "observing" /\ g["mem"].iteration = h["mem"].iteration + 1 /\ IsRun(g["mem"])
  BY <1>4, <1>5 DEF Edited
<1>8. RunOK(id, g["mem"], now)
  <2> DEFINE s == h["mem"].steps
             n == h["mem"].iteration
  <2>1. n \in Nat /\ s \in Seq(StepSet) /\ Rising(s, n)
    BY <1>2 DEF RunOK
  <2>2. Rising(s, n + 1)
    <3>1. \A i \in DOMAIN s : s[i].iteration \in Nat /\ s[i].iteration <= n
      <4>1. \A x \in StepSet : x.iteration \in Nat
        BY Zenon DEF StepSet
      <4> HIDE DEF s, n
      <4>2. \A i \in DOMAIN s : s[i] \in StepSet
        BY <2>1
      <4> QED BY <2>1, <4>1, <4>2 DEF Rising
    <3> HIDE DEF s, n
    <3> QED BY <2>1, <3>1 DEF Rising
  <2>3. "observing" \in Status
    BY DEF Status, LoopStage
  <2> QED BY <1>2, <1>3, <1>7, <2>1, <2>2, <2>3 DEF RunOK, RunFields
<1>9. g["mem"].started = h["mem"].started /\ "observing" \notin Terminal /\ "observing" \in Status
  BY <1>7 DEF RunFields, Terminal, Status, LoopStage
<1>10. PlaceOK(a, g)
  BY DEF PlaceOK
<1> HIDE DEF h, a
<1> QED BY Zenon, <1>1, <1>2, <1>6, <1>7, <1>8, <1>9, <1>10, StatusKeeps DEF ClockInv

LEMMA FinishKeeps ==
  ASSUME RecordInv, ClockInv, NEW id \in Ids, Finish(id)
  PROVE  RecordInv'
<1> DEFINE h == held[id]
           p == at[id].pos
           st == IF at[id].phase = "failing" THEN "failed" ELSE "completed"
           g == [b \in Backends |-> [CompleteRun(h[b], st, now) EXCEPT
                                       !.err = IF st = "failed" THEN "layer_call_failed" ELSE @]]
           a == [at[id] EXCEPT !.phase = "closing"]
           F == {"status", "updated", "completed", "err"}
<1>1. /\ at[id].phase = "failing" \/ at[id] = [pos |-> 6, phase |-> "between"]
      /\ held' = [held EXCEPT ![id] = g] /\ SetStatus(id, st)
      /\ at' = [at EXCEPT ![id] = a] /\ now' = now
  BY DEF Finish
<1>2. /\ Together(h) /\ RunOK(id, h["mem"], now) /\ PlaceOK(at[id], h)
      /\ id \in DOMAIN mem.runs /\ \A b \in Backends : IsRun(h[b])
      /\ h["mem"].started = mem.runs[id].started
  BY <1>1, HeldParts
<1>3. /\ a = [pos |-> p, phase |-> "closing"] /\ p \in 1..6 /\ Begun(h["mem"].steps)
      /\ st = IF p = 6 THEN "completed" ELSE "failed"
  <2>1. at[id] = [pos |-> p, phase |-> at[id].phase]
    BY <1>2 DEF PlaceOK
  <2>2. at[id].phase = "failing" \/ (at[id].phase = "between" /\ p = 6)
    BY <1>1
  <2>3. (at[id].phase = "failing" => p \in 1..5) /\ p \in 1..6
    BY <1>2 DEF PlaceOK
  <2>4. Begun(h["mem"].steps)
    BY <1>2, <2>2 DEF PlaceOK
  <2> HIDE DEF p, h
  <2> QED BY <2>1, <2>2, <2>3, <2>4
<1>4. st \in Status
  BY DEF Status, Terminal
<1> HIDE DEF st
<1>5. \A b \in Backends :
        /\ Edited(g[b], h[b], F) /\ g[b].status = st /\ g[b].completed = now
        /\ g[b].err = IF st = "failed" THEN "layer_call_failed" ELSE h["mem"].err
  <2> TAKE b \in Backends
  <2>1. IsRun(h[b]) /\ h[b].err = h["mem"].err
    BY <1>2 DEF Together, Alike, RunFields
  <2> HIDE DEF h, g
  <2>2. g[b] = [CompleteRun(h[b], st, now) EXCEPT !.err = IF st = "failed" THEN "layer_call_failed" ELSE @]
    BY DEF g
  <2> QED BY <2>1, <2>2, FinishEdits
<1> HIDE DEF g, p
<1>6. "mem" \in Backends /\ F \in SUBSET RunFields /\ "steps" \notin F
  BY DEF Backends, RunFields
<1>7. Together(g)
  <2>1. \A b \in Backends : \A f \in F \ {"updated"} : g[b][f] = g["mem"][f]
    BY <1>5, <1>6
  <2>2. \A b \in Backends : Edited(g[b], h[b], F)
    BY <1>5
  <2> HIDE DEF F
  <2> QED BY <1>2, <1>6, <2>1, <2>2, TogetherEdited
<1>8. /\ g["mem"].steps = h["mem"].steps /\ g["mem"].started = h["mem"].started
      /\ g["mem"].pending = h["mem"].pending /\ g["mem"].status = st /\ g["mem"].completed = now
      /\ Edited(g["mem"], h["mem"], F)
  BY <1>5, <1>6 DEF Edited, RunFields
<1>9. RunOK(id, g["mem"], now)
  <2>1. /\ h["mem"].err \in Errs /\ h["mem"].pending \in Decisions \cup {None}
        /\ "layer_call_failed" \in Errs
    BY <1>2 DEF RunOK, Errs
  <2>2. g["mem"].err \in Errs
    BY <1>5, <1>6, <2>1
  <2> QED BY <1>2, <1>3, <1>4, <1>8, <2>1, <2>2, RunOKEdited
<1>10. now \in Nat /\ now # None
  BY DecisionAssumption DEF ClockInv
<1>11. PlaceOK(a, g)
  BY <1>3, <1>8 DEF PlaceOK
<1> HIDE DEF h, a, F
<1> QED BY Zenon, <1>1, <1>2, <1>4, <1>7, <1>8, <1>9, <1>10, <1>11, StatusKeeps

LEMMA CloseKeeps ==
  ASSUME RecordInv, ClockInv, NEW id \in Ids, Close(id)
  PROVE  RecordInv' /\ Wrote(id)
<1>1. /\ at[id].phase = "closing" /\ SaveRun(id, held[id]) /\ at' = [at EXCEPT ![id] = Away] /\ now' = now
  BY DEF Close
<1>2. /\ Together(held[id]) /\ RunOK(id, held[id]["mem"], now) /\ PlaceOK(at[id], held[id]) /\ HeldOK(id)
      /\ id \in DOMAIN mem.runs /\ held[id]["mem"].started = mem.runs[id].started
  BY <1>1, HeldParts
<1>3. /\ held[id]["mem"].status \in Terminal => held[id]["mem"].completed # None
      /\ Begun(held[id]["mem"].steps)
  BY <1>1, <1>2 DEF HeldOK, PlaceOK
<1>4. now \in Nat /\ now' \in Nat /\ now <= now' /\ RunOK(id, held[id]["mem"], now')
  BY <1>1, <1>2 DEF ClockInv
<1>5. \E g, a : g = held[id] /\ at' = [at EXCEPT ![id] = a] /\ a = Away
  BY Zenon, <1>1
<1> QED BY Zenon, <1>1, <1>2, <1>3, <1>4, <1>5, SavedKeeps

LEMMA SteerKeeps ==
  ASSUME RecordInv, ClockInv, NEW id \in Ids, Steer(id)
  PROVE  RecordInv'
<1>1. PICK st \in {"paused", "cancelled"} : SetStatus(id, st)
  BY DEF Steer
<1>2. id \in DOMAIN mem.runs /\ UNCHANGED <<at, held>> /\ now' = now /\ st \in Status
  BY DEF Steer, Stored, Status, Terminal
<1>3. /\ ShapeBut(id) /\ Fits(id)' /\ RunOK(id, mem'["runs"][id], now')
      /\ mem'["runs"][id].started = mem["runs"][id].started
      /\ mem'["runs"][id].steps = mem["runs"][id].steps
  BY <1>1, <1>2, StatusRun DEF RunFields
<1>4. DOMAIN at = Ids /\ DOMAIN held = Ids
  BY DEF RecordInv, Shape
<1>5. StoredOK(id)'
  <2>1. at[id] = Away => Begun(mem["runs"][id].steps)
    BY <1>2 DEF RecordInv, StoredOK
  <2> QED BY <1>2, <1>3, <2>1 DEF StoredOK
<1>6. at'[id] # Away => HeldOK(id)'
  <2> SUFFICES ASSUME at[id] # Away PROVE HeldOK(id)'
    BY <1>2
  <2>1. HeldOK(id)
    BY DEF RecordInv
  <2> QED BY <1>2, <1>3, <2>1 DEF HeldOK, ShapeBut
<1>7. \A o \in DOMAIN mem.runs : o # id => mem.runs[o].started # mem'["runs"][id].started
  BY <1>2, <1>3 DEF RecordInv
<1> QED BY <1>2, <1>3, <1>4, <1>5, <1>6, <1>7, OneRun DEF ClockInv

\* No run changes.
LEMMA UnchangedBut ==
  ASSUME RecordInv, NEW id \in DOMAIN mem.runs, UNCHANGED stores
  PROVE  ShapeBut(id)
<1>1. ASSUME NEW o \in DOMAIN mem.runs PROVE RunStays(o)
  BY DEF stores, RunStays
<1> QED BY <1>1 DEF ShapeBut, stores, RecordInv, Shape

LEMMA RedriveKeeps ==
  ASSUME RecordInv, ClockInv, NEW id \in Ids, Redrive(id)
  PROVE  RecordInv' /\ (at'[id].pos # 1 => Wrote(id))
<1> DEFINE g == GetRun(id)
           k == [b \in Backends |-> [g[b] EXCEPT !.pending = None]]
           r == mem.runs[id]
<1>1. /\ id \in DOMAIN mem.runs /\ now' = now
      /\ g["mem"].status \in Terminal => g["mem"].completed # None
      /\ \/ /\ g["mem"].status = "awaiting_approval" /\ g["mem"].pending # None /\ SaveRun(id, k)
            /\ at' = [at EXCEPT ![id] = [pos |-> 4, phase |-> "between"]]
         \/ /\ held' = [held EXCEPT ![id] = g] /\ UNCHANGED stores
            /\ at' = [at EXCEPT ![id] = [pos |-> 1, phase |-> "between"]]
  BY DEF Redrive, Stored, Validate
<1>2. Together(g) /\ g["mem"] = r /\ StoredOK(id)
  BY Zenon, <1>1, GetLoads, GetParts DEF RecordInv
<1>3. RunOK(id, r, now) /\ Fits(id) /\ \A b \in Backends : IsRun(g[b])
  BY <1>2 DEF StoredOK, Together, Alike
<1>4. now \in Nat /\ now' \in Nat /\ now <= now'
  BY <1>1 DEF ClockInv
<1> HIDE DEF g
<1>5. CASE /\ r.status = "awaiting_approval" /\ r.pending # None /\ SaveRun(id, k)
           /\ at' = [at EXCEPT ![id] = [pos |-> 4, phase |-> "between"]]
  <2> DEFINE a == [pos |-> 4, phase |-> "between"]
  <2>1. \A b \in Backends : Edited(k[b], g[b], {"pending"}) /\ k[b].pending = None
    <3> TAKE b \in Backends
    <3>1. IsRun(g[b]) /\ k[b] = [g[b] EXCEPT !.pending = None]
      BY <1>3
    <3> HIDE DEF k
    <3>2. \A p : LET q == [g[b] EXCEPT !.pending = p]
                 IN  Edited(q, g[b], {"pending"}) /\ q.pending = p
      BY Zenon, <3>1, RunEdits
    <3> DEFINE q == [g[b] EXCEPT !.pending = None]
    <3>3. Edited(q, g[b], {"pending"}) /\ q.pending = None
      BY <3>2
    <3> QED BY <3>1, <3>3
  <2> HIDE DEF k
  <2>2. "mem" \in Backends /\ {"pending"} \in SUBSET RunFields
    BY DEF Backends, RunFields
  <2>3. Together(k)
    BY <1>2, <2>1, <2>2, TogetherEdited
  <2>4. /\ Edited(k["mem"], r, {"pending"}) /\ k["mem"].pending = None
        /\ k["mem"].steps = r.steps /\ k["mem"].started = r.started
        /\ k["mem"].status = r.status /\ k["mem"].err = r.err
    BY <1>2, <2>1, <2>2 DEF Edited, RunFields
  <2>5. RunOK(id, k["mem"], now')
    <3>1. k["mem"].status \in Status /\ k["mem"].err \in Errs
      BY <1>3, <2>4 DEF RunOK
    <3> HIDE DEF r
    <3> QED BY <1>1, <1>3, <2>4, <3>1, RunOKEdited
  <2>6. Begun(r.steps) /\ r.status \notin Terminal
    BY <1>2, <1>3, <1>5 DEF RunOK, Terminal
  <2>7. PlaceOK(a, k)
    BY <1>5, <2>4, <2>6 DEF PlaceOK
  <2>8. a # Away
    BY DEF Away
  <2>9. SaveRun(id, k) /\ at' = [at EXCEPT ![id] = a]
    BY <1>5
  <2> HIDE DEF a
  <2> QED BY Zenon, <1>1, <1>4, <2>3, <2>4, <2>5, <2>6, <2>7, <2>8, <2>9, SavedKeeps
<1>6. CASE /\ held' = [held EXCEPT ![id] = g] /\ UNCHANGED stores
           /\ at' = [at EXCEPT ![id] = [pos |-> 1, phase |-> "between"]]
  <2>1. DOMAIN at = Ids /\ DOMAIN held = Ids
    BY DEF RecordInv, Shape
  <2>2. /\ DOMAIN at' = Ids /\ DOMAIN held' = Ids /\ held'[id] = g
        /\ at'[id] = [pos |-> 1, phase |-> "between"]
        /\ \A o \in Ids : o # id => at'[o] = at[o] /\ held'[o] = held[o]
    BY <1>6, <2>1
  <2>3. /\ mem' = mem /\ lite' = lite /\ pg' = pg /\ ShapeBut(id)
    BY <1>1, <1>6, UnchangedBut DEF stores
  <2>4. at'[id] # Away
    BY <2>2 DEF Away
  <2>5. Fits(id)'
    BY <1>3, <2>3 DEF Fits
  <2>6. StoredOK(id)'
    BY <1>1, <1>3, <2>3, <2>4, <2>5 DEF StoredOK
  <2>7. PlaceOK(at'[id], g)
    BY <2>2 DEF PlaceOK
  <2>8. HeldOK(id)'
    BY <1>1, <1>2, <1>3, <2>2, <2>3, <2>7 DEF HeldOK
  <2>9. \A o \in DOMAIN mem.runs : o # id => mem.runs[o].started # mem'["runs"][id].started
    BY <1>1, <2>3 DEF RecordInv
  <2>10. at'[id].pos = 1
    BY <2>2
  <2> QED BY <1>4, <2>2, <2>3, <2>4, <2>6, <2>8, <2>9, <2>10, OneRun
<1> QED BY <1>1, <1>2, <1>5, <1>6

LEMMA AppendKeeps ==
  ASSUME RecordInv, ClockInv, ClockInv', NEW id \in Ids, AppendStored(id)
  PROVE  RecordInv'
<1> DEFINE e == [iteration |-> 0, stage |-> "observing", layer |-> "mnemos", ref |-> "mem-1",
                 out |-> now, err |-> None, started |-> now, completed |-> now]
           r == mem["runs"][id]
           q == AppendStep(r, e)
           s == r.steps
<1>1. /\ id \in DOMAIN mem.runs /\ at[id] = Away /\ UNCHANGED <<at, held>> /\ now' = now + pace
      /\ mem' = Mem!AppendProvenance(mem, id, e)
      /\ lite' = Lite!AppendProvenance(lite, id, e) /\ pg' = Pg!AppendProvenance(pg, id, e)
  BY DEF AppendStored, Stored, Tick
<1>2. now \in Nat /\ now' \in Nat /\ now < now' /\ now <= now'
  BY <1>1, PacesAssumption DEF ClockInv
<1>3. /\ e \in StepSet /\ e.started = now /\ e.iteration = 0 /\ Key(e) = <<0, "observing">>
  BY <1>2 DEF StepSet, LoopStage, Errs, Key
<1>4. Shape /\ StoredOK(id) /\ DOMAIN at = Ids /\ DOMAIN held = Ids
  BY <1>1 DEF RecordInv, Shape
<1>5. RunOK(id, r, now) /\ Fits(id) /\ Begun(s)
  BY <1>1, <1>4 DEF StoredOK
<1>6. IsRun(r) /\ s \in Seq(StepSet) /\ Dated(s, now) /\ Rising(s, r.iteration) /\ r.iteration \in Nat
  BY <1>5 DEF RunOK
<1>7. ShapeBut(id) /\ Fits(id)' /\ mem'["runs"][id] = q
  <2> HIDE DEF e
  <2> QED BY <1>1, <1>3, <1>4, <1>5, <1>6, AppendFits
<1> HIDE DEF e, r
<1>8. Edited(q, r, {"steps", "updated"}) /\ q.steps = Append(s, e)
  <2>1. \A x : LET u == AppendStep(r, x)
               IN  Edited(u, r, {"steps", "updated"}) /\ u.steps = Append(r.steps, x)
    BY Zenon, <1>6, RunEdits
  <2> QED BY <2>1
<1>9. PICK i \in DOMAIN s : Key(s[i]) = Key(e)
  BY <1>3, <1>5 DEF Begun
<1>10. /\ Append(s, e) \in Seq(StepSet) /\ Begun(Append(s, e)) /\ Dated(Append(s, e), now')
       /\ Rising(Append(s, e), r.iteration)
  <2>1. e.iteration <= r.iteration
    BY <1>3, <1>6
  <2> HIDE DEF s
  <2> QED BY Zenon, <1>2, <1>3, <1>5, <1>6, <1>9, <2>1, OneMore
<1>11. RunOK(id, q, now') /\ q.started = r.started
  <2>1. RunOK(id, r, now')
    BY <1>2, <1>5, RunOKLater
  <2>2. IsRun(q) /\ \A f \in RunFields \ {"steps", "updated"} : q[f] = r[f]
    BY <1>8 DEF Edited
  <2> HIDE DEF q, s
  <2> QED BY <1>8, <1>10, <2>1, <2>2 DEF RunOK, RunFields
<1>12. StoredOK(id)'
  BY Zenon, <1>7, <1>8, <1>10, <1>11 DEF StoredOK
<1>13. at'[id] = Away
  BY <1>1
<1>14. \A o \in DOMAIN mem.runs : o # id => mem.runs[o].started # mem'["runs"][id].started
  BY <1>1, <1>7, <1>11 DEF RecordInv, r
<1>15. DOMAIN at' = Ids /\ DOMAIN held' = Ids /\ \A o \in Ids : at'[o] = at[o] /\ held'[o] = held[o]
  BY <1>1, <1>4
<1> QED BY <1>2, <1>7, <1>12, <1>13, <1>14, <1>15, OneRun

-----------------------------------------------------------------------------
(* The calls that leave the runs alone.                                    *)

\* What no call but those of runs and of the engine writes.
RunsStay ==
  /\ "runs" \in DOMAIN mem' /\ {"runs", "steps"} \subseteq DOMAIN lite'
  /\ {"runs", "steps"} \subseteq DOMAIN pg' /\ mem'["runs"] = mem["runs"]
  /\ lite'["runs"] = lite["runs"] /\ lite'["steps"] = lite["steps"]
  /\ pg'["runs"] = pg["runs"] /\ pg'["steps"] = pg["steps"]

LEMMA ElsewhereKeeps ==
  ASSUME RecordInv, ClockInv, ClockInv',
         \/ UNCHANGED vars \/ SelectSteps \/ Forget
         \/ \E id \in Ids : SelectRow(id)
         \/ \E p \in Submitters : FindSession(p) \/ UpsertSession(p)
         \/ \E t \in TypeDefs : RegisterType(t)
         \/ \E run \in Ids, kind \in {"approval_required", "outcome_written"} : LogEvent(run, kind)
         \/ \E run \in Ids : \/ \E req \in Requests : RaiseApproval(run, req)
                             \/ \E decision \in {"approve", "deny"} : ResolveApproval(run, decision)
  PROVE  RecordInv' /\ RunsStay /\ UNCHANGED <<at, held>>
<1>0. /\ "runs" \in DOMAIN mem /\ {"runs", "steps"} \subseteq DOMAIN lite
      /\ {"runs", "steps"} \subseteq DOMAIN pg
  BY DEF RecordInv, Shape
<1>1. ASSUME UNCHANGED stores PROVE RunsStay
  BY <1>0, <1>1 DEF stores, RunsStay
<1>2. ASSUME NEW p \in Submitters, UpsertSession(p) PROVE RunsStay
  BY <1>0, <1>2 DEF UpsertSession, Mem!UpsertSession, Lite!UpsertSession, Pg!UpsertSession, RunsStay
<1>3. ASSUME NEW t \in TypeDefs, RegisterType(t) PROVE RunsStay
  BY <1>0, <1>3 DEF RegisterType, Mem!Register, Lite!Register, Pg!Register, RunsStay
<1>4. ASSUME NEW run \in Ids, NEW kind \in {"approval_required", "outcome_written"}, LogEvent(run, kind)
      PROVE  RunsStay
  BY <1>0, <1>4 DEF LogEvent, Mem!AppendAudit, Lite!AppendAudit, Pg!AppendAudit, RunsStay
<1>5. ASSUME NEW run \in Ids, NEW req \in Requests, RaiseApproval(run, req) PROVE RunsStay
  BY <1>0, <1>5 DEF RaiseApproval, Mem!Raise, Lite!Raise, Pg!Raise, RunsStay
<1>6. ASSUME NEW run \in Ids, NEW d \in {"approve", "deny"}, ResolveApproval(run, d) PROVE RunsStay
  BY Zenon, <1>0, <1>6 DEF ResolveApproval, Mem!Resolve, Lite!Resolve, Pg!Resolve, RunsStay
<1>7. RunsStay
  <2>1. SelectSteps \/ Forget \/ (\E id \in Ids : SelectRow(id)) \/ UNCHANGED vars
        \/ (\E p \in Submitters : FindSession(p)) => UNCHANGED stores
    BY DEF SelectSteps, Forget, SelectRow, vars, FindSession, stores
  <2> QED BY <1>1, <1>2, <1>3, <1>4, <1>5, <1>6, <2>1
<1>8. UNCHANGED <<at, held>> /\ now' \in {now, now + pace}
  BY Zenon DEF SelectSteps, Forget, SelectRow, vars, FindSession, UpsertSession, RegisterType, LogEvent,
         RaiseApproval, ResolveApproval, Tick
<1>9. now \in Nat /\ now' \in Nat /\ now <= now'
  BY <1>8, PacesAssumption DEF ClockInv
<1> QED BY <1>7, <1>8, <1>9, NoRun DEF RunsStay

LEMMA RecordInit == Init => RecordInv
<1> SUFFICES ASSUME Init PROVE RecordInv
  OBVIOUS
<1>1. /\ mem = Mem!New /\ lite = Lite!Empty /\ pg = Pg!Empty
      /\ held = [id \in Ids |-> None] /\ at = [id \in Ids |-> Away]
  BY DEF Init
<1>2. /\ "runs" \in DOMAIN mem /\ mem["runs"] = <<>>
      /\ {"runs", "steps"} \subseteq DOMAIN lite /\ lite["runs"] = <<>> /\ lite["steps"] = <<>>
      /\ {"runs", "steps"} \subseteq DOMAIN pg /\ pg["runs"] = <<>> /\ pg["steps"] = <<>>
  BY <1>1 DEF Mem!New, Lite!Empty, Pg!Empty
<1>3. DOMAIN <<>> = {} /\ IsFiniteSet(DOMAIN <<>>)
  BY FS_EmptySet
<1>4. Shape
  BY <1>1, <1>2, <1>3 DEF Shape, Keyed
<1>5. \A id \in Ids : at[id] = Away
  BY <1>1
<1> QED BY <1>2, <1>3, <1>4, <1>5 DEF RecordInv

LEMMA RecordKeeps ==
  ASSUME RecordInv, ClockInv, [Next]_vars
  PROVE  RecordInv'
<1>1. ClockInv'
  BY ClockKeeps
<1>2. ASSUME NEW id \in Ids, RunCall(id) PROVE RecordInv'
  BY <1>1, <1>2, SubmitKeeps, EnterKeeps, LeaveKeeps, SuspendKeeps, IterateKeeps, FinishKeeps,
     CloseKeeps, RedriveKeeps, SteerKeeps, AppendKeeps, ElsewhereKeeps DEF RunCall
<1> QED BY <1>1, <1>2, ElsewhereKeeps DEF Next

LEMMA RecordAlways == Spec => [](RecordInv /\ ClockInv)
<1>1. Init => RecordInv /\ ClockInv
  BY RecordInit DEF Init, ClockInv
<1>2. (RecordInv /\ ClockInv) /\ [Next]_vars => (RecordInv /\ ClockInv)'
  BY RecordKeeps, ClockKeeps
<1> QED BY <1>1, <1>2, PTL DEF Spec

-----------------------------------------------------------------------------
(* What is read.                                                           *)

\* Each row of a stage shows the first and the last of its steps.
LEMMA RowsOfTries ==
  ASSUME NEW s \in Seq(StepSet), NEW t, Dated(s, t), NEW L, ToSet(L) = RowSet(Rows(s))
  PROVE  /\ {Key(r) : r \in ToSet(L)} = {Key(x) : x \in ToSet(s)}
         /\ \A r \in ToSet(L) :
              LET same == {i \in DOMAIN s : Key(s[i]) = Key(r)}
              IN  \E first, last \in same :
                    /\ \A i \in same : first <= i /\ i <= last
                    /\ r.out = s[last].out /\ r.err = s[last].err
                    /\ r.ref = s[first].ref /\ r.started = s[first].started
<1> DEFINE d == Rows(s)
           n == Len(s)
<1>1. n \in Nat /\ DOMAIN s = 1..n /\ \A i \in 1..n : s[i] \in StepSet
  OBVIOUS
<1>2. WellRows(d) /\ Shows(d, s, n)
  BY RowsWell, RowsShow
<1> HIDE DEF d, n
<1>3. /\ \A i \in 1..n : Key(s[i]) \in DOMAIN d
      /\ \A k \in DOMAIN d : \E i, j \in 1..n : Spans(s, n, k, i, j) /\ d[k] = Updated(s[i], s[j])
      /\ \A k \in DOMAIN d : Key(d[k]) = k
  BY <1>2 DEF Shows, WellRows
<1>4. ToSet(L) = {d[k] : k \in DOMAIN d} /\ ToSet(s) = {s[i] : i \in 1..n}
  BY Zenon, <1>1 DEF RowSet, d, ToSet
<1>5. {Key(r) : r \in ToSet(L)} = DOMAIN d
  <2>1. ASSUME NEW k \in DOMAIN d PROVE k \in {Key(r) : r \in ToSet(L)}
    <3>1. d[k] \in ToSet(L) /\ Key(d[k]) = k
      BY <1>3, <1>4
    <3> QED BY <3>1
  <2>2. ASSUME NEW r \in ToSet(L) PROVE Key(r) \in DOMAIN d
    <3>1. PICK k \in DOMAIN d : r = d[k]
      BY <1>4
    <3> QED BY <1>3, <3>1
  <2> QED BY Zenon, <2>1, <2>2
<1>6. {Key(x) : x \in ToSet(s)} = DOMAIN d
  <2>1. ASSUME NEW k \in DOMAIN d PROVE k \in {Key(x) : x \in ToSet(s)}
    <3>1. PICK i \in 1..n, j \in 1..n : Spans(s, n, k, i, j)
      BY <1>3, <2>1
    <3>2. s[i] \in ToSet(s) /\ Key(s[i]) = k
      BY <1>4, <3>1 DEF Spans
    <3> QED BY <3>2
  <2>2. ASSUME NEW x \in ToSet(s) PROVE Key(x) \in DOMAIN d
    <3>1. PICK i \in 1..n : x = s[i]
      BY <1>4
    <3> QED BY <1>3, <3>1
  <2> QED BY Zenon, <2>1, <2>2
<1>7. ASSUME NEW r \in ToSet(L)
      PROVE  LET same == {i \in DOMAIN s : Key(s[i]) = Key(r)}
             IN  \E first, last \in same :
                   /\ \A i \in same : first <= i /\ i <= last
                   /\ r.out = s[last].out /\ r.err = s[last].err
                   /\ r.ref = s[first].ref /\ r.started = s[first].started
  <2>1. PICK k \in DOMAIN d : r = d[k] /\ Key(r) = k
    BY <1>3, <1>4
  <2>2. PICK i \in 1..n, j \in 1..n : Spans(s, n, k, i, j) /\ r = Updated(s[i], s[j])
    BY <1>3, <2>1
  <2>3. r.out = s[j].out /\ r.err = s[j].err /\ r.ref = s[i].ref /\ r.started = s[i].started
    BY <1>1, <2>2, UpdatedIs
  <2>4. /\ Key(s[i]) = Key(r) /\ Key(s[j]) = Key(r)
        /\ \A m \in 1..n : Key(s[m]) = Key(r) => i <= m /\ m <= j
    BY <2>1, <2>2 DEF Spans
  <2> QED BY <1>1, <2>3, <2>4
<1> QED BY Zenon, <1>5, <1>6, <1>7

LEMMA LastTries ==
  ASSUME RecordInv
  PROVE  LastAttemptKept
<1> SUFFICES ASSUME NEW id \in Ids, Stored(id), NEW b \in {"lite", "pg"}
             PROVE  LET tries == Mem!Get(mem, id).steps
                        rows == GetRun(id)[b].steps
                    IN  /\ ~StageTwice(rows)
                        /\ {Key(r) : r \in ToSet(rows)} = {Key(t) : t \in ToSet(tries)}
                        /\ \A r \in ToSet(rows) :
                             LET same == {i \in DOMAIN tries : Key(tries[i]) = Key(r)}
                             IN  \E first, last \in same :
                                   /\ \A i \in same : first <= i /\ i <= last
                                   /\ r.out = tries[last].out /\ r.err = tries[last].err
                                   /\ r.ref = tries[first].ref /\ r.started = tries[first].started
  BY Zenon DEF LastAttemptKept
<1> DEFINE s == Mem!Get(mem, id).steps
           L == GetRun(id)[b].steps
           d == Rows(s)
<1>1. id \in DOMAIN mem.runs /\ s = mem.runs[id].steps
  BY DEF Stored, Mem!Get, Mem!Lookup
<1>2. mem.runs[id].steps \in Seq(StepSet) /\ Dated(mem.runs[id].steps, now)
  BY <1>1 DEF RecordInv, StoredOK, RunOK
<1>3. ~StageTwice(L) /\ ToSet(L) = RowSet(d)
  <2>1. /\ WellRows(d) /\ IsFiniteSet(RowSet(d))
        /\ IsOrder(ByText(RowSet(d)), RowSet(d)) /\ IsOrder(ByTime(RowSet(d)), RowSet(d))
        /\ L \in {InOrder(RowSet(d), ByText(RowSet(d))), InOrder(RowSet(d), ByTime(RowSet(d)))}
    <3>1. d = Rows(mem.runs[id].steps)
      BY <1>1
    <3> HIDE DEF s, d
    <3> QED BY <1>1, <3>1, GetLoads
  <2> HIDE DEF L, d, s
  <2> QED BY <2>1, LoadedRows
<1>4. s \in Seq(StepSet) /\ Dated(s, now)
  BY <1>1, <1>2
<1>5. /\ {Key(r) : r \in ToSet(L)} = {Key(x) : x \in ToSet(s)}
      /\ \A r \in ToSet(L) :
           LET same == {i \in DOMAIN s : Key(s[i]) = Key(r)}
           IN  \E first, last \in same :
                 /\ \A i \in same : first <= i /\ i <= last
                 /\ r.out = s[last].out /\ r.err = s[last].err
                 /\ r.ref = s[first].ref /\ r.started = s[first].started
  <2> HIDE DEF s, L
  <2> QED BY Zenon, <1>3, <1>4, RowsOfTries DEF d
<1> QED BY Zenon, <1>3, <1>5

\* After any saves, status writes, appends, crashes and reloads of any number of
\* runs, SQL has one row for each stage of each iteration that was tried: it
\* shows what the last try gave beside the reference and the start of the first
\* (RunRepo.Save, AppendProvenance, UpdateStatus and Get of the three stores).
THEOREM LastAttemptKeptAlways == Spec => []LastAttemptKept
BY RecordAlways, LastTries, PTL

LEMMA GetsAgree ==
  ASSUME RecordInv, NEW id \in DOMAIN mem.runs
  PROVE  LET run == GetRun(id)
             steps == run["mem"].steps
         IN  /\ \A b \in Backends : WithoutSteps(run[b]) = WithoutSteps(run["mem"])
             /\ ~StageTwice(steps) =>
                  /\ run["pg"].steps = steps
                  /\ ToSet(run["lite"].steps) = ToSet(steps)
                  /\ TextFaithful({s.started : s \in ToSet(steps)}) => run["lite"].steps = steps
<1> DEFINE g == GetRun(id)
           s == g["mem"].steps
           d == Rows(s)
<1>1. /\ Together(g) /\ WellRows(d) /\ IsFiniteSet(RowSet(d))
      /\ IsOrder(ByText(RowSet(d)), RowSet(d))
      /\ g["lite"].steps = InOrder(RowSet(d), ByText(RowSet(d)))
      /\ g["pg"].steps = InOrder(RowSet(d), ByTime(RowSet(d)))
      /\ g["mem"] = mem.runs[id]
  <2>1. g["mem"] = mem.runs[id]
    BY Zenon, GetParts
  <2>2. s = mem.runs[id].steps
    BY <2>1
  <2> HIDE DEF s
  <2> QED BY <2>1, <2>2, GetLoads
<1>2. s \in Seq(StepSet) /\ Dated(s, now) /\ Rising(s, g["mem"].iteration)
  BY <1>1 DEF RecordInv, StoredOK, RunOK
<1>3. ASSUME NEW b \in Backends PROVE WithoutSteps(g[b]) = WithoutSteps(g["mem"])
  <2> DEFINE q == g[b]
             r == g["mem"]
             u == [q EXCEPT !.steps = <<>>, !.updated = 0]
             v == [r EXCEPT !.steps = <<>>, !.updated = 0]
  <2>1. "mem" \in Backends
    BY DEF Backends
  <2>2. /\ DOMAIN q = RunFields /\ DOMAIN r = RunFields
        /\ \A f \in RunFields \ {"steps", "updated"} : q[f] = r[f]
    BY Zenon, <1>1, <2>1 DEF Together, Alike, IsRun
  <2> HIDE DEF q, r
  <2>3. /\ u = [f \in RunFields |-> u[f]] /\ v = [f \in RunFields |-> v[f]]
        /\ u["steps"] = v["steps"] /\ u["updated"] = v["updated"]
        /\ \A f \in RunFields \ {"steps", "updated"} : u[f] = q[f] /\ v[f] = r[f]
    BY Zenon, <2>2 DEF RunFields
  <2> HIDE DEF u, v
  <2>4. \A f \in RunFields : u[f] = v[f]
    BY <2>2, <2>3
  <2>5. u = v
    BY <2>3, <2>4
  <2> QED BY <2>5 DEF u, v, q, r, WithoutSteps
<1>4. ASSUME ~StageTwice(s)
      PROVE  /\ g["pg"].steps = s /\ ToSet(g["lite"].steps) = ToSet(s)
             /\ TextFaithful({x.started : x \in ToSet(s)}) => g["lite"].steps = s
  <2> DEFINE L == g["lite"].steps
             P == g["pg"].steps
  <2>1. L = InOrder(RowSet(d), ByText(RowSet(d))) /\ P = InOrder(RowSet(d), ByTime(RowSet(d)))
    BY <1>1
  <2> HIDE DEF L, P, s
  <2>2. /\ RowSet(d) = ToSet(s) /\ P = s
        /\ TextFaithful({x.started : x \in ToSet(s)}) => L = s
    BY <1>2, <1>4, <2>1, UnrepeatedOrder
  <2>3. ToSet(L) = RowSet(d)
    <3> HIDE DEF d
    <3> QED BY <1>1, <2>1, LoadedRows
  <2> QED BY <2>2, <2>3 DEF L, P
<1> QED BY <1>3, <1>4

-----------------------------------------------------------------------------
(* Lists of runs.                                                          *)

\* f gives each of the runs C its record, under the order Q of their names.
RecordsOf(f, C) == {f[id] : id \in C}

LEMMA ListedIds ==
  ASSUME NEW C, IsFiniteSet(C), NEW Q, IsOrder(Q, C), NEW f, \A id \in C : f[id].id = id,
         NEW R, \A x, y \in C : <<f[x], f[y]>> \in R <=> <<x, y>> \in Q, NEW limit \in Nat
  PROVE  IdsOf(Limited(InOrder(RecordsOf(f, C), R), limit)) = Limited(InOrder(C, Q), limit)
<1> DEFINE M == {f[id] : id \in C}
           o == InOrder(C, Q)
           n == Cardinality(C)
           t == [k \in 1..n |-> f[o[k]]]
<1>1. n \in Nat /\ o \in [1..n -> C] /\ Lists(o, n, Q, C)
  BY InOrderLists, FS_CardinalityType DEF Lists
<1> HIDE DEF n, o
<1>2. \A k \in 1..n : o[k] \in C /\ t[k] = f[o[k]] /\ t[k] \in M /\ t[k].id = o[k]
  BY <1>1
<1>3. IsOrder(R, M)
  <2>1. \A x \in C : <<x, x>> \notin Q
    BY Zenon DEF IsOrder
  <2>2. \A x, y \in C : x # y => <<x, y>> \in Q \/ <<y, x>> \in Q
    BY Zenon DEF IsOrder
  <2>3. \A x, y, z \in C : <<x, y>> \in Q /\ <<y, z>> \in Q => <<x, z>> \in Q
    BY DEF IsOrder
  <2>4. \A a \in M : \E x \in C : a = f[x]
    OBVIOUS
  <2> HIDE DEF M
  <2>5. \A a \in M : <<a, a>> \notin R
    BY Zenon, <2>1, <2>4
  <2>6. \A a, b \in M : a # b => <<a, b>> \in R \/ <<b, a>> \in R
    BY Zenon, <2>2, <2>4
  <2>7. ASSUME NEW a \in M, NEW b \in M, NEW c \in M, <<a, b>> \in R, <<b, c>> \in R
        PROVE  <<a, c>> \in R
    <3>1. PICK x \in C, y \in C, z \in C : a = f[x] /\ b = f[y] /\ c = f[z]
      BY <2>4
    <3> QED BY Zenon, <2>3, <2>7, <3>1
  <2> QED BY <2>5, <2>6, <2>7 DEF IsOrder
<1>4. Lists(t, n, R, M)
  <2>1. t \in [1..n -> M] /\ n \in Nat
    BY <1>1, <1>2
  <2>2. ASSUME NEW a \in M PROVE \E k \in 1..n : t[k] = a
    <3>1. PICK x \in C : a = f[x]
      OBVIOUS
    <3>2. PICK k \in 1..n : o[k] = x
      BY <1>1 DEF Lists
    <3> QED BY <3>1, <3>2
  <2>3. ASSUME NEW i \in 1..n, NEW j \in 1..n, i < j PROVE <<t[i], t[j]>> \in R
    <3>1. <<o[i], o[j]>> \in Q
      BY <1>1, <2>3 DEF Lists
    <3> QED BY <1>2, <3>1
  <2> HIDE DEF t, M
  <2> QED BY <2>1, <2>2, <2>3 DEF Lists
<1>5. InOrder(M, R) = t
  <2> HIDE DEF t, M
  <2> QED BY <1>3, <1>4, ListedOnce
<1>6. Len(t) = n /\ Len(o) = n /\ DOMAIN t = 1..n /\ DOMAIN o = 1..n /\ o = [k \in 1..n |-> o[k]]
  BY <1>1
<1> HIDE DEF t, M
<1>7. IdsOf(Limited(t, limit)) = Limited(o, limit)
  <2>1. CASE limit > 0 /\ n > limit
    <3>1. \A i \in 1..limit : i \in 1..n
      BY <1>1, <2>1
    <3>2. /\ SubSeq(t, 1, limit) \in [1..limit -> M]
          /\ \A i \in 1..limit : SubSeq(t, 1, limit)[i] = t[i]
      <4>1. limit \in Nat \ {0} /\ \A i \in 1..limit : t[i] \in M
        BY <1>2, <2>1, <3>1
      <4> QED BY <4>1, Prefix
    <3>3. /\ SubSeq(o, 1, limit) \in [1..limit -> C]
          /\ \A i \in 1..limit : SubSeq(o, 1, limit)[i] = o[i]
      <4>1. limit \in Nat \ {0} /\ \A i \in 1..limit : o[i] \in C
        BY <1>2, <2>1, <3>1
      <4> QED BY <4>1, Prefix
    <3>4. IdsOf(SubSeq(t, 1, limit)) = [i \in 1..limit |-> o[i]]
      BY <1>2, <3>1, <3>2 DEF IdsOf
    <3>5. SubSeq(o, 1, limit) = [i \in 1..limit |-> o[i]]
      BY <3>3
    <3> QED BY Zenon, <1>6, <2>1, <3>4, <3>5 DEF Limited
  <2>2. CASE ~(limit > 0 /\ n > limit)
    <3>1. Limited(t, limit) = t /\ Limited(o, limit) = o
      BY <1>6, <2>2 DEF Limited
    <3>2. IdsOf(t) = [k \in 1..n |-> o[k]]
      BY <1>2, <1>6 DEF IdsOf
    <3> QED BY <1>6, <3>1, <3>2
  <2> QED BY <2>1, <2>2
<1> QED BY <1>5, <1>7 DEF M, o, RecordsOf

\* The rows a filter finds, latest first.
MemRunsFound(f) == {r \in {mem.runs[id] : id \in DOMAIN mem.runs} : Mem!MatchesRun(r, f)}
LiteRunsFound(f) ==
  {r \in {Lite!ScanRun(lite.runs[id]) : id \in DOMAIN lite.runs} :
     MatchesFields(r, f) /\ Lite!MatchesTenant(r, f)}
PgRunsFound(f) ==
  {r \in {Pg!ScanRun(pg.runs[id]) : id \in DOMAIN pg.runs} :
     MatchesFields(r, f) /\ Pg!SameTenant(r, f)}
Begins(S) == {p \in S \X S : p[2].started < p[1].started}
BeginsText(S) == {p \in S \X S : Lite!TextAfter(p[1].started, p[2].started)}

LEMMA ListOrders ==
  ASSUME NEW f, NEW limit
  PROVE  /\ Mem!List(mem, f, limit) = Limited(InOrder(MemRunsFound(f), Begins(MemRunsFound(f))), limit)
         /\ Lite!List(lite, f, limit)
              = Limited(InOrder(LiteRunsFound(f), BeginsText(LiteRunsFound(f))), limit)
         /\ Pg!List(pg, f, limit) = Limited(InOrder(PgRunsFound(f), Begins(PgRunsFound(f))), limit)
<1>1. Mem!List(mem, f, limit) = Limited(InOrder(MemRunsFound(f), Begins(MemRunsFound(f))), limit)
  BY SameInOrder, SameLimited DEF Mem!List, Mem!Ordered, Mem!Later, MemRunsFound, Begins
<1>2. Lite!List(lite, f, limit)
        = Limited(InOrder(LiteRunsFound(f), BeginsText(LiteRunsFound(f))), limit)
  BY SameInOrder, SameLimited
     DEF Lite!List, Lite!Ordered, Lite!MatchesFields, MatchesFields, LiteRunsFound, BeginsText
<1>3. Pg!List(pg, f, limit) = Limited(InOrder(PgRunsFound(f), Begins(PgRunsFound(f))), limit)
  BY SameInOrder, SameLimited
     DEF Pg!List, Pg!Ordered, Pg!Later, Pg!MatchesFields, MatchesFields, PgRunsFound, Begins
<1> QED BY <1>1, <1>2, <1>3

\* The runs a filter asks for, and their order.
Asked(f) == {id \in DOMAIN mem.runs : Mem!MatchesRun(mem.runs[id], f)}
Newer(C) == {p \in C \X C : mem.runs[p[2]].started < mem.runs[p[1]].started}

LEMMA AskedInOrder ==
  ASSUME RecordInv, NEW f
  PROVE  IsFiniteSet(Asked(f)) /\ IsOrder(Newer(Asked(f)), Asked(f))
<1> DEFINE C == Asked(f)
           time(id) == mem.runs[id].started
<1>1. C \subseteq DOMAIN mem.runs
  BY DEF Asked
<1> HIDE DEF C
<1>2. IsFiniteSet(C)
  BY <1>1, FS_Subset DEF RecordInv, Shape
<1>3. /\ \A x \in C : time(x) \in Nat
      /\ \A x, y \in C : x # y => time(x) # time(y)
  BY <1>1 DEF RecordInv, StoredOK, RunOK
<1>4. \A x, y \in C : <<x, y>> \in Newer(C) <=> time(y) < time(x)
  BY DEF Newer
<1> HIDE DEF time
<1>5. IsOrder(Newer(C), C)
  BY <1>3, <1>4 DEF IsOrder
<1> QED BY <1>2, <1>5 DEF C

\* A row that is alike is found by the same filters.
LEMMA FoundAlike ==
  ASSUME NEW f \in Filters, NEW id \in Ids, NEW r, RunOK(id, r, now), NEW q, Alike(q, r),
         NEW tenants, r.tenant \in tenants, Tells(f, tenants)
  PROVE  /\ (MatchesFields(q, f) /\ Lite!MatchesTenant(q, f)) <=> Mem!MatchesRun(r, f)
         /\ (MatchesFields(q, f) /\ Pg!SameTenant(q, f)) <=> Mem!MatchesRun(r, f)
<1>1. MatchesFields(q, f) <=> Mem!MatchesFields(r, f)
  <2>1. \A c \in DOMAIN f \ {"tenant"} : c \in RunFields \ {"steps", "updated"}
    BY FiltersAssumption DEF RunFields
  <2>2. \A c \in DOMAIN f \ {"tenant"} : q[c] = r[c]
    BY <2>1 DEF Alike
  <2> QED BY <2>2 DEF MatchesFields, Mem!MatchesFields
<1>2. q.tenant = r.tenant
  BY DEF Alike, RunFields
<1>3. "tenant" \in DOMAIN f =>
        (Mem!TenantKey(r.tenant) = Mem!TenantKey(f.tenant) <=> r.tenant = f.tenant)
  <2> QED BY DEF Tells, ToldApart,
              Mem!TenantKey, TenantKey, Mem!IsZero, IsZero, Mem!NoTenant, NoTenant, Mem!Bar, Bar
<1>4. /\ Lite!MatchesTenant(q, f) <=> Mem!MatchesTenant(r, f)
      /\ Pg!SameTenant(q, f) <=> Mem!MatchesTenant(r, f)
  BY <1>2, <1>3 DEF Mem!MatchesTenant, Pg!SameTenant, Lite!MatchesTenant,
                    Mem!IsZero, Pg!IsZero, Lite!IsZero, Mem!NoTenant, Pg!NoTenant, Lite!NoTenant
<1> QED BY <1>1, <1>4 DEF Mem!MatchesRun

LEMMA ListsAgree ==
  ASSUME RecordInv, NEW limit \in 0..1,
         NEW f \in {f \in Filters : Tells(f, {mem.runs[id].tenant : id \in DOMAIN mem.runs})}
  PROVE  LET listed == IdsOf(Mem!List(mem, f, limit))
         IN  /\ IdsOf(Pg!List(pg, f, limit)) = listed
             /\ TextFaithful({mem.runs[id].started : id \in DOMAIN mem.runs})
                  => IdsOf(Lite!List(lite, f, limit)) = listed
<1> DEFINE C == Asked(f)
           M == [id \in C |-> mem["runs"][id]]
           L == [id \in C |-> Lite!ScanRun(lite["runs"][id])]
           P == [id \in C |-> Pg!ScanRun(pg["runs"][id])]
           time(id) == mem["runs"][id].started
           answer == Limited(InOrder(C, Newer(C)), limit)
           tenants == {mem["runs"][id].tenant : id \in DOMAIN mem["runs"]}
<1>0. /\ f \in Filters /\ Tells(f, tenants)
      /\ \A id \in DOMAIN mem["runs"] : mem["runs"][id].tenant \in tenants
  OBVIOUS
<1> HIDE DEF tenants
<1>1. IsFiniteSet(C) /\ IsOrder(Newer(C), C) /\ limit \in Nat
  BY AskedInOrder
<1>2. ASSUME NEW id \in DOMAIN mem["runs"]
      PROVE  /\ id \in DOMAIN lite["runs"] /\ id \in DOMAIN pg["runs"] /\ id \in Ids
             /\ RunOK(id, mem["runs"][id], now)
             /\ Alike(Lite!ScanRun(lite["runs"][id]), mem["runs"][id])
             /\ Alike(Pg!ScanRun(pg["runs"][id]), mem["runs"][id])
  BY DEF RecordInv, Shape, StoredOK, Fits
<1>3. DOMAIN lite["runs"] = DOMAIN mem["runs"] /\ DOMAIN pg["runs"] = DOMAIN mem["runs"]
  BY DEF RecordInv, Shape
<1>4. /\ C \subseteq DOMAIN mem["runs"]
      /\ \A id \in DOMAIN mem["runs"] : id \in C <=> Mem!MatchesRun(mem["runs"][id], f)
  BY DEF Asked
<1> HIDE DEF C
<1>5. \A id \in C : /\ M[id].id = id /\ M[id].started = time(id) /\ L[id].id = id /\ L[id].started = time(id)
                    /\ P[id].id = id /\ P[id].started = time(id)
  <2> TAKE id \in C
  <2> DEFINE m == mem["runs"][id]
             l == Lite!ScanRun(lite["runs"][id])
             q == Pg!ScanRun(pg["runs"][id])
  <2>1. RunOK(id, m, now) /\ Alike(l, m) /\ Alike(q, m) /\ M[id] = m /\ L[id] = l /\ P[id] = q
    BY <1>2, <1>4
  <2>2. time(id) = m.started
    OBVIOUS
  <2> HIDE DEF m, l, q, M, L, P, time
  <2>3. /\ m.id = id /\ l.id = m.id /\ l.started = m.started /\ q.id = m.id /\ q.started = m.started
    BY <2>1 DEF RunOK, Alike, RunFields
  <2> QED BY <2>1, <2>2, <2>3
<1>6. MemRunsFound(f) = RecordsOf(M, C)
  BY <1>4 DEF MemRunsFound, RecordsOf
<1>7. LiteRunsFound(f) = RecordsOf(L, C)
  <2>1. \A id \in DOMAIN mem["runs"] :
          id \in C <=> MatchesFields(Lite!ScanRun(lite["runs"][id]), f)
                       /\ Lite!MatchesTenant(Lite!ScanRun(lite["runs"][id]), f)
    BY <1>0, <1>2, <1>4, FoundAlike
  <2> QED BY <1>3, <1>4, <2>1 DEF LiteRunsFound, RecordsOf
<1>8. PgRunsFound(f) = RecordsOf(P, C)
  <2>1. \A id \in DOMAIN mem["runs"] :
          id \in C <=> MatchesFields(Pg!ScanRun(pg["runs"][id]), f)
                       /\ Pg!SameTenant(Pg!ScanRun(pg["runs"][id]), f)
    BY <1>0, <1>2, <1>4, FoundAlike
  <2> QED BY <1>3, <1>4, <2>1 DEF PgRunsFound, RecordsOf
<1>9. \A x, y \in C : <<x, y>> \in Newer(C) <=> time(y) < time(x)
  BY DEF Newer
<1>10. \A x \in C : M[x] \in RecordsOf(M, C) /\ L[x] \in RecordsOf(L, C) /\ P[x] \in RecordsOf(P, C)
  BY DEF RecordsOf
<1> HIDE DEF M, L, P, time
<1>11. IdsOf(Mem!List(mem, f, limit)) = answer
  <2> DEFINE S == RecordsOf(M, C)
  <2>1. \A x, y \in C : <<M[x], M[y]>> \in Begins(S) <=> <<x, y>> \in Newer(C)
    BY Zenon, <1>5, <1>9, <1>10 DEF Begins
  <2>2. IdsOf(Limited(InOrder(S, Begins(S)), limit)) = answer
    BY <1>1, <1>5, <2>1, ListedIds
  <2> QED BY <1>6, <2>2, ListOrders
<1>12. IdsOf(Pg!List(pg, f, limit)) = answer
  <2> DEFINE S == RecordsOf(P, C)
  <2>1. \A x, y \in C : <<P[x], P[y]>> \in Begins(S) <=> <<x, y>> \in Newer(C)
    BY Zenon, <1>5, <1>9, <1>10 DEF Begins
  <2>2. IdsOf(Limited(InOrder(S, Begins(S)), limit)) = answer
    BY <1>1, <1>5, <2>1, ListedIds
  <2> QED BY <1>8, <2>2, ListOrders
<1>13. ASSUME TextFaithful({mem.runs[id].started : id \in DOMAIN mem.runs})
       PROVE  IdsOf(Lite!List(lite, f, limit)) = answer
  <2> DEFINE S == RecordsOf(L, C)
  <2>1. \A x, y \in C : Lite!TextBefore(time(y), time(x)) <=> time(y) < time(x)
    BY <1>4, <1>13 DEF TextFaithful, time
  <2>2. \A x, y \in C : <<L[x], L[y]>> \in BeginsText(S) <=> <<x, y>> \in Newer(C)
    BY Zenon, <1>5, <1>9, <1>10, <2>1 DEF BeginsText, Lite!TextAfter
  <2>3. IdsOf(Limited(InOrder(S, BeginsText(S)), limit)) = answer
    BY <1>1, <1>5, <2>2, ListedIds
  <2> QED BY <1>7, <2>3, ListOrders
<1> QED BY <1>11, <1>12, <1>13

\* However runs are saved, driven, crashed, reloaded, steered and listed, the
\* SQL stores answer Get and List as memory does: the same columns always, the
\* same steps as long as no stage was tried twice, and in SQLite in the same
\* order where the text of the times orders them (RunRepo of the three stores).
THEOREM RunsAgreeAlways == Spec => []RunsAgree
<1>1. RecordInv => RunsAgree
  <2> SUFFICES ASSUME RecordInv PROVE RunsAgree
    OBVIOUS
  <2>1. \A id \in {i \in Ids : Stored(i)} : id \in DOMAIN mem.runs
    BY DEF Stored
  <2> QED BY Zenon, <2>1, GetsAgree, ListsAgree DEF RunsAgree
<1> QED BY <1>1, RecordAlways, PTL

-----------------------------------------------------------------------------
(* A run that is read while it is driven.                                  *)

\* The iteration n has its last stage, without an error; every one before it has.
Learned(steps, n) == <<n, "learning">> \in DOMAIN Rows(steps) /\ Rows(steps)[<<n, "learning">>].err = None
AllLearned(steps, n) == \A m \in 0..n - 1 : Learned(steps, m)
Completed(id) == id \in DOMAIN mem.runs /\ mem.runs[id].status = "completed"
\* What is stored: no iteration was left before it had learned, nor was the last
\* one of a completed run.
StoredLearned(id) ==
  /\ id \in DOMAIN mem.runs => AllLearned(mem.runs[id].steps, mem.runs[id].iteration)
  /\ Completed(id) => /\ Learned(mem.runs[id].steps, mem.runs[id].iteration)
                      /\ \/ at[id] = Away
                         \/ at[id] = [pos |-> 6, phase |-> "closing"]
                         \/ at[id] = [pos |-> 1, phase |-> "between"]
\* What the engine holds: the stored steps, in an iteration no earlier than theirs.
HeldLearned(id) ==
  /\ at[id] # Away =>
       /\ mem.runs[id].steps = held[id]["mem"].steps
       /\ mem.runs[id].iteration <= held[id]["mem"].iteration
       /\ AllLearned(mem.runs[id].steps, held[id]["mem"].iteration)
  /\ at[id].pos = 6 /\ at[id].phase \in {"between", "closing"} =>
       /\ mem.runs[id].iteration = held[id]["mem"].iteration
       /\ Learned(mem.runs[id].steps, mem.runs[id].iteration)
Concluded(id) == StoredLearned(id) /\ HeldLearned(id)
\* The run has been as far as the learning stage of the iteration n.
Reached(id, n) ==
  /\ n \in Nat /\ n <= mem.runs[id].iteration
  /\ <<n, "learning">> \in DOMAIN Rows(mem.runs[id].steps)
ReadOK ==
  read # None /\ read.pc = "rows" =>
    /\ read.id \in DOMAIN mem.runs /\ IsRun(read.row)
    /\ read.row.status = "completed" => Reached(read.id, read.row.iteration)
TornInv ==
  /\ focus # "reads" => read = None
  /\ focus = "reads" => ReadOK /\ \A id \in Ids : Concluded(id)

\* A run that goes on is not a completed one.
LEMMA StillOpen ==
  ASSUME NEW id, Concluded(id),
         at[id].phase \in {"inside", "failing"} \/ (at[id].phase = "between" /\ at[id].pos # 1)
  PROVE  ~Completed(id)
BY DEF Concluded, StoredLearned, Away

\* A call takes its run to where what is said of it holds again, and what was
\* reached stays reached.
Further(id) == \A n : id \in DOMAIN mem.runs /\ Reached(id, n) => Reached(id, n)'
Advances(id) == read' = read /\ ShapeBut(id) /\ Concluded(id)' /\ Further(id)

\* A call that leaves the steps of its run alone, and its iteration.
LEMMA StepsStay ==
  ASSUME NEW id, mem'["runs"][id].steps = mem["runs"][id].steps,
         mem'["runs"][id].iteration = mem["runs"][id].iteration
  PROVE  Further(id)
BY DEF Further, Reached

\* One run changes, and the reader has seen nothing that changed.
LEMMA OneConcludes ==
  ASSUME RecordInv, ReadOK, \A o \in Ids : Concluded(o), NEW id \in Ids, Advances(id),
         \A o \in Ids : o # id => at'[o] = at[o] /\ held'[o] = held[o]
  PROVE  ReadOK' /\ \A o \in Ids : Concluded(o)'
<1>1. ASSUME NEW o \in Ids, o # id
      PROVE  /\ o \in DOMAIN mem["runs"] <=> o \in DOMAIN mem'["runs"]
             /\ o \in DOMAIN mem["runs"] => mem'["runs"][o] = mem["runs"][o]
  BY <1>1 DEF Advances, ShapeBut, RunStays
<1>2. ASSUME NEW o \in Ids PROVE o \in DOMAIN mem["runs"] => \A n : Reached(o, n) => Reached(o, n)'
  BY <1>1 DEF Advances, Further, Reached
<1>3. ASSUME NEW o \in Ids, o # id, o \in DOMAIN mem["runs"] \/ at[o] = Away PROVE Concluded(o)'
  <2>1. Concluded(o) /\ at'[o] = at[o] /\ held'[o] = held[o]
    BY <1>3
  <2>2. o \in DOMAIN mem["runs"] => mem'["runs"][o] = mem["runs"][o]
    BY <1>1, <1>3
  <2>3. o \in DOMAIN mem["runs"] <=> o \in DOMAIN mem'["runs"]
    BY <1>1, <1>3
  <2>4. StoredLearned(o)'
    BY <2>1, <2>2, <2>3 DEF Concluded, StoredLearned, Completed
  <2>5. HeldLearned(o)'
    BY <1>3, <2>1, <2>2 DEF Concluded, HeldLearned, Away
  <2> QED BY <2>4, <2>5 DEF Concluded
<1>4. \A o \in DOMAIN mem["runs"] : o \in Ids /\ o \in DOMAIN mem'["runs"]
  BY DEF RecordInv, Shape, Advances, ShapeBut
<1>6. \A o \in Ids : at[o] # Away => o \in DOMAIN mem["runs"]
  BY DEF RecordInv, HeldOK
<1>5. ReadOK'
  <2>1. read' = read
    BY DEF Advances
  <2> QED BY <1>2, <1>4, <2>1 DEF ReadOK
<1> QED BY <1>3, <1>5, <1>6 DEF Advances

\* The others of a call that leaves at and held as they are, but for one run.
Moves(id) == \A o \in Ids : o # id => at'[o] = at[o] /\ held'[o] = held[o]

LEMMA OnlyOneMoves ==
  ASSUME Shape, NEW id \in Ids, RunCall(id)
  PROVE  Moves(id) /\ focus' = focus
<1>1. DOMAIN at = Ids /\ DOMAIN held = Ids
  BY DEF Shape
<1>2. \/ \E a : at' = [at EXCEPT ![id] = a]
      \/ at' = at
  BY Zenon DEF RunCall, SubmitRun, Enter, Leave, Suspend, Iterate, Finish, Close, Redrive, Steer, AppendStored, SelectRow
<1>3. \/ \E g : held' = [held EXCEPT ![id] = g]
      \/ held' = held
  BY Zenon DEF RunCall, SubmitRun, Enter, Leave, Suspend, Iterate, Finish, Close, Redrive, Steer, AppendStored, SelectRow, SaveRun
<1>4. focus' = focus
  BY Zenon DEF RunCall, SubmitRun, Enter, Leave, Suspend, Iterate, Finish, Close, Redrive, Steer, AppendStored, SelectRow
<1> QED BY <1>1, <1>2, <1>3, <1>4 DEF Moves

\* A call that leaves the steps alone, stored and held, and both iterations, and
\* does not end the run.
LEMMA Onward ==
  ASSUME NEW id, Concluded(id), at[id] # Away,
         mem'["runs"][id].steps = mem["runs"][id].steps,
         mem'["runs"][id].iteration = mem["runs"][id].iteration,
         held'[id]["mem"].steps = held[id]["mem"].steps,
         held'[id]["mem"].iteration = held[id]["mem"].iteration,
         ~Completed(id)', id \in DOMAIN mem["runs"],
         ~(at'[id].pos = 6 /\ at'[id].phase \in {"between", "closing"})
  PROVE  Concluded(id)' /\ Further(id)
<1>1. StoredLearned(id)'
  BY DEF Concluded, StoredLearned
<1>2. HeldLearned(id)'
  BY DEF Concluded, HeldLearned
<1> QED BY <1>1, <1>2, StepsStay DEF Concluded

\* A call that saves the steps the engine holds, at its iteration.
LEMMA SavedLearned ==
  ASSUME RecordInv, NEW id \in Ids, Concluded(id), at[id] # Away,
         mem'["runs"][id].steps = held[id]["mem"].steps,
         mem'["runs"][id].iteration = held[id]["mem"].iteration
  PROVE  AllLearned(mem'["runs"][id].steps, mem'["runs"][id].iteration) /\ Further(id)
<1>1. /\ mem.runs[id].steps = held[id]["mem"].steps
      /\ mem.runs[id].iteration <= held[id]["mem"].iteration
      /\ AllLearned(mem.runs[id].steps, held[id]["mem"].iteration)
  BY DEF Concluded, HeldLearned
<1>2. mem.runs[id].iteration \in Nat /\ held[id]["mem"].iteration \in Nat
  <2>1. HeldOK(id)
    BY DEF RecordInv
  <2>2. id \in DOMAIN mem.runs /\ RunOK(id, held[id]["mem"], now)
    BY <2>1 DEF HeldOK
  <2>3. RunOK(id, mem.runs[id], now)
    BY <2>2 DEF RecordInv, StoredOK
  <2> QED BY <2>2, <2>3 DEF RunOK
<1>3. Further(id)
  BY <1>1, <1>2 DEF Further, Reached
<1> QED BY <1>1, <1>3

LEMMA SubmitAdvances ==
  ASSUME RecordInv, ClockInv, ClockInv', NEW id \in Ids, SubmitRun(id)
  PROVE  Advances(id)
<1>1. Wrote(id)
  BY SubmitKeeps
<1>2. /\ ~Completed(id) /\ read' = read /\ at' = [at EXCEPT ![id] = [pos |-> 1, phase |-> "between"]]
      /\ held' = [held EXCEPT ![id] = [b \in Backends |-> NewRun(id, TenantOf[id])]]
  BY DEF SubmitRun, Stored, Completed, SaveRun
<1>3. DOMAIN at = Ids /\ DOMAIN held = Ids /\ "mem" \in Backends
  BY DEF RecordInv, Shape, Backends
<1>4. at'[id] = [pos |-> 1, phase |-> "between"] /\ mem'["runs"][id] = NewRun(id, TenantOf[id])
  BY <1>1, <1>2, <1>3 DEF Wrote
<1>5. at'[id].pos = 1 /\ mem'["runs"][id].status = "pending" /\ mem'["runs"][id].iteration = 0
  BY <1>4 DEF NewRun
<1>6. \A steps : AllLearned(steps, 0)
  BY DEF AllLearned
<1>7. mem'["runs"][id] = held'[id]["mem"]
  BY <1>1 DEF Wrote
<1>8. Concluded(id)'
  BY <1>5, <1>6, <1>7 DEF Concluded, StoredLearned, HeldLearned, Completed
<1>9. Further(id)
  BY DEF SubmitRun, Stored, Further
<1> QED BY <1>1, <1>2, <1>8, <1>9 DEF Advances, Wrote

LEMMA EnterAdvances ==
  ASSUME RecordInv, NEW id \in Ids, Concluded(id), Enter(id)
  PROVE  Advances(id)
<1>1. /\ at[id].phase = "between" /\ at[id].pos \in 1..5 /\ SetStatus(id, Loop[at[id].pos])
      /\ at' = [at EXCEPT ![id].phase = "inside"] /\ now' = now /\ read' = read
  BY Zenon, LoopIs DEF Enter
<1>2. id \in DOMAIN mem.runs /\ PlaceOK(at[id], held[id])
  BY <1>1, HeldParts
<1>3. Loop[at[id].pos] \in Status /\ Loop[at[id].pos] # "completed"
  BY <1>1, LoopIs DEF Terminal
<1>4. /\ ShapeBut(id) /\ mem'["runs"][id].status = Loop[at[id].pos]
      /\ mem'["runs"][id].steps = mem["runs"][id].steps
      /\ mem'["runs"][id].iteration = mem["runs"][id].iteration
  BY <1>1, <1>2, <1>3, StatusRun DEF RunFields
<1>5. at'[id].phase = "inside"
  <2>1. DOMAIN at = Ids /\ at[id] = [pos |-> at[id].pos, phase |-> at[id].phase]
    BY <1>2 DEF RecordInv, Shape, PlaceOK
  <2>2. at'[id] = [at[id] EXCEPT !.phase = "inside"]
    BY <1>1, <2>1
  <2> QED BY <2>1, <2>2
<1>6. held'[id]["mem"].steps = held[id]["mem"].steps /\ held'[id]["mem"].iteration = held[id]["mem"].iteration
  <2> DEFINE h == held[id]["mem"]
             st == Loop[at[id].pos]
  <2>1. IsRun(h) /\ DOMAIN held = Ids /\ "mem" \in Backends
    BY <1>1, HeldParts DEF RecordInv, Shape, Backends
  <2>2. held' = [held EXCEPT ![id] = [b \in Backends |-> [held[id][b] EXCEPT !.status = st, !.updated = now]]]
    BY Zenon DEF Enter
  <2>3. held'[id]["mem"] = [h EXCEPT !.status = st, !.updated = now]
    BY <2>1, <2>2
  <2> HIDE DEF h, st
  <2>4. \A x, t : LET q == [h EXCEPT !.status = x, !.updated = t]
                  IN  Edited(q, h, {"status", "updated"}) /\ q.status = x
    BY Zenon, <2>1, RunEdits
  <2> DEFINE q == [h EXCEPT !.status = st, !.updated = now]
  <2>6. Edited(q, h, {"status", "updated"})
    BY Zenon, <2>4
  <2>5. Edited(held'[id]["mem"], h, {"status", "updated"})
    BY Zenon, <2>3, <2>6
  <2> QED BY <2>5 DEF Edited, RunFields, h
<1>7. ~Completed(id)' /\ at[id] # Away
  BY <1>1, <1>3, <1>4 DEF Completed, Away
<1>8. Concluded(id)' /\ Further(id)
  BY <1>2, <1>4, <1>5, <1>6, <1>7, Onward
<1> QED BY <1>1, <1>4, <1>8 DEF Advances

LEMMA LeaveAdvances ==
  ASSUME RecordInv, ClockInv, ClockInv', NEW id \in Ids, Concluded(id), Leave(id)
  PROVE  Advances(id)
<1> DEFINE p == at[id].pos
           h == held[id]
           n == h["mem"].iteration
           s == h["mem"].steps
           step(b, ref, err) ==
             [iteration |-> h[b].iteration, stage |-> Loop[p], layer |-> LayerOf[Loop[p]],
              ref |-> ref, out |-> now, err |-> err, started |-> now, completed |-> now]
           g(ref, err) == [b \in Backends |-> AppendStep(h[b], step(b, ref, err))]
<1>1. PICK ref, err :
        /\ SaveRun(id, g(ref, err))
        /\ \/ ref \in Refs(Loop[p]) /\ err = None /\ at' = [at EXCEPT ![id] = [pos |-> p + 1, phase |-> "between"]]
           \/ ref = "" /\ err = "layer_call_failed" /\ at' = [at EXCEPT ![id].phase = "failing"]
  BY Zenon DEF Leave
<1>2. at[id].phase = "inside" /\ read' = read
  BY Zenon DEF Leave
<1>3. /\ PlaceOK(at[id], h) /\ RunOK(id, h["mem"], now) /\ IsRun(h["mem"])
  BY <1>2, HeldParts DEF Backends
<1>4. /\ p \in 1..5 /\ h["mem"].status = Loop[p] /\ Loop[p] # "completed" /\ n \in Nat /\ s \in Seq(StepSet)
      /\ Dated(s, now)
  BY <1>2, <1>3, LoopIs DEF PlaceOK, RunOK, Terminal
<1> DEFINE e == step("mem", ref, err)
<1>5. Wrote(id) /\ mem'["runs"][id] = AppendStep(h["mem"], e)
  <2>1. Wrote(id)
    BY LeaveKeeps
  <2>2. DOMAIN held = Ids /\ "mem" \in Backends
    BY DEF RecordInv, Shape, Backends
  <2>3. held' = [held EXCEPT ![id] = g(ref, err)]
    BY Zenon, <1>1 DEF SaveRun
  <2>4. held'[id] = g(ref, err)
    BY <2>2, <2>3
  <2>5. held'[id]["mem"] = AppendStep(h["mem"], e)
    BY <2>2, <2>4
  <2> QED BY <2>1, <2>5 DEF Wrote
<1>6. e \in StepSet /\ e.err = err /\ Key(e) = <<n, Loop[p]>>
  <2>1. now \in Nat
    BY DEF ClockInv
  <2>2. e \in StepSet
    BY Zenon, <1>1, <1>4, <2>1, LeaveStep
  <2> QED BY <2>2 DEF Key
<1> HIDE DEF e, g, step
<1>7. /\ Edited(mem'["runs"][id], h["mem"], {"steps", "updated"})
      /\ mem'["runs"][id].steps = Append(s, e)
  <2>1. \A x : LET q == AppendStep(h["mem"], x)
               IN  Edited(q, h["mem"], {"steps", "updated"}) /\ q.steps = Append(s, x)
    BY Zenon, <1>3, RunEdits
  <2> QED BY <1>5, <2>1
<1>8. mem'["runs"][id].status = Loop[p] /\ mem'["runs"][id].iteration = n
  BY <1>4, <1>7 DEF Edited, RunFields
<1>9. DOMAIN at = Ids /\ at[id] = [pos |-> p, phase |-> "inside"]
  BY <1>2, <1>3 DEF RecordInv, Shape, PlaceOK
<1> HIDE DEF p
<1>10. \/ err = None /\ at'[id].pos = p + 1
       \/ at'[id].phase = "failing"
  <2>1. CASE err = None /\ at' = [at EXCEPT ![id] = [pos |-> p + 1, phase |-> "between"]]
    <3>1. at'[id] = [pos |-> p + 1, phase |-> "between"]
      BY <1>9, <2>1
    <3> QED BY <2>1, <3>1
  <2>2. CASE at' = [at EXCEPT ![id].phase = "failing"]
    <3>1. at'[id] = [at[id] EXCEPT !.phase = "failing"]
      BY <1>9, <2>2
    <3> QED BY <1>9, <3>1
  <2> QED BY Zenon, <1>1, <2>1, <2>2
<1>11. ASSUME at'[id].pos = 6, at'[id].phase \in {"between", "closing"}
       PROVE  Learned(mem'["runs"][id].steps, mem'["runs"][id].iteration)
  <2>1. err = None /\ p = 5
    BY <1>4, <1>10, <1>11
  <2>2. Key(e) = <<n, "learning">>
    BY <1>6, <2>1, LoopIs
  <2>3. Rows(Append(s, e)) = Merge(Rows(s), e)
    BY <1>4, <1>6, OneMore
  <2> DEFINE d == Rows(s)
             k == <<n, "learning">>
  <2>4. Key(e) \in DOMAIN Merge(d, e) /\ Merge(d, e)[Key(e)].err = None
    <3> HIDE DEF d, s
    <3>1. Merge(d, e)[Key(e)] = IF Key(e) \in DOMAIN d THEN Updated(d[Key(e)], e) ELSE e
      BY DEF Merge
    <3>2. Key(e) \in DOMAIN d => d[Key(e)] \in StepSet
      <4>1. WellRows(d)
        BY <1>4, RowsWell DEF d
      <4> QED BY <4>1 DEF WellRows
    <3>3. Key(e) \in DOMAIN d => Updated(d[Key(e)], e).err = e.err
      BY <1>6, <3>2, UpdatedIs
    <3>4. Key(e) \in DOMAIN Merge(d, e)
      BY DEF Merge
    <3> QED BY <1>6, <2>1, <3>1, <3>3, <3>4
  <2> QED BY <1>7, <1>8, <2>2, <2>3, <2>4 DEF Learned
<1>12. /\ id \in DOMAIN mem'["runs"] /\ mem'["runs"][id] = held'[id]["mem"]
  BY <1>5 DEF Wrote, ShapeBut
<1>13. /\ mem["runs"][id].steps = s /\ mem["runs"][id].iteration <= n /\ AllLearned(s, n)
       /\ mem["runs"][id].iteration \in Nat
  <2>1. at[id] # Away /\ RunOK(id, mem["runs"][id], now)
    BY <1>2, HeldParts
  <2> QED BY <2>1 DEF Concluded, HeldLearned, RunOK
<1>14. Rows(Append(s, e)) = Merge(Rows(s), e)
  BY <1>4, <1>6, OneMore
<1>15. /\ DOMAIN Rows(s) \subseteq DOMAIN Rows(Append(s, e))
       /\ \A k \in DOMAIN Rows(s) : k # Key(e) => Rows(Append(s, e))[k] = Rows(s)[k]
  BY <1>14 DEF Merge
<1>16. AllLearned(Append(s, e), n)
  <2> SUFFICES ASSUME NEW m \in 0..n - 1 PROVE Learned(Append(s, e), m)
    BY DEF AllLearned
  <2>1. Learned(s, m)
    BY <1>13 DEF AllLearned
  <2>2. <<m, "learning">> # Key(e)
    BY <1>4, <1>6
  <2> QED BY <1>15, <2>1, <2>2 DEF Learned
<1>17. Further(id)
  <2> SUFFICES ASSUME NEW m, Reached(id, m) PROVE Reached(id, m)'
    BY DEF Further
  <2>1. m \in Nat /\ m <= n /\ <<m, "learning">> \in DOMAIN Rows(s)
    BY <1>4, <1>13 DEF Reached
  <2> QED BY <1>7, <1>8, <1>15, <2>1 DEF Reached
<1>18. StoredLearned(id)'
  BY <1>4, <1>7, <1>8, <1>16 DEF StoredLearned, Completed
<1>19. HeldLearned(id)'
  <2>1. /\ held'[id]["mem"].steps = mem'["runs"][id].steps
        /\ held'[id]["mem"].iteration = mem'["runs"][id].iteration
    BY <1>12
  <2>2. /\ mem'["runs"][id].iteration <= mem'["runs"][id].iteration
        /\ AllLearned(mem'["runs"][id].steps, mem'["runs"][id].iteration)
    BY <1>4, <1>7, <1>8, <1>16
  <2> HIDE DEF s, n, h
  <2> QED BY <1>11, <2>1, <2>2 DEF HeldLearned
<1> QED BY <1>2, <1>5, <1>17, <1>18, <1>19 DEF Advances, Concluded, Wrote

LEMMA SuspendAdvances ==
  ASSUME RecordInv, ClockInv, NEW id \in Ids, Concluded(id), Suspend(id)
  PROVE  Advances(id)
<1>1. Wrote(id)
  BY SuspendKeeps
<1> DEFINE h == held[id]
           g == [b \in Backends |->
                   [h[b] EXCEPT !.status = "awaiting_approval", !.pending = Last(h[b].steps).ref]]
<1>2. /\ at[id] = [pos |-> 4, phase |-> "between"] /\ at' = [at EXCEPT ![id] = Away] /\ read' = read
      /\ held' = [held EXCEPT ![id] = g]
  BY Zenon DEF Suspend, SaveRun
<1>3. DOMAIN at = Ids /\ DOMAIN held = Ids /\ "mem" \in Backends
  BY DEF RecordInv, Shape, Backends
<1>4. at[id].phase = "between"
  <2>1. at[id] = [pos |-> 4, phase |-> "between"]
    BY Zenon, <1>2
  <2> QED BY <2>1
<1>5. at'[id].pos # 6
  <2>1. at'[id] = Away
    BY Zenon, <1>2, <1>3
  <2> QED BY <2>1 DEF Away
<1>6. /\ mem'["runs"][id].status = "awaiting_approval"
      /\ mem'["runs"][id].steps = h["mem"].steps /\ mem'["runs"][id].iteration = h["mem"].iteration
  <2>1. IsRun(h["mem"])
    BY <1>3, <1>4, HeldParts
  <2>2. held'[id] = g
    BY Zenon, <1>2, <1>3
  <2>3. held'[id]["mem"] = [h["mem"] EXCEPT !.status = "awaiting_approval", !.pending = Last(h["mem"].steps).ref]
    BY Zenon, <1>3, <2>2
  <2> HIDE DEF h
  <2>4. \A st, p : LET q == [h["mem"] EXCEPT !.status = st, !.pending = p]
                   IN  Edited(q, h["mem"], {"status", "pending"}) /\ q.status = st /\ q.pending = p
    BY Zenon, <2>1, RunEdits
  <2> DEFINE q == [h["mem"] EXCEPT !.status = "awaiting_approval", !.pending = Last(h["mem"].steps).ref]
  <2>6. Edited(q, h["mem"], {"status", "pending"}) /\ q.status = "awaiting_approval"
    BY Zenon, <2>4
  <2>5. /\ Edited(held'[id]["mem"], h["mem"], {"status", "pending"})
        /\ held'[id]["mem"].status = "awaiting_approval"
    BY Zenon, <2>3, <2>6
  <2> QED BY <1>1, <2>5 DEF Wrote, Edited, RunFields
<1>7. at[id] # Away /\ at'[id] = Away
  <2>1. at'[id] = Away
    BY Zenon, <1>2, <1>3
  <2> QED BY <1>4, <2>1 DEF Away
<1>8. AllLearned(mem'["runs"][id].steps, mem'["runs"][id].iteration) /\ Further(id)
  BY <1>6, <1>7, SavedLearned
<1>9. Concluded(id)'
  BY <1>5, <1>6, <1>7, <1>8 DEF Concluded, StoredLearned, HeldLearned, Completed
<1> QED BY Zenon, <1>1, <1>2, <1>8, <1>9 DEF Advances, Wrote

LEMMA IterateAdvances ==
  ASSUME RecordInv, NEW id \in Ids, Concluded(id), Iterate(id)
  PROVE  Advances(id)
<1>1. /\ at[id] = [pos |-> 6, phase |-> "between"] /\ SetStatus(id, "observing")
      /\ at' = [at EXCEPT ![id] = [pos |-> 1, phase |-> "between"]] /\ now' = now /\ read' = read
  BY Zenon DEF Iterate
<1>2. at[id].phase = "between" /\ DOMAIN at = Ids
  <2>1. at[id] = [pos |-> 6, phase |-> "between"]
    BY <1>1
  <2> QED BY <2>1 DEF RecordInv, Shape
<1>3. id \in DOMAIN mem.runs
  BY <1>2, HeldParts
<1>4. /\ ShapeBut(id) /\ mem'["runs"][id].status = "observing"
      /\ mem'["runs"][id].steps = mem["runs"][id].steps
      /\ mem'["runs"][id].iteration = mem["runs"][id].iteration
  <2>1. "observing" \in Status
    BY DEF Status, LoopStage
  <2> QED BY <1>1, <1>3, <2>1, StatusRun DEF RunFields
<1>5. at'[id].pos = 1
  <2>1. at'[id] = [pos |-> 1, phase |-> "between"]
    BY <1>1, <1>2
  <2> QED BY <2>1
<1> DEFINE h == held[id]["mem"]
           n == mem["runs"][id].iteration
<1>6. /\ n = h.iteration /\ n \in Nat /\ mem["runs"][id].steps = h.steps
      /\ Learned(mem["runs"][id].steps, n) /\ AllLearned(mem["runs"][id].steps, n)
  <2>1. at[id].pos = 6 /\ at[id] # Away /\ RunOK(id, mem["runs"][id], now)
    <3>1. at[id] = [pos |-> 6, phase |-> "between"]
      BY <1>1
    <3> QED BY <1>2, <3>1, HeldParts
  <2> QED BY <1>2, <1>3, <2>1 DEF Concluded, StoredLearned, HeldLearned, RunOK
<1>7. held'[id]["mem"].steps = h.steps /\ held'[id]["mem"].iteration = n + 1
  <2>1. IsRun(h) /\ DOMAIN held = Ids /\ "mem" \in Backends
    BY <1>2, HeldParts DEF RecordInv, Shape, Backends
  <2>2. held' = [held EXCEPT ![id] = [b \in Backends |->
                   [held[id][b] EXCEPT !.iteration = @ + 1, !.status = "observing", !.updated = now]]]
    BY Zenon DEF Iterate
  <2>3. held'[id]["mem"] = [h EXCEPT !.iteration = @ + 1, !.status = "observing", !.updated = now]
    BY <2>1, <2>2
  <2> HIDE DEF h, n
  <2>4. \A st, t : LET q == [h EXCEPT !.iteration = @ + 1, !.status = st, !.updated = t]
                   IN  Edited(q, h, {"iteration", "status", "updated"}) /\ q.status = st
                       /\ q.iteration = h.iteration + 1
    BY Zenon, <2>1, RunEdits
  <2> DEFINE q == [h EXCEPT !.iteration = @ + 1, !.status = "observing", !.updated = now]
  <2>6. Edited(q, h, {"iteration", "status", "updated"}) /\ q.iteration = h.iteration + 1
    BY Zenon, <2>4
  <2>5. Edited(held'[id]["mem"], h, {"iteration", "status", "updated"})
        /\ held'[id]["mem"].iteration = h.iteration + 1
    BY Zenon, <2>3, <2>6
  <2> QED BY <1>6, <2>5 DEF Edited, RunFields
<1> HIDE DEF h, n
<1>8. AllLearned(mem["runs"][id].steps, n + 1)
  <2>1. \A m \in 0..n : m = n \/ m \in 0..n - 1
    BY <1>6
  <2> QED BY <1>6, <2>1 DEF AllLearned
<1>9. mem'["runs"][id].iteration = n /\ n <= n + 1
  BY <1>4, <1>6 DEF n
<1>10. StoredLearned(id)'
  BY <1>4, <1>6, <1>9 DEF StoredLearned, Completed
<1>11. HeldLearned(id)'
  BY <1>4, <1>5, <1>6, <1>7, <1>8, <1>9 DEF HeldLearned
<1> QED BY <1>1, <1>4, <1>10, <1>11, StepsStay DEF Advances, Concluded

LEMMA FinishAdvances ==
  ASSUME RecordInv, NEW id \in Ids, Concluded(id), Finish(id)
  PROVE  Advances(id)
<1> DEFINE st == IF at[id].phase = "failing" THEN "failed" ELSE "completed"
           h == held[id]
           g == [b \in Backends |-> [CompleteRun(h[b], st, now) EXCEPT
                                       !.err = IF st = "failed" THEN "layer_call_failed" ELSE @]]
           F == {"status", "updated", "completed", "err"}
<1>1. /\ at[id].phase = "failing" \/ at[id] = [pos |-> 6, phase |-> "between"]
      /\ SetStatus(id, st) /\ held' = [held EXCEPT ![id] = g]
      /\ at' = [at EXCEPT ![id].phase = "closing"] /\ now' = now /\ read' = read
  BY DEF Finish
<1>2. /\ PlaceOK(at[id], h) /\ id \in DOMAIN mem.runs /\ IsRun(h["mem"])
  BY <1>1, HeldParts DEF Backends
<1>3. DOMAIN at = Ids /\ DOMAIN held = Ids /\ "mem" \in Backends
  BY DEF RecordInv, Shape, Backends
<1>4. st \in Status
  BY DEF Status, Terminal
<1> HIDE DEF st
<1>5. ShapeBut(id) /\ mem'["runs"][id].status = st
      /\ mem'["runs"][id].steps = mem["runs"][id].steps /\ mem'["runs"][id].iteration = mem["runs"][id].iteration
  BY <1>1, <1>2, <1>4, StatusRun DEF RunFields
<1>6. held'[id]["mem"].steps = h["mem"].steps /\ held'[id]["mem"].iteration = h["mem"].iteration
  <2>1. held'[id]["mem"] = [CompleteRun(h["mem"], st, now) EXCEPT
                              !.err = IF st = "failed" THEN "layer_call_failed" ELSE @]
    BY <1>1, <1>3
  <2> HIDE DEF h, g
  <2>2. Edited(held'[id]["mem"], h["mem"], F)
    BY <1>2, <2>1, FinishEdits
  <2> QED BY <2>2 DEF Edited, RunFields
<1>7. at[id] = [pos |-> at[id].pos, phase |-> at[id].phase] /\ (at[id].phase = "failing" => at[id].pos \in 1..5)
      /\ (at[id].phase = "between" => at[id].pos = 6) /\ at[id].phase \in {"failing", "between"}
  <2>1. at[id] = [pos |-> 6, phase |-> "between"] => at[id].pos = 6 /\ at[id].phase = "between"
    OBVIOUS
  <2> QED BY <1>1, <1>2, <2>1 DEF PlaceOK
<1>8. at'[id] = [pos |-> at[id].pos, phase |-> "closing"]
  <2>1. at'[id] = [at[id] EXCEPT !.phase = "closing"]
    BY <1>1, <1>3
  <2> QED BY <1>7, <2>1
<1>9. at[id] # Away /\ id \in DOMAIN mem'["runs"]
  BY <1>5, <1>7 DEF Away, ShapeBut
<1>10. Concluded(id)'
  <2>1. CASE at[id].phase = "failing"
    <3>1. at'[id].pos # 6 /\ st # "completed"
      BY <1>7, <1>8, <2>1 DEF st
    <3>2. ~Completed(id)'
      BY <1>5, <3>1 DEF Completed
    <3> HIDE DEF h
    <3> QED BY <1>2, <1>5, <1>6, <1>9, <3>1, <3>2, Onward DEF h
  <2>2. CASE at[id].phase = "between"
    <3>1. /\ mem.runs[id].steps = h["mem"].steps /\ mem.runs[id].iteration = h["mem"].iteration
          /\ Learned(mem.runs[id].steps, mem.runs[id].iteration)
          /\ AllLearned(mem.runs[id].steps, mem.runs[id].iteration)
          /\ mem.runs[id].iteration <= h["mem"].iteration
      BY <1>2, <1>7, <1>9, <2>2 DEF Concluded, StoredLearned, HeldLearned
    <3>2. at'[id] = [pos |-> 6, phase |-> "closing"]
      BY <1>7, <1>8, <2>2
    <3> DEFINE m == mem'["runs"][id]
    <3>3. /\ m.steps = h["mem"].steps /\ m.iteration = h["mem"].iteration
          /\ Learned(m.steps, m.iteration) /\ AllLearned(m.steps, m.iteration)
      BY <1>5, <3>1
    <3> HIDE DEF h
    <3>4. m.iteration <= m.iteration
      BY <1>5, <3>1, <3>3
    <3>5. StoredLearned(id)'
      BY <3>2, <3>3 DEF StoredLearned
    <3>6. HeldLearned(id)'
      BY <1>6, <3>3, <3>4 DEF HeldLearned, h
    <3> QED BY <3>5, <3>6 DEF Concluded
  <2> QED BY <1>7, <2>1, <2>2
<1> QED BY <1>1, <1>5, <1>10, StepsStay DEF Advances

LEMMA CloseAdvances ==
  ASSUME RecordInv, ClockInv, NEW id \in Ids, Concluded(id), Close(id)
  PROVE  Advances(id)
<1>1. Wrote(id)
  BY CloseKeeps
<1>2. /\ at[id].phase = "closing" /\ at' = [at EXCEPT ![id] = Away] /\ read' = read
      /\ held' = [held EXCEPT ![id] = held[id]]
  BY DEF Close, SaveRun
<1>3. PlaceOK(at[id], held[id])
  BY <1>2, HeldParts
<1>4. DOMAIN at = Ids /\ DOMAIN held = Ids
  BY DEF RecordInv, Shape
<1>5. mem'["runs"][id] = held[id]["mem"] /\ at'[id] = Away /\ Away.pos = 0
  BY <1>1, <1>2, <1>4 DEF Wrote, Away
<1>6. held[id]["mem"].status = IF at[id].pos = 6 THEN "completed" ELSE "failed"
  BY <1>2, <1>3 DEF PlaceOK
<1>7. at[id].pos = 6 => /\ mem.runs[id].steps = held[id]["mem"].steps
                        /\ mem.runs[id].iteration = held[id]["mem"].iteration
                        /\ Learned(mem.runs[id].steps, mem.runs[id].iteration)
  BY <1>2 DEF Concluded, HeldLearned, Away
<1>8. at[id] # Away /\ AllLearned(mem'["runs"][id].steps, mem'["runs"][id].iteration) /\ Further(id)
  <2>1. at[id] # Away
    BY <1>2 DEF Away
  <2> QED BY <1>5, <2>1, SavedLearned
<1>9. StoredLearned(id)'
  BY <1>5, <1>6, <1>7, <1>8 DEF StoredLearned, Completed
<1>10. HeldLearned(id)'
  BY <1>5 DEF HeldLearned
<1> QED BY <1>1, <1>2, <1>8, <1>9, <1>10 DEF Advances, Concluded, Wrote

LEMMA RedriveAdvances ==
  ASSUME RecordInv, ClockInv, NEW id \in Ids, Concluded(id), Redrive(id)
  PROVE  Advances(id)
<1> DEFINE g == GetRun(id)
           k == [b \in Backends |-> [g[b] EXCEPT !.pending = None]]
           r == mem["runs"][id]
<1>1. /\ id \in DOMAIN mem.runs /\ read' = read
      /\ \/ /\ g["mem"].status = "awaiting_approval" /\ SaveRun(id, k)
            /\ at' = [at EXCEPT ![id] = [pos |-> 4, phase |-> "between"]]
         \/ /\ held' = [held EXCEPT ![id] = g] /\ UNCHANGED stores
            /\ at' = [at EXCEPT ![id] = [pos |-> 1, phase |-> "between"]]
  BY DEF Redrive, Stored
<1>2. g["mem"] = r /\ IsRun(r) /\ RunOK(id, r, now)
  BY <1>1, GetParts DEF RecordInv, StoredOK, RunOK
<1>3. DOMAIN at = Ids /\ DOMAIN held = Ids /\ "mem" \in Backends
  BY DEF RecordInv, Shape, Backends
<1>4. /\ AllLearned(r.steps, r.iteration) /\ (Completed(id) => Learned(r.steps, r.iteration))
      /\ r.iteration \in Nat /\ r.iteration <= r.iteration
  BY <1>1, <1>2 DEF Concluded, StoredLearned, RunOK
<1> HIDE DEF g
<1>5. CASE /\ r.status = "awaiting_approval" /\ SaveRun(id, k)
           /\ at' = [at EXCEPT ![id] = [pos |-> 4, phase |-> "between"]]
  <2>1. held'[id] = k
    BY <1>3, <1>5 DEF SaveRun
  <2>2. held'[id]["mem"] = [r EXCEPT !.pending = None]
    BY <1>2, <1>3, <2>1
  <2> HIDE DEF k, r
  <2>12. IsRun(r)
    BY <1>2
  <2>3. \A p : LET q == [r EXCEPT !.pending = p]
               IN  Edited(q, r, {"pending"}) /\ q.pending = p
    BY Zenon, <2>12, RunEdits
  <2> DEFINE q == [r EXCEPT !.pending = None]
  <2>11. Edited(q, r, {"pending"})
    BY Zenon, <2>3
  <2>4. Edited(held'[id]["mem"], r, {"pending"})
    BY Zenon, <2>2, <2>11
  <2>5. ShapeBut(id) /\ mem'["runs"][id] = held'[id]["mem"]
    <3>1. at'[id].pos # 1
      BY <1>3, <1>5
    <3> QED BY <3>1, RedriveKeeps DEF Wrote
  <2>6. /\ mem'["runs"][id].steps = r.steps /\ mem'["runs"][id].iteration = r.iteration
        /\ mem'["runs"][id].status = r.status
    BY <2>4, <2>5 DEF Edited, RunFields
  <2>7. at'[id].pos = 4
    BY <1>3, <1>5
  <2>8. StoredLearned(id)'
    BY <1>4, <1>5, <2>6 DEF StoredLearned, Completed
  <2>9. HeldLearned(id)'
    BY <1>4, <2>5, <2>6, <2>7 DEF HeldLearned
  <2>10. Further(id)
    BY <2>6, StepsStay DEF r
  <2> QED BY <1>1, <2>5, <2>8, <2>9, <2>10 DEF Advances, Concluded
<1>6. CASE /\ held' = [held EXCEPT ![id] = g] /\ UNCHANGED stores
           /\ at' = [at EXCEPT ![id] = [pos |-> 1, phase |-> "between"]]
  <2>1. mem' = mem /\ ShapeBut(id)
    BY <1>1, <1>6, UnchangedBut DEF stores
  <2>2. held'[id] = g /\ at'[id] = [pos |-> 1, phase |-> "between"]
    BY <1>3, <1>6
  <2>3. at'[id].pos = 1 /\ held'[id]["mem"] = r
    BY <1>2, <2>2
  <2>4. StoredLearned(id)'
    BY <1>4, <2>1, <2>2 DEF StoredLearned, Completed
  <2>5. HeldLearned(id)'
    BY <1>4, <2>1, <2>3 DEF HeldLearned
  <2>6. Further(id)
    BY <2>1, StepsStay
  <2> QED BY <1>1, <2>1, <2>4, <2>5, <2>6 DEF Advances, Concluded
<1> QED BY <1>1, <1>2, <1>5, <1>6

\* Where no run changes, what is said of each still holds.
LEMMA StandsStill ==
  ASSUME \A o \in Ids : Concluded(o), UNCHANGED <<at, held>>, mem'["runs"] = mem["runs"]
  PROVE  \A o \in Ids : Concluded(o)'
BY DEF Concluded, StoredLearned, HeldLearned, Completed

LEMMA SelectRowTorn ==
  ASSUME RecordInv, TornInv, NEW id \in Ids, SelectRow(id)
  PROVE  TornInv'
<1>1. /\ focus = "reads" /\ focus' = focus /\ id \in DOMAIN mem.runs
      /\ mem' = mem /\ at' = at /\ held' = held
      /\ read' = [pc |-> "rows", id |-> id, row |-> Lite!SelectRun(lite, id),
                  steps |-> Lite!LoadProvenance(lite, id)]
  BY DEF SelectRow, Stored
<1>2. read'.pc = "rows" /\ read'.id = id /\ read'.row = Lite!ScanRun(lite.runs[id])
  <2>1. id \in DOMAIN lite.runs
    BY <1>1 DEF RecordInv, Shape
  <2>2. Lite!SelectRun(lite, id) = Lite!ScanRun(lite.runs[id])
    BY <2>1 DEF Lite!SelectRun
  <2> QED BY <1>1, <2>2
<1>3. Alike(Lite!ScanRun(lite.runs[id]), mem.runs[id])
  BY <1>1 DEF RecordInv, StoredOK, Fits
<1>4. /\ IsRun(read'.row) /\ read'.row.status = mem.runs[id].status
      /\ read'.row.iteration = mem.runs[id].iteration
  BY <1>2, <1>3 DEF Alike, RunFields
<1>5. Completed(id) => Reached(id, mem.runs[id].iteration)
  <2>1. Concluded(id) /\ RunOK(id, mem.runs[id], now)
    BY <1>1 DEF TornInv, RecordInv, StoredOK
  <2> QED BY <2>1 DEF Concluded, StoredLearned, Learned, Reached, RunOK
<1>6. ReadOK'
  BY <1>1, <1>2, <1>4, <1>5 DEF ReadOK, Completed, Reached
<1>7. \A o \in Ids : Concluded(o)'
  BY <1>1, StandsStill DEF TornInv
<1> QED BY <1>1, <1>6, <1>7 DEF TornInv

\* What the two queries of a Get give together, when the second is asked.
GivesLearned ==
  SelectSteps /\ read'.run.status = "completed" =>
    \E s \in ToSet(read'.run.steps) :
      /\ s.iteration = read'.run.iteration /\ s.stage = "learning"
      /\ s.err = None \/ lite.runs[read.id].status # "completed"

LEMMA SelectStepsTorn ==
  ASSUME RecordInv, TornInv, SelectSteps
  PROVE  TornInv' /\ GivesLearned
<1> DEFINE id == read.id
           s == mem.runs[id].steps
           d == Rows(s)
           L == Lite!LoadProvenance(lite, id)
<1>1. /\ read # None /\ read.pc = "rows"
      /\ focus' = focus /\ mem' = mem /\ at' = at /\ held' = held
      /\ read' = [pc |-> "done", id |-> id, run |-> [read.row EXCEPT !.steps = L]]
  BY DEF SelectSteps, GetAnswer
<1>2. focus = "reads" /\ ReadOK /\ \A o \in Ids : Concluded(o)
  BY <1>1 DEF TornInv
<1>3. /\ id \in DOMAIN mem.runs /\ id \in Ids /\ IsRun(read.row)
      /\ read.row.status = "completed" => Reached(id, read.row.iteration)
  BY <1>1, <1>2 DEF ReadOK, RecordInv, Shape
<1>4. WellRows(d) /\ ToSet(L) = RowSet(d)
  <2>1. /\ WellRows(d) /\ IsFiniteSet(RowSet(d)) /\ IsOrder(ByText(RowSet(d)), RowSet(d))
        /\ GetRun(id)["lite"].steps = InOrder(RowSet(d), ByText(RowSet(d)))
    BY <1>3, GetLoads
  <2>2. GetRun(id)["lite"].steps = L
    <3>1. Alike(Lite!ScanRun(lite.runs[id]), mem.runs[id])
      BY <1>3 DEF RecordInv, StoredOK, Fits
    <3> DEFINE r == Lite!ScanRun(lite.runs[id])
    <3>2. GetRun(id)["lite"] = [r EXCEPT !.steps = L]
      BY Zenon, <1>3, GetParts
    <3> HIDE DEF r, L
    <3>3. [r EXCEPT !.steps = L].steps = L
      BY <3>1, AlikeSteps DEF r
    <3> QED BY <3>2, <3>3
  <2> HIDE DEF d, L
  <2> QED BY Zenon, <2>1, <2>2, LoadedRows
<1> HIDE DEF L
<1>5. /\ read'.pc = "done" /\ read'.run.status = read.row.status
      /\ read'.run.iteration = read.row.iteration /\ read'.run.steps = L
  <2>1. read'.pc = "done" /\ read'.run = [read.row EXCEPT !.steps = L]
    BY <1>1
  <2>2. DOMAIN read.row = RunFields
    BY <1>3 DEF IsRun
  <2> QED BY <2>1, <2>2 DEF RunFields
<1>6. lite.runs[id].status = "completed" => Completed(id)
  <2>1. Alike(Lite!ScanRun(lite.runs[id]), mem.runs[id])
    BY <1>3 DEF RecordInv, StoredOK, Fits
  <2>2. Lite!ScanRun(lite.runs[id]).status = mem.runs[id].status
    BY <2>1 DEF Alike, RunFields
  <2>3. DOMAIN lite.runs[id] = RunFields
    <3>1. DOMAIN Lite!ScanRun(lite.runs[id]) = RunFields
      BY <2>1 DEF Alike, IsRun
    <3> QED BY <3>1 DEF Lite!ScanRun
  <2>4. Lite!ScanRun(lite.runs[id]).status = lite.runs[id].status
    BY <2>3 DEF Lite!ScanRun, RunFields
  <2> QED BY <1>3, <2>2, <2>4 DEF Completed
<1>7. ASSUME read'.run.status = "completed"
      PROVE  \E x \in ToSet(read'.run.steps) :
               /\ x.iteration = read'.run.iteration /\ x.stage = "learning"
               /\ x.err = None \/ lite.runs[id].status # "completed"
  <2> DEFINE n == read.row.iteration
             m == mem.runs[id].iteration
             k == <<n, "learning">>
  <2>1. n \in Nat /\ n <= m /\ m \in Nat /\ k \in DOMAIN d
    <3>1. RunOK(id, mem.runs[id], now)
      BY <1>3 DEF RecordInv, StoredOK
    <3> QED BY <1>3, <1>5, <1>7, <3>1 DEF Reached, RunOK
  <2>2. Completed(id) => Learned(s, n)
    <3>1. StoredLearned(id)
      BY <1>2, <1>3 DEF Concluded
    <3>2. AllLearned(s, m) /\ (Completed(id) => Learned(s, m))
      BY <1>3, <3>1 DEF StoredLearned
    <3>3. n = m \/ n \in 0..m - 1
      BY <2>1
    <3> HIDE DEF n, m, s
    <3> QED BY <3>2, <3>3 DEF AllLearned
  <2>3. d[k].err = None \/ lite.runs[id].status # "completed"
    <3> HIDE DEF n, s
    <3> QED BY <1>6, <2>2 DEF Learned
  <2> HIDE DEF d, n, m
  <2>4. Key(d[k]) = k /\ d[k] \in RowSet(d)
    BY <1>4, <2>1 DEF WellRows, RowSet
  <2>5. d[k].iteration = n /\ d[k].stage = "learning"
    BY <2>4 DEF Key
  <2> QED BY <1>4, <1>5, <2>3, <2>4, <2>5 DEF n
<1>8. GivesLearned
  BY <1>7 DEF GivesLearned
<1>9. ReadOK'
  BY <1>5 DEF ReadOK
<1>10. \A o \in Ids : Concluded(o)'
  BY <1>1, <1>2, StandsStill
<1> QED BY <1>1, <1>2, <1>8, <1>9, <1>10 DEF TornInv

LEMMA ForgetTorn ==
  ASSUME TornInv, Forget
  PROVE  TornInv'
<1>1. focus' = focus /\ mem' = mem /\ at' = at /\ held' = held /\ read' = None
  BY DEF Forget
<1>2. focus = "reads" => \A o \in Ids : Concluded(o)'
  BY <1>1, StandsStill DEF TornInv
<1> QED BY <1>1, <1>2 DEF TornInv, ReadOK

\* The reader and the runs stay.
LEMMA ReaderWaits ==
  ASSUME TornInv, focus' = focus, read' = read, UNCHANGED <<at, held>>,
         mem'["runs"] = mem["runs"]
  PROVE  TornInv'
<1>1. focus = "reads" => ReadOK' /\ \A o \in Ids : Concluded(o)'
  BY StandsStill DEF TornInv, ReadOK, Reached
<1> QED BY <1>1 DEF TornInv

LEMMA RunCallTorn ==
  ASSUME RecordInv, ClockInv, ClockInv', TornInv, NEW id \in Ids, RunCall(id)
  PROVE  TornInv'
<1>1. CASE SelectRow(id)
  BY <1>1, SelectRowTorn
<1>2. CASE ~SelectRow(id)
  <2>1. read' = read
    BY Zenon, <1>2 DEF RunCall, SubmitRun, Enter, Leave, Suspend, Iterate, Finish, Close, Redrive, Steer, AppendStored
  <2>2. Shape /\ Moves(id) /\ focus' = focus
    BY OnlyOneMoves DEF RecordInv
  <2>3. CASE focus # "reads"
    BY <2>1, <2>2, <2>3 DEF TornInv
  <2>4. CASE focus = "reads"
    <3>1. ReadOK /\ \A o \in Ids : Concluded(o)
      BY <2>4 DEF TornInv
    <3>2. ~Steer(id) /\ ~AppendStored(id)
      BY <2>4 DEF Steer, AppendStored
    <3>3. Advances(id)
      BY <1>2, <3>1, <3>2, SubmitAdvances, EnterAdvances, LeaveAdvances, SuspendAdvances, IterateAdvances,
         FinishAdvances, CloseAdvances, RedriveAdvances DEF RunCall
    <3>4. ReadOK' /\ \A o \in Ids : Concluded(o)'
      BY <2>2, <3>1, <3>3, OneConcludes DEF Moves
    <3> QED BY <2>2, <2>4, <3>4 DEF TornInv
  <2> QED BY <2>3, <2>4
<1> QED BY <1>1, <1>2

LEMMA TornKeeps ==
  ASSUME RecordInv, ClockInv, TornInv, [Next]_vars
  PROVE  TornInv'
<1>1. ClockInv'
  BY ClockKeeps
<1>2. ASSUME NEW id \in Ids, RunCall(id) PROVE TornInv'
  BY <1>1, <1>2, RunCallTorn
<1>3. CASE \/ UNCHANGED vars
           \/ \E p \in Submitters : FindSession(p) \/ UpsertSession(p)
           \/ \E t \in TypeDefs : RegisterType(t)
           \/ \E run \in Ids, kind \in {"approval_required", "outcome_written"} : LogEvent(run, kind)
           \/ \E run \in Ids : \/ \E req \in Requests : RaiseApproval(run, req)
                               \/ \E decision \in {"approve", "deny"} : ResolveApproval(run, decision)
  <2>1. RunsStay /\ UNCHANGED <<at, held>>
    BY <1>1, <1>3, ElsewhereKeeps
  <2>2. focus' = focus /\ read' = read
    BY Zenon, <1>3 DEF vars, FindSession, UpsertSession, RegisterType, LogEvent, RaiseApproval, ResolveApproval
  <2> QED BY <2>1, <2>2, ReaderWaits DEF RunsStay
<1> QED BY <1>2, <1>3, SelectStepsTorn, ForgetTorn DEF Next

\* However a driven run's saves and status writes fall between the two queries
\* of a SQL Get, through crashes and reloads of runs of any status, a run read
\* as completed comes with the learning step of its last iteration, and without
\* an error unless the completed run is by then driven again (RunRepo.Get of
\* internal/store/sqlite; Engine.Run; Worker.process, which reads no status).
THEOREM TornForwardAlways == Spec => TornForward
<1>1. Init => TornInv
  BY DEF Init, TornInv, ReadOK, Concluded, StoredLearned, HeldLearned, Completed, Away, Mem!New
<1>2. (RecordInv /\ ClockInv) /\ TornInv /\ [Next]_vars => TornInv'
  BY TornKeeps
<1>3. RecordInv /\ TornInv =>
        [SelectSteps /\ read'.run.status = "completed" =>
           \E s \in ToSet(read'.run.steps) :
             /\ s.iteration = read'.run.iteration /\ s.stage = "learning"
             /\ s.err = None \/ lite.runs[read.id].status # "completed"]_vars
  BY SelectStepsTorn DEF GivesLearned
<1> QED BY <1>1, <1>2, <1>3, RecordAlways, PTL DEF Spec, TornForward
=============================================================================
