--------------------------- MODULE RunStoreProofs ---------------------------
(***************************************************************************)
(* Promises of the three backends, for any number of runs, requests, types *)
(* and sessions: they hold the same approval as pending, an upsert does    *)
(* not move the beginning of a session, the catalogs of types and of       *)
(* sessions agree, and so do the trails of the audit log.                  *)
(***************************************************************************)
EXTENDS RunStore, SequenceTheorems, FiniteSetTheorems, TLAPS

LEMMA LookupPut ==
  ASSUME NEW table, NEW key, NEW row, NEW k
  PROVE  /\ (k \in DOMAIN Put(table, key, row)) <=> (k = key \/ k \in DOMAIN table)
         /\ k = key => Put(table, key, row)[k] = row
         /\ k # key /\ k \in DOMAIN table => Put(table, key, row)[k] = table[k]
BY DEF Put

-----------------------------------------------------------------------------
(* Lists in order.  A query answers with rows in an order, memory with a   *)
(* sorted slice: where the order tells rows apart there is one such list.  *)

\* An order tells any two rows apart and never turns back.
IsOrder(R, S) ==
  /\ \A x \in S : <<x, x>> \notin R
  /\ \A x, y \in S : x # y => <<x, y>> \in R \/ <<y, x>> \in R
  /\ \A x, y, z \in S : <<x, y>> \in R /\ <<y, z>> \in R => <<x, z>> \in R
Below(x, R, S) == {q \in S : <<q, x>> \in R}
\* s lists S, in the order.
Lists(s, n, R, S) ==
  /\ n \in Nat /\ s \in [1..n -> S]
  /\ \A x \in S : \E i \in 1..n : s[i] = x
  /\ \A i, j \in 1..n : i < j => <<s[i], s[j]>> \in R

LEMMA BelowCounts ==
  ASSUME NEW S, IsFiniteSet(S), NEW R, IsOrder(R, S)
  PROVE  /\ \A x \in S : Cardinality(Below(x, R, S)) \in 0..Cardinality(S) - 1
         /\ \A x, y \in S : <<x, y>> \in R
              => Cardinality(Below(x, R, S)) < Cardinality(Below(y, R, S))
<1>1. Cardinality(S) \in Nat
  BY FS_CardinalityType
<1>2. ASSUME NEW x \in S PROVE IsFiniteSet(Below(x, R, S)) /\ Cardinality(Below(x, R, S)) \in Nat
  BY FS_Subset, FS_CardinalityType DEF Below
<1>3. ASSUME NEW x \in S PROVE Cardinality(Below(x, R, S)) \in 0..Cardinality(S) - 1
  <2>1. Below(x, R, S) \in SUBSET S /\ Below(x, R, S) # S
    BY DEF Below, IsOrder
  <2>2. Cardinality(Below(x, R, S)) <= Cardinality(S) /\ Cardinality(Below(x, R, S)) # Cardinality(S)
    BY <2>1, FS_Subset
  <2> QED BY <1>1, <1>2, <2>2
<1>4. ASSUME NEW x \in S, NEW y \in S, <<x, y>> \in R
      PROVE  Cardinality(Below(x, R, S)) < Cardinality(Below(y, R, S))
  <2>1. Below(x, R, S) \in SUBSET Below(y, R, S)
    BY <1>4 DEF Below, IsOrder
  <2>2. x \in Below(y, R, S) /\ x \notin Below(x, R, S)
    BY <1>4 DEF Below, IsOrder
  <2>3. Cardinality(Below(x, R, S)) <= Cardinality(Below(y, R, S))
        /\ Cardinality(Below(x, R, S)) # Cardinality(Below(y, R, S))
    BY <1>2, <2>1, <2>2, FS_Subset
  <2> QED BY <1>2, <2>3
<1> QED BY <1>3, <1>4

\* There is a row at every place of a finite set.
LEMMA EveryPlaceTaken ==
  ASSUME NEW S, IsFiniteSet(S), NEW R, IsOrder(R, S), NEW k \in 0..Cardinality(S) - 1
  PROVE  \E x \in S : Cardinality(Below(x, R, S)) = k
<1> DEFINE n == Cardinality(S)
           f == [x \in S |-> Cardinality(Below(x, R, S))]
<1>1. n \in Nat
  BY FS_CardinalityType
<1>2. f \in Injection(S, 0..n - 1)
  <2>1. f \in [S -> 0..n - 1]
    BY BelowCounts
  <2>2. ASSUME NEW x \in S, NEW y \in S, f[x] = f[y] PROVE x = y
    <3> SUFFICES ASSUME x # y PROVE FALSE
      OBVIOUS
    <3>1. <<x, y>> \in R \/ <<y, x>> \in R
      BY DEF IsOrder
    <3>2. f[x] < f[y] \/ f[y] < f[x]
      BY <3>1, BelowCounts
    <3>3. f[x] \in Nat /\ f[y] \in Nat
      BY <1>1, <2>1
    <3> QED BY <2>2, <3>2, <3>3
  <2> QED BY <2>1, <2>2 DEF Injection, IsInjective
<1>3. IsFiniteSet(0..n - 1) /\ Cardinality(0..n - 1) = n
  BY <1>1, FS_Interval
<1> HIDE DEF f
<1>4. f \in Surjection(S, 0..n - 1)
  BY <1>2, <1>3, FS_Injection
<1>5. \E x \in S : f[x] = k
  BY <1>4 DEF Surjection
<1> QED BY <1>5 DEF f

LEMMA InOrderLists ==
  ASSUME NEW S, IsFiniteSet(S), NEW R, IsOrder(R, S)
  PROVE  Lists(InOrder(S, R), Cardinality(S), R, S)
<1> DEFINE n == Cardinality(S)
           s == InOrder(S, R)
           C(x) == Cardinality(Below(x, R, S))
<1>1. n \in Nat /\ \A x \in S : C(x) \in 0..n - 1
  BY BelowCounts, FS_CardinalityType
<1>2. ASSUME NEW i \in 1..n PROVE s[i] \in S /\ C(s[i]) = i - 1
  <2>1. i - 1 \in 0..Cardinality(S) - 1
    BY <1>1
  <2>2. \E x \in S : C(x) = i - 1
    BY <2>1, EveryPlaceTaken
  <2>3. s[i] = CHOOSE x \in S : C(x) = i - 1
    BY DEF InOrder, Below
  <2> HIDE DEF C, s
  <2> QED BY <2>2, <2>3
<1>3. \A x, y \in S : <<x, y>> \in R => C(x) < C(y)
  BY BelowCounts
<1>4. s \in [1..n -> S]
  <2> DEFINE e(i) == CHOOSE x \in S : C(x) = i - 1
  <2>1. s = [i \in 1..n |-> e(i)]
    BY DEF InOrder, Below
  <2> HIDE DEF s, n, e
  <2> QED BY <1>2, <2>1
<1> HIDE DEF s, C, n
<1>5. ASSUME NEW x \in S, NEW y \in S, C(x) = C(y) PROVE x = y
  <2>1. ~(<<x, y>> \in R) /\ ~(<<y, x>> \in R)
    BY <1>1, <1>3, <1>5
  <2> QED BY <2>1 DEF IsOrder
<1>6. ASSUME NEW x \in S PROVE \E i \in 1..n : s[i] = x
  <2>1. C(x) + 1 \in 1..n /\ (C(x) + 1) - 1 = C(x)
    BY <1>1
  <2>2. s[C(x) + 1] = x
    BY <1>2, <1>5, <2>1
  <2> QED BY <2>1, <2>2
<1>7. ASSUME NEW i \in 1..n, NEW j \in 1..n, i < j PROVE <<s[i], s[j]>> \in R
  <2>1. C(s[i]) < C(s[j]) /\ s[i] \in S /\ s[j] \in S
    BY <1>1, <1>2, <1>7
  <2>2. ~(<<s[j], s[i]>> \in R)
    BY <1>1, <1>3, <2>1
  <2>3. s[i] # s[j]
    BY <1>1, <2>1
  <2> QED BY <2>1, <2>2, <2>3 DEF IsOrder
<1> QED BY <1>1, <1>4, <1>6, <1>7 DEF Lists, n, s

\* A list in order is the only one.
LEMMA ListedOnce ==
  ASSUME NEW S, NEW R, IsOrder(R, S), NEW s, NEW n, Lists(s, n, R, S)
  PROVE  IsFiniteSet(S) /\ Cardinality(S) = n /\ InOrder(S, R) = s
<1> USE DEF Lists
<1>1. n \in Nat /\ s \in [1..n -> S]
  OBVIOUS
<1>2. ASSUME NEW i \in 1..n, NEW j \in 1..n, s[i] = s[j] PROVE i = j
  <2>1. s[i] \in S /\ ~(<<s[i], s[i]>> \in R)
    BY <1>1 DEF IsOrder
  <2>2. ~(i < j) /\ ~(j < i)
    BY <1>2, <2>1
  <2> QED BY <1>1, <2>2
<1>3. s \in Bijection(1..n, S)
  BY <1>1, <1>2 DEF Bijection, Injection, IsInjective, Surjection
<1>4. IsFiniteSet(S) /\ Cardinality(S) = n
  <2>1. IsFiniteSet(1..n) /\ Cardinality(1..n) = n
    BY <1>1, FS_Interval
  <2> QED BY <1>3, <2>1, FS_Bijection DEF ExistsBijection
<1> DEFINE C(x) == Cardinality(Below(x, R, S))
<1>5. ASSUME NEW i \in 1..n PROVE C(s[i]) = i - 1
  <2> DEFINE t == [k \in 1..i - 1 |-> s[k]]
  <2>1. ASSUME NEW k \in 1..n PROVE s[k] \in Below(s[i], R, S) <=> k < i
    <3>1. k < i => <<s[k], s[i]>> \in R
      OBVIOUS
    <3>2. i < k => <<s[i], s[k]>> \in R
      OBVIOUS
    <3>3. s[i] \in S /\ s[k] \in S
      BY <1>1
    <3>4. ~(<<s[i], s[k]>> \in R /\ <<s[k], s[i]>> \in R) /\ ~(<<s[i], s[i]>> \in R)
      BY <3>3 DEF IsOrder
    <3>5. k < i \/ i < k \/ i = k
      BY <1>1
    <3> QED BY <3>1, <3>2, <3>3, <3>4, <3>5 DEF Below
  <2>2. \A k \in 1..i - 1 : k \in 1..n /\ k < i
    BY <1>1
  <2>3. t \in Bijection(1..i - 1, Below(s[i], R, S))
    <3>1. t \in [1..i - 1 -> Below(s[i], R, S)]
      BY <2>1, <2>2
    <3>2. \A j, k \in 1..i - 1 : t[j] = t[k] => j = k
      BY <1>2, <2>2
    <3>3. \A x \in Below(s[i], R, S) : \E k \in 1..i - 1 : t[k] = x
      <4> TAKE x \in Below(s[i], R, S)
      <4>1. PICK k \in 1..n : s[k] = x
        BY DEF Below
      <4>2. k < i
        BY <2>1, <4>1
      <4>3. k \in 1..i - 1
        BY <1>1, <4>2
      <4> QED BY <4>1, <4>3
    <3> HIDE DEF t
    <3> QED BY <3>1, <3>2, <3>3 DEF Bijection, Injection, IsInjective, Surjection
  <2>4. IsFiniteSet(1..i - 1) /\ Cardinality(1..i - 1) = i - 1
    BY FS_Interval
  <2> QED BY <2>3, <2>4, FS_Bijection DEF ExistsBijection
<1>6. ASSUME NEW i \in 1..n PROVE InOrder(S, R)[i] = s[i]
  <2>1. InOrder(S, R)[i] = CHOOSE x \in S : C(x) = i - 1
    BY <1>4 DEF InOrder, Below
  <2> HIDE DEF C
  <2>2. s[i] \in S /\ C(s[i]) = i - 1
    BY <1>1, <1>5
  <2>3. \A x \in S : C(x) = i - 1 => x = s[i]
    <3> SUFFICES ASSUME NEW x \in S, C(x) = i - 1 PROVE x = s[i]
      OBVIOUS
    <3>1. PICK k \in 1..n : s[k] = x
      OBVIOUS
    <3>2. C(x) = k - 1
      BY <1>5, <3>1
    <3> QED BY <1>1, <3>1, <3>2
  <2> QED BY <2>1, <2>2, <2>3
<1>7. InOrder(S, R) = [i \in 1..n |-> InOrder(S, R)[i]]
  <2> DEFINE e(i) == CHOOSE x \in S : C(x) = i - 1
  <2>1. InOrder(S, R) = [i \in 1..n |-> e(i)]
    BY <1>4 DEF InOrder, Below
  <2> HIDE DEF e
  <2> QED BY <2>1
<1>8. s = [i \in 1..n |-> s[i]]
  BY <1>1
<1> QED BY <1>4, <1>6, <1>7, <1>8

\* A list that already is in order stays as it is; any other comes in order.
LEMMA SortedLists ==
  ASSUME NEW S, NEW R, IsOrder(R, S), NEW n \in Nat, NEW seq \in [1..n -> S],
         \A x \in S : \E i \in 1..n : seq[i] = x,
         \A i, j \in 1..n : seq[i] = seq[j] => i = j,
         NEW Q, \A i, j \in 1..n : <<i, j>> \in Q <=> <<seq[i], seq[j]>> \in R
  PROVE  [k \in 1..n |-> seq[InOrder(1..n, Q)[k]]] = InOrder(S, R)
<1> DEFINE o == InOrder(1..n, Q)
           t == [k \in 1..n |-> seq[o[k]]]
<1>1. IsFiniteSet(1..n) /\ Cardinality(1..n) = n
  BY FS_Interval
<1>2. IsOrder(Q, 1..n)
  <2>1. ASSUME NEW i \in 1..n PROVE <<i, i>> \notin Q
    BY DEF IsOrder
  <2>2. ASSUME NEW i \in 1..n, NEW j \in 1..n, i # j PROVE <<i, j>> \in Q \/ <<j, i>> \in Q
    BY <2>2 DEF IsOrder
  <2>3. ASSUME NEW i \in 1..n, NEW j \in 1..n, NEW k \in 1..n, <<i, j>> \in Q, <<j, k>> \in Q
        PROVE  <<i, k>> \in Q
    BY <2>3 DEF IsOrder
  <2> QED BY <2>1, <2>2, <2>3 DEF IsOrder
<1>3. Lists(o, n, Q, 1..n)
  BY <1>1, <1>2, InOrderLists
<1> HIDE DEF o
<1>4. Lists(t, n, R, S)
  <2>1. o \in [1..n -> 1..n]
    BY <1>3 DEF Lists
  <2>2. t \in [1..n -> S]
    BY <2>1
  <2>3. ASSUME NEW x \in S PROVE \E k \in 1..n : t[k] = x
    <3>1. PICK i \in 1..n : seq[i] = x
      OBVIOUS
    <3>2. PICK k \in 1..n : o[k] = i
      BY <1>3 DEF Lists
    <3> QED BY <3>1, <3>2
  <2>4. ASSUME NEW i \in 1..n, NEW j \in 1..n, i < j PROVE <<t[i], t[j]>> \in R
    BY <1>3, <2>1, <2>4 DEF Lists
  <2> QED BY <2>2, <2>3, <2>4 DEF Lists
<1> QED BY <1>4, ListedOnce DEF o

LEMMA SameInOrder ==
  ASSUME NEW rows, NEW R
  PROVE  /\ Mem!InOrder(rows, R) = InOrder(rows, R)
         /\ Lite!InOrder(rows, R) = InOrder(rows, R)
         /\ Pg!InOrder(rows, R) = InOrder(rows, R)
<1> USE DEF Cardinality
<1>1. Mem!InOrder(rows, R) = InOrder(rows, R)
  BY DEF InOrder, Mem!InOrder, Mem!Cardinality
<1>2. Lite!InOrder(rows, R) = InOrder(rows, R)
  BY DEF InOrder, Lite!InOrder, Lite!Cardinality
<1>3. Pg!InOrder(rows, R) = InOrder(rows, R)
  BY DEF InOrder, Pg!InOrder, Pg!Cardinality
<1> QED BY <1>1, <1>2, <1>3

LEMMA SameLimited ==
  ASSUME NEW seq, NEW limit
  PROVE  /\ Mem!Limited(seq, limit) = Limited(seq, limit)
         /\ Lite!Limited(seq, limit) = Limited(seq, limit)
         /\ Pg!Limited(seq, limit) = Limited(seq, limit)
BY DEF Mem!Limited, Lite!Limited, Pg!Limited, Limited

-----------------------------------------------------------------------------
\* What the operations on runs leave alone.

LEMMA MemRuns ==
  ASSUME NEW db, NEW f \in {"sessions", "types", "events", "pending", "resolved"}, f \in DOMAIN db,
         NEW id, NEW x, NEW y,
         NEW d \in {Mem!Save(db, x), Mem!UpdateStatus(db, id, x, y), Mem!AppendProvenance(db, id, x)}
  PROVE  f \in DOMAIN d /\ d[f] = db[f]
BY DEF Mem!Save, Mem!UpdateStatus, Mem!AppendProvenance

LEMMA LiteRuns ==
  ASSUME NEW db, NEW f \in {"sessions", "types", "audit", "approvals"}, f \in DOMAIN db,
         NEW id, NEW x, NEW y,
         NEW d \in {Lite!Save(db, x), Lite!UpdateStatus(db, id, x, y), Lite!AppendProvenance(db, id, x)}
  PROVE  f \in DOMAIN d /\ d[f] = db[f]
BY DEF Lite!Save, Lite!UpdateStatus, Lite!AppendProvenance

LEMMA PgRuns ==
  ASSUME NEW db, NEW f \in {"sessions", "types", "audit", "approvals"}, f \in DOMAIN db,
         NEW id, NEW x, NEW y,
         NEW d \in {Pg!Save(db, x), Pg!UpdateStatus(db, id, x, y), Pg!AppendProvenance(db, id, x)}
  PROVE  f \in DOMAIN d /\ d[f] = db[f]
BY DEF Pg!Save, Pg!UpdateStatus, Pg!AppendProvenance

Tables ==
  /\ {"sessions", "types", "events", "pending", "resolved"} \subseteq DOMAIN mem
  /\ {"sessions", "types", "audit", "approvals"} \subseteq DOMAIN lite
  /\ {"sessions", "types", "audit", "approvals"} \subseteq DOMAIN pg
Stays(table) == lite'[table] = lite[table] /\ pg'[table] = pg[table]
SessionsStay == Tables' /\ mem'["sessions"] = mem["sessions"] /\ Stays("sessions")
TypesStay == Tables' /\ mem'["types"] = mem["types"] /\ Stays("types")
TrailsStay == Tables' /\ mem'["events"] = mem["events"] /\ Stays("audit")
ApprovalsStay == Tables' /\ mem'["pending"] = mem["pending"] /\ Stays("approvals")
AllStay == SessionsStay /\ TypesStay /\ TrailsStay /\ ApprovalsStay

LEMMA StoresStay ==
  ASSUME Tables, UNCHANGED stores
  PROVE  AllStay
BY DEF stores, Tables, AllStay, SessionsStay, TypesStay, TrailsStay, ApprovalsStay, Stays

LEMMA RunCallsElsewhere ==
  ASSUME Tables, NEW id, RunCall(id)
  PROVE  AllStay
<1> USE DEF AllStay, SessionsStay, TypesStay, TrailsStay, ApprovalsStay, Stays
<1>1. ASSUME NEW i, NEW runs, SaveRun(i, runs) PROVE AllStay
  BY <1>1, MemRuns, LiteRuns, PgRuns DEF SaveRun, Tables
<1>2. ASSUME NEW i, NEW status, SetStatus(i, status) PROVE AllStay
  BY <1>2, MemRuns, LiteRuns, PgRuns DEF SetStatus, Tables
<1>3. CASE SubmitRun(id)
  BY <1>1, <1>3 DEF SubmitRun
<1>4. CASE Leave(id)
  BY <1>1, <1>4 DEF Leave
<1>5. CASE Suspend(id) \/ Close(id)
  BY <1>1, <1>5 DEF Suspend, Close
<1>6. CASE Enter(id) \/ Iterate(id)
  BY <1>2, <1>6 DEF Enter, Iterate
<1>7. CASE Finish(id)
  BY <1>2, <1>7 DEF Finish
<1>8. CASE Steer(id)
  BY <1>2, <1>8 DEF Steer
<1>10. CASE Redrive(id)
  BY <1>1, <1>10, StoresStay DEF Redrive
<1>11. CASE AppendStored(id)
  BY <1>11, MemRuns, LiteRuns, PgRuns DEF AppendStored, Tables
<1>12. CASE SelectRow(id)
  BY <1>12, StoresStay DEF SelectRow, stores
<1> QED BY <1>3, <1>4, <1>5, <1>6, <1>7, <1>8, <1>10, <1>11, <1>12 DEF RunCall

\* The calls that write no store, and those that write one table.
LEMMA ReadsWriteNothing ==
  ASSUME Tables, SelectSteps \/ Forget \/ (\E p \in Submitters : FindSession(p)) \/ UNCHANGED vars
  PROVE  AllStay
BY StoresStay DEF SelectSteps, Forget, FindSession, vars, stores

LEMMA UpsertsElsewhere ==
  ASSUME Tables, NEW p, UpsertSession(p)
  PROVE  TypesStay /\ TrailsStay /\ ApprovalsStay
BY DEF UpsertSession, Mem!UpsertSession, Lite!UpsertSession, Pg!UpsertSession, Tables,
       TypesStay, TrailsStay, ApprovalsStay, Stays

LEMMA RegistersElsewhere ==
  ASSUME Tables, NEW t, RegisterType(t)
  PROVE  SessionsStay /\ TrailsStay /\ ApprovalsStay
BY DEF RegisterType, Mem!Register, Lite!Register, Pg!Register, Tables,
       SessionsStay, TrailsStay, ApprovalsStay, Stays

LEMMA LogsElsewhere ==
  ASSUME Tables, NEW run, NEW kind, LogEvent(run, kind)
  PROVE  SessionsStay /\ TypesStay /\ ApprovalsStay
BY DEF LogEvent, Mem!AppendAudit, Lite!AppendAudit, Pg!AppendAudit, Tables,
       SessionsStay, TypesStay, ApprovalsStay, Stays

LEMMA GateElsewhere ==
  ASSUME Tables, NEW run, NEW x, RaiseApproval(run, x) \/ ResolveApproval(run, x)
  PROVE  SessionsStay /\ TypesStay /\ TrailsStay
<1> USE DEF Tables, SessionsStay, TypesStay, TrailsStay, Stays
<1>1. CASE RaiseApproval(run, x)
  BY <1>1 DEF RaiseApproval, Mem!Raise, Lite!Raise, Pg!Raise
<1>2. CASE ResolveApproval(run, x)
  BY <1>2 DEF ResolveApproval, Mem!Resolve, Lite!Resolve, Pg!Resolve
<1> QED BY <1>1, <1>2

\* Every step of the system is one of these.
LEMMA StepTouches ==
  ASSUME Tables, [Next]_vars
  PROVE  /\ SessionsStay \/ \E p \in Submitters : UpsertSession(p)
         /\ TypesStay \/ \E t \in TypeDefs : RegisterType(t)
         /\ TrailsStay \/ \E run \in Ids, kind \in {"approval_required", "outcome_written"} : LogEvent(run, kind)
         /\ \/ ApprovalsStay
            \/ \E run \in Ids :
                 \/ \E req \in Requests : RaiseApproval(run, req)
                 \/ \E decision \in {"approve", "deny"} : ResolveApproval(run, decision)
<1>1. CASE AllStay
  BY <1>1 DEF AllStay
<1>2. CASE \E p \in Submitters : UpsertSession(p)
  BY <1>2, UpsertsElsewhere
<1>3. CASE \E t \in TypeDefs : RegisterType(t)
  BY <1>3, RegistersElsewhere
<1>4. CASE \E run \in Ids, kind \in {"approval_required", "outcome_written"} : LogEvent(run, kind)
  BY <1>4, LogsElsewhere
<1>5. CASE \E run \in Ids :
             \/ \E req \in Requests : RaiseApproval(run, req)
             \/ \E decision \in {"approve", "deny"} : ResolveApproval(run, decision)
  BY <1>5, GateElsewhere
<1> QED BY <1>1, <1>2, <1>3, <1>4, <1>5, RunCallsElsewhere, ReadsWriteNothing DEF Next

-----------------------------------------------------------------------------
(* Sessions.                                                               *)

SessionsInv ==
  /\ Tables
  /\ DOMAIN lite.sessions = DOMAIN pg.sessions

LEMMA TablesInit == Init => Tables
BY DEF Init, Tables, Mem!New, Lite!Empty, Pg!Empty

LEMMA UpsertKeeps ==
  ASSUME SessionsInv, NEW p, UpsertSession(p)
  PROVE  /\ SessionsInv'
         /\ \A id \in DOMAIN lite.sessions :
              /\ lite'.sessions[id].created = lite.sessions[id].created
              /\ pg'.sessions[id].created = pg.sessions[id].created
<1> DEFINE tenant == submits[p].tenant
           s == [id |-> SessionID(tenant), tenant |-> tenant, caller |-> "anonymous",
                 created |-> now, updated |-> now]
<1>1. /\ mem' = Mem!UpsertSession(mem, s)
      /\ lite' = Lite!UpsertSession(lite, s)
      /\ pg' = Pg!UpsertSession(pg, s)
  BY DEF UpsertSession
<1>2. "created" \in DOMAIN s
  OBVIOUS
<1> HIDE DEF s
<1>3. Tables'
  BY <1>1 DEF SessionsInv, Tables, Mem!UpsertSession, Lite!UpsertSession, Pg!UpsertSession
<1> DEFINE l == IF s.id \in DOMAIN lite.sessions
                THEN [s EXCEPT !.created = lite.sessions[s.id].created] ELSE s
           q == [s EXCEPT !.created = IF s.id \in DOMAIN pg.sessions
                                       THEN pg.sessions[s.id].created ELSE s.created]
<1>4. lite'.sessions = Put(lite.sessions, s.id, l) /\ pg'.sessions = Put(pg.sessions, s.id, q)
  BY <1>1 DEF SessionsInv, Tables, Lite!UpsertSession, Pg!UpsertSession, Lite!Put, Pg!Put, Put
<1>5. s.id \in DOMAIN lite.sessions =>
        l.created = lite.sessions[s.id].created /\ q.created = pg.sessions[s.id].created
  BY <1>2 DEF SessionsInv
<1> HIDE DEF l, q
<1>6. ASSUME NEW id \in DOMAIN lite.sessions
      PROVE  /\ lite'.sessions[id].created = lite.sessions[id].created
             /\ pg'.sessions[id].created = pg.sessions[id].created
  BY <1>4, <1>5, LookupPut DEF SessionsInv
<1>7. DOMAIN lite'.sessions = DOMAIN pg'.sessions
  BY <1>4 DEF SessionsInv, Put
<1> QED BY <1>3, <1>6, <1>7 DEF SessionsInv

\* However the first requests of a caller race through resolveSession, and
\* whatever else the store is asked in between, a session keeps the time it
\* began at (UpsertSession of SQLite and Postgres).
THEOREM SessionsKept == Spec => SessionCreationKept
<1>1. Init => SessionsInv
  BY TablesInit DEF Init, SessionsInv, Lite!Empty, Pg!Empty
<1>2. SessionsInv /\ [Next]_vars =>
        /\ SessionsInv'
        /\ \A id \in DOMAIN lite.sessions :
             /\ lite'.sessions[id].created = lite.sessions[id].created
             /\ pg'.sessions[id].created = pg.sessions[id].created
  <2> SUFFICES ASSUME SessionsInv, [Next]_vars
               PROVE  /\ SessionsInv'
                      /\ \A id \in DOMAIN lite.sessions :
                           /\ lite'.sessions[id].created = lite.sessions[id].created
                           /\ pg'.sessions[id].created = pg.sessions[id].created
    OBVIOUS
  <2>1. CASE SessionsStay
    BY <2>1 DEF SessionsStay, Stays, SessionsInv
  <2>2. CASE \E p \in Submitters : UpsertSession(p)
    BY <2>2, UpsertKeeps
  <2>3. (\E p \in Submitters : UpsertSession(p)) \/ SessionsStay
    BY StepTouches DEF SessionsInv
  <2> QED BY <2>1, <2>2, <2>3
<1>3. SessionsInv /\ [Next]_vars =>
        [\A id \in DOMAIN lite.sessions :
           /\ lite'.sessions[id].created = lite.sessions[id].created
           /\ pg'.sessions[id].created = pg.sessions[id].created]_vars
  BY <1>2
<1> QED BY <1>1, <1>2, <1>3, PTL DEF Spec, SessionCreationKept

-----------------------------------------------------------------------------
(* Approvals.  Memory's pending request is SQL's unresolved row.           *)

RowsAt(run) ==
  /\ run \in DOMAIN lite.approvals <=> run \in DOMAIN pg.approvals
  /\ run \in DOMAIN lite.approvals =>
       /\ {"req", "resolved"} \subseteq DOMAIN lite.approvals[run]
       /\ {"req", "resolved"} \subseteq DOMAIN pg.approvals[run]
       /\ lite.approvals[run].resolved = pg.approvals[run].resolved
  /\ run \in DOMAIN mem["pending"] <=>
       run \in DOMAIN lite.approvals /\ lite.approvals[run].resolved = None
  /\ run \in DOMAIN mem["pending"] =>
       /\ lite.approvals[run].req = mem["pending"][run]
       /\ [pg.approvals[run].req EXCEPT !.reason = Pg!StringOf(@)] = mem["pending"][run]
ApprovalsInv == Tables /\ \A run \in Ids : RowsAt(run)

\* A reason survives the column it is stored in.
LEMMA ReasonKept ==
  ASSUME NEW req \in Requests
  PROVE  [[req EXCEPT !.reason = Pg!NullString(@)] EXCEPT !.reason = Pg!StringOf(@)] = req
<1> DEFINE R(reason) == [decision |-> req.decision, reason |-> reason]
<1>1. req = R(req.reason) /\ req.reason # "NULL"
  BY RequestsAssumption
<1>2. Pg!StringOf(Pg!NullString(req.reason)) = req.reason
  BY <1>1 DEF Pg!StringOf, Pg!NullString, Pg!NULL
<1>3. ASSUME NEW x, NEW y PROVE [R(x) EXCEPT !.reason = y] = R(y)
  OBVIOUS
<1>4. ASSUME NEW x PROVE R(x).reason = x
  OBVIOUS
<1> HIDE DEF R
<1>5. [req EXCEPT !.reason = Pg!NullString(req.reason)] = R(Pg!NullString(req.reason))
  BY <1>1, <1>3
<1>6. [R(Pg!NullString(req.reason)) EXCEPT !.reason = Pg!StringOf(Pg!NullString(req.reason))] = req
  BY <1>1, <1>2, <1>3
<1> QED BY <1>4, <1>5, <1>6

LEMMA RaiseKeeps ==
  ASSUME ApprovalsInv, NEW run \in Ids, NEW req \in Requests, RaiseApproval(run, req)
  PROVE  ApprovalsInv'
<1> DEFINE stored == [req EXCEPT !.reason = Pg!NullString(@)]
<1>1. CASE run = None
  BY <1>1 DEF RaiseApproval, Mem!Raise, Lite!Raise, Pg!Raise, ApprovalsInv, Tables, RowsAt
<1>2. CASE run # None
  <2>1. Tables'
    BY DEF RaiseApproval, Mem!Raise, Lite!Raise, Pg!Raise, ApprovalsInv, Tables
  <2>2. /\ mem'["pending"] = Put(mem["pending"], run, req)
        /\ lite'.approvals = Put(lite.approvals, run, [req |-> req, resolved |-> None])
        /\ pg'.approvals = Put(pg.approvals, run, [req |-> stored, resolved |-> None])
    BY <1>2 DEF RaiseApproval, Mem!Raise, Lite!Raise, Pg!Raise, ApprovalsInv, Tables,
                Mem!Put, Lite!Put, Pg!Put, Put
  <2>3. [stored EXCEPT !.reason = Pg!StringOf(@)] = req
    BY ReasonKept
  <2> HIDE DEF stored
  <2>4. ASSUME NEW r \in Ids PROVE RowsAt(r)'
    <3>1. RowsAt(r)
      BY DEF ApprovalsInv
    <3>2. CASE r = run
      BY <2>2, <2>3, <3>2, LookupPut DEF RowsAt
    <3>3. CASE r # run
      BY <2>2, <3>1, <3>3, LookupPut DEF RowsAt
    <3> QED BY <3>2, <3>3
  <2> QED BY <2>1, <2>4 DEF ApprovalsInv
<1> QED BY <1>1, <1>2

LEMMA ResolveKeeps ==
  ASSUME ApprovalsInv, NEW run \in Ids, NEW decision \in {"approve", "deny"},
         ResolveApproval(run, decision)
  PROVE  ApprovalsInv'
<1>1. RowsAt(run) /\ decision # None
  BY DecisionAssumption DEF ApprovalsInv
<1>2. CASE run \notin DOMAIN mem["pending"]
  <2>1. UNCHANGED stores
    BY <1>1, <1>2 DEF ResolveApproval, Mem!Resolve, Lite!Resolve, Lite!Unresolved,
                      Pg!Resolve, Pg!Unresolved, RowsAt, stores
  <2> QED BY <2>1 DEF ApprovalsInv, Tables, RowsAt, stores
<1>3. CASE run \in DOMAIN mem["pending"]
  <2>1. Tables'
    BY DEF ResolveApproval, Mem!Resolve, Lite!Resolve, Pg!Resolve, ApprovalsInv, Tables
  <2>2. mem'["pending"] = Without(mem["pending"], {run})
    BY <1>3 DEF ResolveApproval, Mem!Resolve, ApprovalsInv, Tables, Mem!Without, Without
  <2>3. lite'.approvals = [lite.approvals EXCEPT ![run].resolved = decision]
    BY <1>1, <1>3 DEF ResolveApproval, Lite!Resolve, Lite!Unresolved, RowsAt, ApprovalsInv, Tables
  <2>4. pg'.approvals = [pg.approvals EXCEPT ![run].resolved = decision]
    BY <1>1, <1>3 DEF ResolveApproval, Pg!Resolve, Pg!Unresolved, RowsAt, ApprovalsInv, Tables
  <2>5. RowsAt(run)'
    BY <1>1, <1>3, <2>2, <2>3, <2>4 DEF RowsAt, Without
  <2>6. ASSUME NEW r \in Ids, r # run PROVE RowsAt(r)'
    BY <2>2, <2>3, <2>4, <2>6 DEF RowsAt, Without, ApprovalsInv
  <2> QED BY <2>1, <2>5, <2>6 DEF ApprovalsInv
<1> QED BY <1>2, <1>3

\* The gate opens and closes alike on every backend (ApprovalRepo.Raise, Pending
\* and Resolve), in whatever order requests are raised, resolved and raised again.
THEOREM ApprovalsAgreeAlways == Spec => []ApprovalsAgree
<1>1. Init => ApprovalsInv
  BY TablesInit DEF Init, ApprovalsInv, RowsAt, Mem!New, Lite!Empty, Pg!Empty
<1>2. ApprovalsInv /\ [Next]_vars => ApprovalsInv'
  <2> SUFFICES ASSUME ApprovalsInv, [Next]_vars PROVE ApprovalsInv'
    OBVIOUS
  <2>1. CASE ApprovalsStay
    BY <2>1 DEF ApprovalsStay, Stays, ApprovalsInv, RowsAt
  <2>2. Tables
    BY DEF ApprovalsInv
  <2> QED
    BY <2>1, <2>2, StepTouches, RaiseKeeps, ResolveKeeps
<1>3. ApprovalsInv => ApprovalsAgree
  <2> SUFFICES ASSUME ApprovalsInv, NEW run \in Ids
               PROVE  /\ Lite!Pending(lite, run) = Mem!Pending(mem, run)
                      /\ Pg!Pending(pg, run) = Mem!Pending(mem, run)
    BY DEF ApprovalsAgree
  <2>1. RowsAt(run)
    BY DEF ApprovalsInv
  <2> QED
    BY <2>1 DEF RowsAt, Mem!Pending, Mem!Lookup, Lite!Pending, Lite!Unresolved,
                Pg!Pending, Pg!Unresolved
<1> QED BY <1>1, <1>2, <1>3, PTL DEF Spec

-----------------------------------------------------------------------------
(* The catalogs: types and sessions.                                       *)

\* A type is stored as its registration gives it, but for what the columns keep of
\* its schema and of its description.
TypeRow(t, d, schema, r) ==
  [name |-> t.name, description |-> d, schema |-> schema, policy |-> t.policy, registered |-> r]
SchemaRow(s, as, pas) ==
  [required |-> s.required, requiredAs |-> as, properties |-> s.properties, propertiesAs |-> pas]
IsType(row) ==
  /\ row # None /\ row = TypeRow(row, row.description, row.schema, row.registered)
  /\ row.schema = SchemaRow(row.schema, row.schema.requiredAs, row.schema.propertiesAs)
  /\ row.policy.maxIterations \in Int /\ row.policy.maxIterations > 0
Plain(row) == [row EXCEPT !.schema = ThroughJSON(@)]
TypesInv ==
  /\ Tables
  /\ DOMAIN lite["types"] = DOMAIN mem["types"] /\ DOMAIN pg["types"] = DOMAIN mem["types"]
  /\ \A n \in DOMAIN mem["types"] :
       /\ IsType(mem["types"][n])
       /\ lite["types"][n] = Plain(mem["types"][n])
       /\ Pg!TypeOf(pg["types"][n]) = Plain(mem["types"][n])

\* A type survives the columns it is stored in, its schema as JSON gives it.
LEMMA DescriptionKept ==
  ASSUME NEW t \in TypeDefs, NEW x, Reg!Registration(t, x) # None
  PROVE  LET row == Reg!Registration(t, x)
         IN  /\ IsType(row)
             /\ Pg!TypeOf([row EXCEPT !.description = Pg!NullString(row.description),
                                     !.schema = ThroughJSON(row.schema)])
                  = Plain(row)
<1> DEFINE T(d, s, r) == TypeRow(t, d, s, r)
           s0 == ThroughJSON(t.schema)
<1>1. /\ t = T(t.description, t.schema, t.registered) /\ t.description # "NULL"
      /\ t.policy.maxIterations \in Int
  BY TypeDefsAssumption DEF TypeRow
<1>2. \A d, e, s, q, r : [T(d, s, r) EXCEPT !.description = e, !.schema = q] = T(e, q, r)
  <2> TAKE d, e, s, q, r
  <2> DEFINE u == [T(d, s, r) EXCEPT !.description = e]
  <2>1. u = T(e, s, r) /\ [T(e, s, r) EXCEPT !.schema = q] = T(e, q, r)
    BY DEF TypeRow
  <2>2. [u EXCEPT !.schema = q] = T(e, q, r)
    BY <2>1
  <2> QED BY <2>2
<1>3. \A d, s, r, q : [T(d, s, r) EXCEPT !.registered = q] = T(d, s, q)
  BY DEF TypeRow
<1>4. \A d, s, r : /\ T(d, s, r).description = d /\ T(d, s, r).policy = t.policy
                   /\ T(d, s, r).schema = s /\ T(d, s, r).registered = r
                   /\ T(d, s, r).name = t.name
  BY DEF TypeRow
<1>9. \A d, s, r, q : [T(d, s, r) EXCEPT !.schema = q] = T(d, q, r)
  BY DEF TypeRow
<1>10. \A d, s, r, e : [T(d, s, r) EXCEPT !.description = e] = T(e, s, r)
  BY DEF TypeRow
<1>11. \A d, s, r : TypeRow(T(d, s, r), d, s, r) = T(d, s, r)
  BY DEF TypeRow
<1> HIDE DEF T, s0
<1>5. PICK r : Reg!Registration(t, x) = T(t.description, t.schema, r) /\ ~(t.policy.maxIterations <= 0)
  <2> DEFINE r0 == IF t.registered = None THEN x ELSE t.registered
  <2>1. Reg!Registration(t, x) = [t EXCEPT !.registered = r0] /\ ~(t.policy.maxIterations <= 0)
    BY DEF Reg!Registration
  <2>2. [t EXCEPT !.registered = r0] = T(t.description, t.schema, r0)
    <3> HIDE DEF r0
    <3> QED BY <1>1, <1>3
  <2> QED BY <2>1, <2>2
<1> DEFINE row == T(t.description, t.schema, r)
<1>6. Pg!StringOf(Pg!NullString(t.description)) = t.description
  BY <1>1 DEF Pg!StringOf, Pg!NullString, Pg!NULL
<1>7. /\ row.description = t.description /\ row.schema = t.schema
      /\ row.policy = t.policy /\ row.registered = r
  BY <1>4
<1>8. IsType(row)
  <2>1. row = TypeRow(row, row.description, row.schema, row.registered)
    BY <1>7, <1>11
  <2>2. t.schema = SchemaRow(t.schema, t.schema.requiredAs, t.schema.propertiesAs)
    BY TypeDefsAssumption DEF SchemaRow
  <2>3. row # None
    BY <1>5
  <2> HIDE DEF row
  <2> QED BY <1>1, <1>5, <1>7, <2>1, <2>2, <2>3 DEF IsType
<1>12. Plain(row) = T(t.description, s0, r)
  BY <1>7, <1>9 DEF Plain, s0
<1>13. [row EXCEPT !.description = Pg!NullString(row.description),
                                     !.schema = ThroughJSON(row.schema)]
         = T(Pg!NullString(t.description), s0, r)
  <2> DEFINE e == Pg!NullString(t.description)
         u == [row EXCEPT !.description = e]
  <2>1. [row EXCEPT !.description = e, !.schema = s0] = T(e, s0, r)
    <3> HIDE DEF e
    <3>1. u = T(e, t.schema, r)
      BY <1>10
    <3>2. [u EXCEPT !.schema = s0] = T(e, s0, r)
      <4> HIDE DEF u
      <4> QED BY <1>9, <3>1
    <3> QED BY <3>2
  <2>2. row.description = t.description /\ ThroughJSON(row.schema) = s0
    BY <1>7 DEF s0
  <2> HIDE DEF row
  <2> QED BY <2>1, <2>2
<1>14. Pg!TypeOf(T(Pg!NullString(t.description), s0, r)) = T(t.description, s0, r)
  BY <1>4, <1>6, <1>10 DEF Pg!TypeOf
<1>15. Reg!Registration(t, x) = row
  BY <1>5
<1> HIDE DEF row
<1> QED BY <1>8, <1>12, <1>13, <1>14, <1>15

LEMMA RegisterKeeps ==
  ASSUME TypesInv, NEW t \in TypeDefs, RegisterType(t)
  PROVE  TypesInv'
<1> DEFINE row == Reg!Registration(t, now)
           stored == [row EXCEPT !.description = Pg!NullString(row.description),
                                     !.schema = ThroughJSON(row.schema)]
<1>1. Tables'
  BY DEF RegisterType, Mem!Register, Lite!Register, Pg!Register, TypesInv, Tables
<1>2. /\ mem'["types"] = Put(mem["types"], row.name, row)
      /\ lite'["types"] = Put(lite["types"], row.name, Plain(row))
      /\ pg'["types"] = Put(pg["types"], row.name, stored)
  BY DEF RegisterType, Mem!Register, Lite!Register, Pg!Register, TypesInv, Tables, Plain,
         Mem!Put, Lite!Put, Pg!Put, Put, ThroughJSON, Lite!ThroughJSON, Pg!ThroughJSON,
         AnyList, AnyMap, Lite!AnyList, Lite!AnyMap, Pg!AnyList, Pg!AnyMap
<1>3. IsType(row) /\ Pg!TypeOf(stored) = Plain(row)
  BY DescriptionKept DEF RegisterType
<1> HIDE DEF row, stored
<1>4. ASSUME NEW n \in DOMAIN mem'["types"]
      PROVE  /\ IsType(mem'["types"][n])
             /\ lite'["types"][n] = Plain(mem'["types"][n])
             /\ Pg!TypeOf(pg'["types"][n]) = Plain(mem'["types"][n])
  <2>1. CASE n = row.name
    BY <1>2, <1>3, <2>1, LookupPut
  <2>2. CASE n # row.name
    <3>1. n \in DOMAIN mem["types"] /\ mem'["types"][n] = mem["types"][n]
          /\ lite'["types"][n] = lite["types"][n] /\ pg'["types"][n] = pg["types"][n]
      BY <1>2, <2>2, LookupPut DEF TypesInv
    <3> QED BY <3>1 DEF TypesInv
  <2> QED BY <2>1, <2>2
<1>5. DOMAIN lite'["types"] = DOMAIN mem'["types"] /\ DOMAIN pg'["types"] = DOMAIN mem'["types"]
  BY <1>2 DEF TypesInv, Put
<1> QED BY <1>1, <1>4, <1>5 DEF TypesInv

Sess(t, created, updated) ==
  [id |-> SessionID(t), tenant |-> t, caller |-> "anonymous",
   created |-> created, updated |-> updated]

SameSession(id) ==
  \E t \in Tenants, c, d, e, u \in Nat :
    /\ mem["sessions"][id] = Sess(t, c, u)
    /\ lite["sessions"][id] = Sess(t, d, u)
    /\ pg["sessions"][id] = Sess(t, e, u)
SessionsAlike ==
  /\ Tables
  /\ DOMAIN mem["sessions"] = DOMAIN lite["sessions"]
  /\ DOMAIN mem["sessions"] = DOMAIN pg["sessions"]
  /\ \A id \in DOMAIN mem["sessions"] : SameSession(id)

\* The clock, and where the requests are.
ClockInv == now \in Nat \ {0} /\ pace \in Paces
SubmitsInv ==
  /\ submits \in [Submitters -> [pc : {"start", "upsert"}, tenant : Tenants \cup {NoTenant}]]
  /\ \A p \in Submitters : submits[p].pc = "upsert" => submits[p].tenant \in Tenants

LEMMA StepSteady ==
  ASSUME [Next]_vars
  PROVE  /\ pace' = pace /\ focus' = focus /\ now' \in {now, now + pace}
         /\ submits' = submits \/ \E p \in Submitters : FindSession(p) \/ UpsertSession(p)
<1>1. ASSUME NEW id \in Ids, RunCall(id)
      PROVE  pace' = pace /\ focus' = focus /\ now' \in {now, now + pace} /\ submits' = submits
  BY <1>1 DEF RunCall, SubmitRun, Enter, Leave, Suspend, Iterate, Finish, Close, Redrive, Steer,
              AppendStored, SelectRow, Tick
<1>2. ASSUME NEW p \in Submitters, FindSession(p) \/ UpsertSession(p)
      PROVE  pace' = pace /\ focus' = focus /\ now' \in {now, now + pace}
  BY <1>2 DEF FindSession, UpsertSession, Tick
<1>3. ASSUME \/ SelectSteps \/ Forget \/ UNCHANGED vars
             \/ \E t \in TypeDefs : RegisterType(t)
             \/ \E run \in Ids, kind \in {"approval_required", "outcome_written"} : LogEvent(run, kind)
             \/ \E run \in Ids :
                  \/ \E req \in Requests : RaiseApproval(run, req)
                  \/ \E decision \in {"approve", "deny"} : ResolveApproval(run, decision)
      PROVE  pace' = pace /\ focus' = focus /\ now' \in {now, now + pace} /\ submits' = submits
  BY <1>3 DEF SelectSteps, Forget, vars, RegisterType, LogEvent, RaiseApproval, ResolveApproval, Tick
<1> QED BY <1>1, <1>2, <1>3 DEF Next

LEMMA ClockKeeps ==
  ASSUME ClockInv, [Next]_vars
  PROVE  ClockInv'
BY StepSteady, PacesAssumption DEF ClockInv

LEMMA SubmitsKeep ==
  ASSUME SubmitsInv, [Next]_vars
  PROVE  SubmitsInv'
<1>1. CASE submits' = submits
  BY <1>1 DEF SubmitsInv
<1>2. ASSUME NEW p \in Submitters, FindSession(p) PROVE SubmitsInv'
  <2>1. PICK tenant \in Tenants, pc \in {"start", "upsert"} :
          submits' = [submits EXCEPT ![p] = [pc |-> pc, tenant |-> tenant]]
    BY <1>2 DEF FindSession
  <2> QED BY <2>1 DEF SubmitsInv
<1>3. ASSUME NEW p \in Submitters, UpsertSession(p) PROVE SubmitsInv'
  BY <1>3 DEF UpsertSession, SubmitsInv
<1> QED BY <1>1, <1>2, <1>3, StepSteady

LEMMA UpsertAlike ==
  ASSUME SessionsAlike, ClockInv, SubmitsInv, NEW p \in Submitters, UpsertSession(p)
  PROVE  SessionsAlike'
<1> DEFINE t == submits[p].tenant
           s == Sess(t, now, now)
           l == IF s.id \in DOMAIN lite["sessions"]
                  THEN [s EXCEPT !.created = lite["sessions"][s.id].created] ELSE s
           q == [s EXCEPT !.created = IF s.id \in DOMAIN pg["sessions"]
                                        THEN pg["sessions"][s.id].created ELSE s.created]
<1>1. t \in Tenants /\ now \in Nat
  BY DEF UpsertSession, SubmitsInv, ClockInv
<1>2. Tables'
  BY DEF UpsertSession, Mem!UpsertSession, Lite!UpsertSession, Pg!UpsertSession, SessionsAlike, Tables
<1>3. /\ mem'["sessions"] = Put(mem["sessions"], s.id, s)
      /\ lite'["sessions"] = Put(lite["sessions"], s.id, l)
      /\ pg'["sessions"] = Put(pg["sessions"], s.id, q)
  BY DEF UpsertSession, Sess, SessionsAlike, Tables, Mem!UpsertSession, Lite!UpsertSession,
         Pg!UpsertSession, Mem!Put, Lite!Put, Pg!Put, Put
<1>4. \A c, d, u : [Sess(t, c, u) EXCEPT !.created = d] = Sess(t, d, u)
  BY DEF Sess
<1>5. \A v, c, u : Sess(v, c, u).created = c /\ Sess(v, c, u).id = SessionID(v)
  BY DEF Sess
<1>6. \E c, d, e \in Nat : s = Sess(t, c, now) /\ l = Sess(t, d, now) /\ q = Sess(t, e, now)
  <2>1. CASE s.id \in DOMAIN mem["sessions"]
    <3>1. lite["sessions"][s.id].created \in Nat /\ pg["sessions"][s.id].created \in Nat
      BY <1>5, <2>1 DEF SessionsAlike, SameSession
    <3>2. /\ l = Sess(t, lite["sessions"][s.id].created, now)
          /\ q = Sess(t, pg["sessions"][s.id].created, now)
      BY <1>4, <2>1 DEF SessionsAlike
    <3> HIDE DEF l, q, s
    <3>3. s = Sess(t, now, now)
      BY DEF s
    <3> QED BY <1>1, <3>1, <3>2, <3>3
  <2>2. CASE s.id \notin DOMAIN mem["sessions"]
    BY <1>1, <1>4, <1>5, <2>2 DEF SessionsAlike
  <2> QED BY <2>1, <2>2
<1> HIDE DEF s, l, q
<1>7. ASSUME NEW id \in DOMAIN mem'["sessions"] PROVE SameSession(id)'
  <2>1. CASE id = s.id
    BY <1>1, <1>3, <1>6, <2>1, LookupPut DEF SameSession
  <2>2. CASE id # s.id
    <3>1. /\ id \in DOMAIN mem["sessions"] /\ mem'["sessions"][id] = mem["sessions"][id]
          /\ lite'["sessions"][id] = lite["sessions"][id] /\ pg'["sessions"][id] = pg["sessions"][id]
      <4>1. id \in DOMAIN mem["sessions"]
        BY <1>3, <2>2, LookupPut
      <4>2. id \in DOMAIN lite["sessions"] /\ id \in DOMAIN pg["sessions"]
        BY <4>1 DEF SessionsAlike
      <4>3. mem'["sessions"][id] = mem["sessions"][id]
        BY <1>3, <2>2, <4>1, LookupPut
      <4>4. lite'["sessions"][id] = lite["sessions"][id] /\ pg'["sessions"][id] = pg["sessions"][id]
        BY <1>3, <2>2, <4>2, LookupPut
      <4> QED BY <4>1, <4>3, <4>4
    <3>2. SameSession(id)
      BY <3>1 DEF SessionsAlike
    <3> QED BY <3>1, <3>2 DEF SameSession
  <2> QED BY <2>1, <2>2
<1>8. /\ DOMAIN mem'["sessions"] = DOMAIN lite'["sessions"]
      /\ DOMAIN mem'["sessions"] = DOMAIN pg'["sessions"]
  BY <1>3 DEF SessionsAlike, Put
<1> QED BY <1>2, <1>7, <1>8 DEF SessionsAlike

-----------------------------------------------------------------------------
(* A tenant's key tells it from the others.                                *)

\* A mark is a text of one sign.
IsMark(sep, S) == \E c \in S : sep = <<c>>
FreeOf(sep, a) == ToSet(a) \cap ToSet(sep) = {}

\* r is v, a mark and w.
Parted(r, v, bar, w, S) ==
  bar \in S /\ v \in Seq(S) /\ w \in Seq(S) /\ r = v \o (<<bar>> \o w)
\* The same text parted at two marks.
PartedTwice(a, x, b, y, sep, S) ==
  /\ IsMark(sep, S) /\ a \in Seq(S) /\ x \in Seq(S) /\ b \in Seq(S) /\ y \in Seq(S)
  /\ FreeOf(sep, a) /\ FreeOf(sep, b) /\ a \o (sep \o x) = b \o (sep \o y)

LEMMA Marked ==
  ASSUME NEW S, NEW bar, NEW v, NEW w, NEW r, Parted(r, v, bar, w, S)
  PROVE  /\ Len(v) \in Nat /\ Len(w) \in Nat
         /\ Len(r) = Len(v) + 1 + Len(w)
         /\ r[Len(v) + 1] = bar
         /\ \A i \in 1..Len(v) : r[i] = v[i]
         /\ \A i \in 1..Len(w) : r[Len(v) + 1 + i] = w[i]
<1>0. bar \in S /\ v \in Seq(S) /\ w \in Seq(S) /\ r = v \o (<<bar>> \o w)
  BY DEF Parted
<1> DEFINE u == <<bar>> \o w
<1>1. Len(v) \in Nat /\ Len(w) \in Nat
  BY <1>0, LenProperties
<1>2. <<bar>> \in Seq(S) /\ Len(<<bar>>) = 1 /\ <<bar>>[1] = bar
  BY <1>0
<1>3. /\ u \in Seq(S) /\ Len(u) = 1 + Len(w)
      /\ \A i \in 1..1 + Len(w) : u[i] = IF i <= 1 THEN <<bar>>[i] ELSE w[i - 1]
  BY <1>0, <1>2, ConcatProperties
<1>4. u[1] = bar /\ \A i \in 1..Len(w) : u[i + 1] = w[i]
  <2>1. \A i \in 1..Len(w) : i + 1 \in 1..1 + Len(w) /\ ~(i + 1 <= 1) /\ (i + 1) - 1 = i
    BY <1>1
  <2> QED BY <1>1, <1>2, <1>3, <2>1
<1> HIDE DEF u
<1>5. /\ Len(r) = Len(v) + Len(u)
      /\ \A i \in 1..Len(v) + Len(u) : r[i] = IF i <= Len(v) THEN v[i] ELSE u[i - Len(v)]
  <2>1. r = v \o u
    BY <1>0 DEF u
  <2> QED BY <1>0, <1>3, <2>1, ConcatProperties
<1>6. r[Len(v) + 1] = bar /\ \A i \in 1..Len(v) : r[i] = v[i]
  BY <1>1, <1>3, <1>4, <1>5
<1>7. ASSUME NEW i \in 1..Len(w) PROVE r[Len(v) + 1 + i] = w[i]
  <2>1. /\ Len(v) + 1 + i \in 1..Len(v) + Len(u) /\ ~(Len(v) + 1 + i <= Len(v))
        /\ (Len(v) + 1 + i) - Len(v) = i + 1
    BY <1>1, <1>3
  <2> QED BY <1>4, <1>5, <2>1
<1>8. Len(r) = Len(v) + 1 + Len(w)
  <2>1. Len(u) = 1 + Len(w) /\ Len(r) = Len(v) + Len(u)
    BY <1>3, <1>5
  <2> QED BY <1>1, <2>1
<1> QED BY <1>1, <1>6, <1>7, <1>8

LEMMA CutOnce ==
  ASSUME NEW S, NEW sep, NEW a, NEW b, NEW x, NEW y, PartedTwice(a, x, b, y, sep, S)
  PROVE  <<a, x>> = <<b, y>>
<1> USE DEF PartedTwice
<1> DEFINE r == a \o (sep \o x)
<1>1. PICK bar \in S : sep = <<bar>>
  BY DEF IsMark
<1>2. bar \in ToSet(sep)
  BY <1>1 DEF ToSet
<1>3. Parted(r, a, bar, x, S) /\ Parted(r, b, bar, y, S)
  BY <1>1 DEF Parted
<1> HIDE DEF r
<1>4. /\ Len(a) \in Nat /\ Len(x) \in Nat /\ Len(r) = Len(a) + 1 + Len(x)
      /\ r[Len(a) + 1] = bar
      /\ \A i \in 1..Len(a) : r[i] = a[i]
      /\ \A i \in 1..Len(x) : r[Len(a) + 1 + i] = x[i]
  BY <1>3, Marked
<1>5. /\ Len(b) \in Nat /\ Len(y) \in Nat /\ Len(r) = Len(b) + 1 + Len(y)
      /\ r[Len(b) + 1] = bar
      /\ \A i \in 1..Len(b) : r[i] = b[i]
      /\ \A i \in 1..Len(y) : r[Len(b) + 1 + i] = y[i]
  BY <1>3, Marked
<1>6. (\A i \in 1..Len(a) : a[i] # bar) /\ \A i \in 1..Len(b) : b[i] # bar
  <2>1. DOMAIN a = 1..Len(a) /\ DOMAIN b = 1..Len(b)
    BY LenProperties
  <2> QED BY <1>2, <2>1 DEF FreeOf, ToSet
<1>7. Len(a) = Len(b)
  <2>1. CASE Len(a) < Len(b)
    <3>1. Len(a) + 1 \in 1..Len(b)
      BY <1>4, <1>5, <2>1
    <3> QED BY <1>4, <1>5, <1>6, <3>1
  <2>2. CASE Len(b) < Len(a)
    <3>1. Len(b) + 1 \in 1..Len(a)
      BY <1>4, <1>5, <2>2
    <3> QED BY <1>4, <1>5, <1>6, <3>1
  <2> QED BY <1>4, <1>5, <2>1, <2>2
<1>8. Len(x) = Len(y)
  BY <1>4, <1>5, <1>7
<1>9. a = b
  <2>1. \A i \in 1..Len(a) : a[i] = b[i]
    BY <1>4, <1>5, <1>7
  <2> QED BY <1>7, <2>1, SeqEqual
<1>10. x = y
  <2>1. ASSUME NEW i \in 1..Len(x) PROVE x[i] = y[i]
    BY <1>4, <1>5, <1>7, <1>8
  <2> QED BY <1>8, <2>1, SeqEqual
<1> QED BY <1>9, <1>10

\* The same text parted at two marks each.
PartedThrice(a, b, c, x, y, z, sep, S) ==
  /\ IsMark(sep, S) /\ a \in Seq(S) /\ b \in Seq(S) /\ c \in Seq(S)
  /\ x \in Seq(S) /\ y \in Seq(S) /\ z \in Seq(S)
  /\ FreeOf(sep, a) /\ FreeOf(sep, b) /\ FreeOf(sep, x) /\ FreeOf(sep, y)
  /\ a \o (sep \o (b \o (sep \o c))) = x \o (sep \o (y \o (sep \o z)))

LEMMA CutTwice ==
  ASSUME NEW S, NEW sep, NEW a, NEW b, NEW c, NEW x, NEW y, NEW z,
         PartedThrice(a, b, c, x, y, z, sep, S)
  PROVE  <<a, b, c>> = <<x, y, z>>
<1> USE DEF PartedThrice
<1>1. sep \in Seq(S)
  BY DEF IsMark
<1> DEFINE u == b \o (sep \o c)
           v == y \o (sep \o z)
<1>2. u \in Seq(S) /\ v \in Seq(S)
  <2>1. sep \o c \in Seq(S) /\ sep \o z \in Seq(S)
    BY <1>1, ConcatProperties
  <2> QED BY <2>1, ConcatProperties
<1>3. a \o (sep \o u) = x \o (sep \o v)
  OBVIOUS
<1> HIDE DEF u, v
<1>4. PartedTwice(a, u, x, v, sep, S)
  BY <1>2, <1>3 DEF PartedTwice
<1>5. a = x /\ u = v
  BY <1>4, CutOnce
<1>6. PartedTwice(b, c, y, z, sep, S)
  BY <1>5 DEF u, v, PartedTwice
<1>7. b = y /\ c = z
  BY <1>6, CutOnce
<1> QED BY <1>5, <1>7

AreTexts(sep, o, m, n, S) ==
  sep \in Seq(S) /\ o \in Seq(S) /\ m \in Seq(S) /\ n \in Seq(S)

Rightwards(sep, o, m, n) == o \o (sep \o (m \o (sep \o n)))
Leftwards(sep, o, m, n) == o \o sep \o m \o sep \o n

Assoc(x, y, z) == (x \o y) \o z = x \o (y \o z)
LEMMA Associative ==
  \A S : \A x, y, z \in Seq(S) : Assoc(x, y, z)
BY ConcatAssociative DEF Assoc

LEMMA Reassociated ==
  ASSUME NEW S, NEW sep, NEW o, NEW m, NEW n, AreTexts(sep, o, m, n, S)
  PROVE  Rightwards(sep, o, m, n) = Leftwards(sep, o, m, n)
<1> USE DEF AreTexts, Rightwards, Leftwards
<1> DEFINE p == o \o sep
           q == p \o m
           r == sep \o n
           s == m \o r
<1>1. \A x, y, z \in Seq(S) : Assoc(x, y, z)
  BY Associative
<1>2. \A x, y \in Seq(S) : x \o y \in Seq(S)
  BY ConcatProperties
<1>3. p \in Seq(S) /\ r \in Seq(S)
  BY <1>2
<1>4. Assoc(o, sep, s) /\ Assoc(p, m, r) /\ Assoc(q, sep, n)
  <2>1. q \in Seq(S) /\ s \in Seq(S)
    <3> HIDE DEF p, r
    <3> QED BY <1>2, <1>3
  <2> HIDE DEF p, q, r, s
  <2> QED BY <1>1, <1>3, <2>1
<1>5. o \o (sep \o s) = p \o s /\ p \o s = q \o r /\ q \o r = (q \o sep) \o n
  BY <1>4 DEF Assoc
<1> QED BY <1>5

\* A tenant whose organisation and team have no bar in their names.
Barless(t) ==
  /\ t.org \in Seq(STRING) /\ t.team \in Seq(STRING) /\ t.user \in Seq(STRING)
  /\ t = [org |-> t.org, team |-> t.team, user |-> t.user]
  /\ FreeOf(Bar, t.org) /\ FreeOf(Bar, t.team)

\* The memory backend compares tenants by a text, the SQL ones by their columns:
\* the two tell the same tenants apart where no organisation and no team has a bar
\* in its name (tenantKey).  Nothing checks a name for one.
THEOREM KeyTellsTenants ==
  ASSUME NEW tenants, \A t \in tenants : Barless(t)
  PROVE  ToldApart(tenants)
<1> SUFFICES ASSUME NEW t \in tenants, NEW u \in tenants, TenantKey(t) = TenantKey(u)
             PROVE  t = u
  BY DEF ToldApart
<1>0. Barless(t) /\ Barless(u)
  OBVIOUS
<1> DEFINE bar == Bar[1]
           S == STRING \cup {bar}
           Parts == [org : Seq(S), team : Seq(S), user : Seq(S)]
           Written(v) == v.org \o (Bar \o (v.team \o (Bar \o v.user)))
<1>1. IsMark(Bar, S) /\ Bar \in Seq(S) /\ Bar # <<>>
  <2>1. bar \in S /\ Bar = <<bar>>
    BY DEF Bar
  <2> HIDE DEF S, bar
  <2> QED BY <2>1 DEF IsMark
<1> HIDE DEF S, bar
<1>2. ASSUME NEW v \in Parts PROVE Written(v) = v.org \o Bar \o v.team \o Bar \o v.user
  <2> DEFINE o == v.org
             m == v.team
             n == v.user
  <2>1. AreTexts(Bar, o, m, n, S)
    BY <1>1 DEF AreTexts
  <2> HIDE DEF o, m, n
  <2>2. Rightwards(Bar, o, m, n) = Leftwards(Bar, o, m, n)
    BY <2>1, Reassociated
  <2> QED BY <2>2 DEF o, m, n, Rightwards, Leftwards
<1>3. ASSUME NEW v \in Parts PROVE Written(v) # <<>>
  <2>1. v.org \in Seq(S) /\ v.team \in Seq(S) /\ v.user \in Seq(S)
    OBVIOUS
  <2> DEFINE w == v.team \o (Bar \o v.user)
             z == Bar \o w
  <2>2. w \in Seq(S) /\ z \in Seq(S)
    <3>1. Bar \o v.user \in Seq(S)
      BY <1>1, <2>1, ConcatProperties
    <3>2. w \in Seq(S)
      BY <2>1, <3>1, ConcatProperties
    <3> QED BY <1>1, <3>2, ConcatProperties
  <2> HIDE DEF w
  <2>3. z # <<>>
    BY <1>1, <2>2, ConcatEqualIffEmpty
  <2> HIDE DEF z
  <2>4. v.org \o z # <<>>
    BY <2>1, <2>2, <2>3, ConcatEqualIffEmpty
  <2> QED BY <2>4 DEF w, z
<1>4. t \in Parts /\ u \in Parts
  <2>1. \A s \in Seq(STRING) : s \in Seq(S)
    <3>1. STRING \subseteq S
      BY DEF S
    <3> QED BY <3>1, SeqMonotonic
  <2> QED BY <1>0, <2>1 DEF Barless
<1>5. ASSUME NEW v \in Parts PROVE TenantKey(v) = IF v = NoTenant THEN <<>> ELSE Written(v)
  BY <1>2 DEF TenantKey, IsZero
<1>6. CASE Written(t) = Written(u)
  <2>1. FreeOf(Bar, t.org) /\ FreeOf(Bar, t.team) /\ FreeOf(Bar, u.org) /\ FreeOf(Bar, u.team)
    BY <1>0 DEF Barless
  <2>2. /\ t.org \in Seq(S) /\ t.team \in Seq(S) /\ t.user \in Seq(S)
        /\ u.org \in Seq(S) /\ u.team \in Seq(S) /\ u.user \in Seq(S)
    BY <1>4
  <2> DEFINE a == t.org
             b == t.team
             c == t.user
             x == u.org
             y == u.team
             z == u.user
  <2>3. <<a, b, c>> = <<x, y, z>>
    <3>1. a \o (Bar \o (b \o (Bar \o c))) = x \o (Bar \o (y \o (Bar \o z)))
      BY <1>6
    <3> HIDE DEF a, b, c, x, y, z
    <3>2. /\ a \in Seq(S) /\ b \in Seq(S) /\ c \in Seq(S)
          /\ x \in Seq(S) /\ y \in Seq(S) /\ z \in Seq(S)
      BY <2>2 DEF a, b, c, x, y, z
    <3>3. FreeOf(Bar, a) /\ FreeOf(Bar, b) /\ FreeOf(Bar, x) /\ FreeOf(Bar, y)
      BY <2>1 DEF a, b, c, x, y, z
    <3>4. PartedThrice(a, b, c, x, y, z, Bar, S)
      BY <1>1, <3>1, <3>2, <3>3 DEF PartedThrice
    <3> QED BY <3>4, CutTwice
  <2> QED BY <1>4, <2>3
<1> HIDE DEF Written, Parts
<1> QED BY <1>3, <1>4, <1>5, <1>6

-----------------------------------------------------------------------------
(* The catalogs are read alike.                                            *)

CatalogInv == TypesInv /\ SessionsAlike /\ ClockInv /\ SubmitsInv

LEMMA SessionsRead ==
  ASSUME SessionsAlike, NEW id
  PROVE  LET undated(s) == IF s = None THEN None ELSE [s EXCEPT !.created = 0]
             found == undated(Mem!GetSession(mem, id))
         IN  undated(Lite!GetSession(lite, id)) = found /\ undated(Pg!GetSession(pg, id)) = found
<1> USE DEF Mem!GetSession, Lite!GetSession, Pg!GetSession, Mem!Lookup, Lite!Lookup, Pg!Lookup
<1>0. Tables
  BY DEF SessionsAlike
<1>1. CASE id \notin DOMAIN mem["sessions"]
  BY <1>1 DEF SessionsAlike
<1>2. CASE id \in DOMAIN mem["sessions"]
  <2>1. PICK t \in Tenants, c, d, e, u \in Nat :
          /\ mem["sessions"][id] = Sess(t, c, u)
          /\ lite["sessions"][id] = Sess(t, d, u)
          /\ pg["sessions"][id] = Sess(t, e, u)
    BY <1>2 DEF SessionsAlike, SameSession
  <2>4. /\ Mem!GetSession(mem, id) = mem["sessions"][id]
        /\ Lite!GetSession(lite, id) = lite["sessions"][id]
        /\ Pg!GetSession(pg, id) = pg["sessions"][id]
    BY <1>2 DEF SessionsAlike
  <2>2. \A x, y \in Nat : Sess(t, x, y) # None
    BY SessionAssumption DEF Sess
  <2>3. \A x, y : [Sess(t, x, y) EXCEPT !.created = 0] = Sess(t, 0, y)
    BY DEF Sess
  <2> HIDE DEF Mem!GetSession, Lite!GetSession, Pg!GetSession
  <2> QED BY <2>1, <2>2, <2>3, <2>4
<1> QED BY <1>1, <1>2

\* The rows a list of sessions takes, and the orders it puts them in.
MemChosen(filter) ==
  {s \in {mem["sessions"][id] : id \in DOMAIN mem["sessions"]} :
     MatchesFields(s, filter) /\ Mem!MatchesTenant(s, filter)}
LiteChosen(filter) ==
  {s \in {lite["sessions"][id] : id \in DOMAIN lite["sessions"]} :
     MatchesFields(s, filter) /\ Lite!MatchesTenant(s, filter)}
PgChosen(filter) ==
  {s \in {pg["sessions"][id] : id \in DOMAIN pg["sessions"]} :
     MatchesFields(s, filter) /\ Pg!SameTenant(s, filter)}
Newest(rows) == {p \in rows \X rows : p[2].created < p[1].created}
NewestText(rows) == {p \in rows \X rows : Lite!TextAfter(p[1].created, p[2].created)}

LEMMA ListSessionsOrders ==
  ASSUME NEW filter, NEW limit
  PROVE  /\ Mem!ListSessions(mem, filter, limit)
              = Limited(InOrder(MemChosen(filter), Newest(MemChosen(filter))), limit)
         /\ Lite!ListSessions(lite, filter, limit)
              = Limited(InOrder(LiteChosen(filter), NewestText(LiteChosen(filter))), limit)
         /\ Pg!ListSessions(pg, filter, limit)
              = Limited(InOrder(PgChosen(filter), Newest(PgChosen(filter))), limit)
<1>1. Mem!ListSessions(mem, filter, limit)
        = Limited(InOrder(MemChosen(filter), Newest(MemChosen(filter))), limit)
  BY SameInOrder, SameLimited
     DEF Mem!ListSessions, Mem!Ordered, Mem!Later, Mem!MatchesFields, MatchesFields, MemChosen, Newest
<1>2. Lite!ListSessions(lite, filter, limit)
        = Limited(InOrder(LiteChosen(filter), NewestText(LiteChosen(filter))), limit)
  BY SameInOrder, SameLimited
     DEF Lite!ListSessions, Lite!Ordered, Lite!MatchesFields, MatchesFields, LiteChosen, NewestText
<1>3. Pg!ListSessions(pg, filter, limit)
        = Limited(InOrder(PgChosen(filter), Newest(PgChosen(filter))), limit)
  BY SameInOrder, SameLimited
     DEF Pg!ListSessions, Pg!Ordered, Pg!Later, Pg!MatchesFields, MatchesFields, PgChosen, Newest
<1> QED BY <1>1, <1>2, <1>3

LEMMA SessionsListed ==
  ASSUME SessionsAlike, NEW tenant \in Tenants
  PROVE  LET filter == [caller |-> "anonymous", tenant |-> tenant]
             told == Tells(filter, {mem.sessions[i].tenant : i \in DOMAIN mem.sessions})
         IN  /\ told /\ pg.sessions = mem.sessions
                  => Pg!ListSessions(pg, filter, 1) = Mem!ListSessions(mem, filter, 1)
             /\ told /\ lite.sessions = mem.sessions
                     /\ TextFaithful({mem.sessions[i].created : i \in DOMAIN mem.sessions})
                  => Lite!ListSessions(lite, filter, 1) = Mem!ListSessions(mem, filter, 1)
<1> DEFINE filter == [caller |-> "anonymous", tenant |-> tenant]
           rows == {mem.sessions[i] : i \in DOMAIN mem.sessions}
           times == {mem.sessions[i].created : i \in DOMAIN mem.sessions}
           whose == {mem.sessions[i].tenant : i \in DOMAIN mem.sessions}
           told == Tells(filter, whose)
<1>1. ASSUME NEW s \in rows PROVE s.tenant \in whose /\ s.created \in times
  <2>1. PICK i \in DOMAIN mem["sessions"] : s = mem["sessions"][i]
    OBVIOUS
  <2>2. PICK t \in Tenants, c, u \in Nat : s = Sess(t, c, u)
    BY <2>1 DEF SessionsAlike, SameSession
  <2> QED BY <2>1, <2>2 DEF Sess
<1>2. "tenant" \in DOMAIN filter /\ filter.tenant = tenant
  OBVIOUS
<1> HIDE DEF filter, rows, whose
<1>3. ASSUME told, NEW s \in rows
      PROVE  /\ Mem!MatchesTenant(s, filter) <=> Pg!SameTenant(s, filter)
             /\ Mem!MatchesTenant(s, filter) <=> Lite!MatchesTenant(s, filter)
  <2>1. Mem!TenantKey(s.tenant) = Mem!TenantKey(filter.tenant) <=> s.tenant = filter.tenant
    BY <1>1, <1>2, <1>3
       DEF Tells, ToldApart, Mem!TenantKey, TenantKey, Mem!IsZero, IsZero, Mem!NoTenant, NoTenant, Mem!Bar, Bar
  <2> QED BY <2>1 DEF Mem!MatchesTenant, Pg!SameTenant, Lite!MatchesTenant,
                      Mem!IsZero, Pg!IsZero, Lite!IsZero, Mem!NoTenant, Pg!NoTenant, Lite!NoTenant
<1>4. ASSUME told, pg.sessions = mem.sessions
      PROVE  Pg!ListSessions(pg, filter, 1) = Mem!ListSessions(mem, filter, 1)
  <2>1. PgChosen(filter) = MemChosen(filter)
    BY <1>3, <1>4 DEF rows, PgChosen, MemChosen
  <2> QED BY <2>1, ListSessionsOrders
<1>5. ASSUME told, lite.sessions = mem.sessions, TextFaithful(times)
      PROVE  Lite!ListSessions(lite, filter, 1) = Mem!ListSessions(mem, filter, 1)
  <2>1. LiteChosen(filter) = MemChosen(filter)
    BY <1>3, <1>5 DEF rows, LiteChosen, MemChosen
  <2>2. \A s \in MemChosen(filter) : s.created \in times
    BY <1>1 DEF MemChosen, rows
  <2>3. \A r, s \in MemChosen(filter) : Lite!TextAfter(s.created, r.created) <=> r.created < s.created
    BY <1>5, <2>2 DEF TextFaithful, Lite!TextAfter
  <2>4. NewestText(MemChosen(filter)) = Newest(MemChosen(filter))
    BY <2>3 DEF NewestText, Newest
  <2> QED BY <2>1, <2>4, ListSessionsOrders
<1> QED BY <1>4, <1>5 DEF filter, whose

LEMMA TypesRead ==
  ASSUME TypesInv
  PROVE  LET listed == Mem!ListTypes([mem EXCEPT !.types = AsJSON(mem.types)])
         IN  /\ \A name :
                  LET found == Mem!GetType(mem, name)
                      kept == IF found = None THEN None ELSE Plain(found)
                  IN  /\ found # None => IsType(found)
                      /\ Lite!GetType(lite, name) = kept /\ Pg!GetType(pg, name) = kept
             /\ Lite!ListTypes(lite) = listed /\ Pg!ListTypes(pg) = listed
<1>0. \A n \in DOMAIN mem["types"] : mem["types"][n] # None
  BY DEF TypesInv, IsType
<1>1. ASSUME NEW name
      PROVE  LET found == Mem!GetType(mem, name)
                 kept == IF found = None THEN None ELSE Plain(found)
             IN  /\ found # None => IsType(found)
                 /\ Lite!GetType(lite, name) = kept /\ Pg!GetType(pg, name) = kept
  BY <1>0 DEF TypesInv, Lite!GetType, Pg!GetType, Mem!GetType, Lite!Lookup, Mem!Lookup
<1> DEFINE plain == [mem EXCEPT !.types = AsJSON(mem.types)]
<1>7. plain.types = AsJSON(mem.types) /\ DOMAIN plain.types = DOMAIN mem["types"]
      /\ \A n \in DOMAIN mem["types"] : plain.types[n] = Plain(mem["types"][n])
  BY DEF TypesInv, Tables, AsJSON, Plain
<1> HIDE DEF plain
<1>2. /\ {Pg!TypeOf(pg.types[n]) : n \in DOMAIN pg.types} = {plain.types[n] : n \in DOMAIN plain.types}
      /\ {lite.types[n] : n \in DOMAIN lite.types} = {plain.types[n] : n \in DOMAIN plain.types}
  BY <1>7 DEF TypesInv
<1> DEFINE Named(rows) == {p \in rows \X rows : NameBefore(p[1].name, p[2].name)}
           listed == {plain.types[n] : n \in DOMAIN plain.types}
<1>3. Mem!ListTypes(plain) = InOrder(listed, Named(listed))
  BY SameInOrder
     DEF Mem!ListTypes, Mem!Ordered, Mem!NameBefore, Mem!Alphabet, NameBefore, Alphabet
<1>4. Lite!ListTypes(lite) = InOrder({lite.types[n] : n \in DOMAIN lite.types},
                                     Named({lite.types[n] : n \in DOMAIN lite.types}))
  BY SameInOrder
     DEF Lite!ListTypes, Lite!Ordered, Lite!NameBefore, Lite!Alphabet, NameBefore, Alphabet
<1>5. Pg!ListTypes(pg) = InOrder({Pg!TypeOf(pg.types[n]) : n \in DOMAIN pg.types},
                                 Named({Pg!TypeOf(pg.types[n]) : n \in DOMAIN pg.types}))
  BY SameInOrder
     DEF Pg!ListTypes, Pg!Ordered, Pg!NameBefore, Pg!Alphabet, NameBefore, Alphabet
<1> HIDE DEF Named
<1>6. Lite!ListTypes(lite) = Mem!ListTypes(plain) /\ Pg!ListTypes(pg) = Mem!ListTypes(plain)
  BY <1>2, <1>3, <1>4, <1>5
<1> QED BY <1>1, <1>6 DEF plain

\* Whatever is registered, in whatever order and whoever races for a session, an
\* intent whose type has a schema of lists and maps of any has the same verdict and
\* policy on every backend, types are listed alike but for the schema's Go kinds,
\* and the sessions are the same up to when they began (IntentTypeRepo and
\* SessionRepo of the three stores, Registry.Register and Validate).
THEOREM CatalogsAgreeAlways == Spec => []CatalogsAgree
<1>1. Init => CatalogInv
  <2> SUFFICES ASSUME Init PROVE CatalogInv
    OBVIOUS
  <2>1. Tables
    BY TablesInit
  <2>2. TypesInv /\ SessionsAlike
    BY <2>1 DEF Init, TypesInv, SessionsAlike, Mem!New, Lite!Empty, Pg!Empty
  <2>3. ClockInv /\ SubmitsInv
    BY DEF Init, ClockInv, SubmitsInv
  <2> QED BY <2>2, <2>3 DEF CatalogInv
<1>2. CatalogInv /\ [Next]_vars => CatalogInv'
  <2> SUFFICES ASSUME CatalogInv, [Next]_vars PROVE CatalogInv'
    OBVIOUS
  <2>1. TypesInv'
    <3>1. CASE TypesStay
      BY <3>1 DEF TypesStay, Stays, TypesInv, CatalogInv
    <3> QED BY <3>1, StepTouches, RegisterKeeps DEF CatalogInv, TypesInv
  <2>2. SessionsAlike'
    <3>1. CASE SessionsStay
      <4>1. SessionsAlike
        BY DEF CatalogInv
      <4>2. /\ Tables' /\ mem'["sessions"] = mem["sessions"]
            /\ lite'["sessions"] = lite["sessions"] /\ pg'["sessions"] = pg["sessions"]
        BY <3>1 DEF SessionsStay, Stays
      <4>3. ASSUME NEW id \in DOMAIN mem["sessions"] PROVE SameSession(id)'
        <5>1. SameSession(id)
          BY <4>1 DEF SessionsAlike
        <5> QED BY <4>2, <5>1 DEF SameSession
      <4> QED BY <4>1, <4>2, <4>3 DEF SessionsAlike
    <3>2. ASSUME NEW p \in Submitters, UpsertSession(p) PROVE SessionsAlike'
      BY <3>2, UpsertAlike DEF CatalogInv
    <3>3. Tables
      BY DEF CatalogInv, TypesInv
    <3> QED BY <3>1, <3>2, <3>3, StepTouches
  <2> QED BY <2>1, <2>2, ClockKeeps, SubmitsKeep DEF CatalogInv
<1>3. CatalogInv => CatalogsAgree
  <2> SUFFICES ASSUME CatalogInv PROVE CatalogsAgree
    OBVIOUS
  <2>1. TypesInv /\ SessionsAlike
    BY DEF CatalogInv
  <2>2. ASSUME NEW intent \in Intents, NEW v, v = Reg!ValidateIntent(intent, Mem!GetType(mem, intent.type)),
               v # None
        PROVE  Reg!PreparePolicy(v, [maxIterations |-> 0, deadline |-> None], now).maxIterations > 0
    <3>1. PICK n \in DOMAIN mem["types"] : v = mem["types"][n]
      BY <2>2 DEF Reg!ValidateIntent, Mem!GetType, Mem!Lookup
    <3>2. v.policy.maxIterations > 0 /\ v.policy.maxIterations \in Int
      BY <2>1, <3>1 DEF TypesInv, IsType
    <3> DEFINE goal == [maxIterations |-> 0, deadline |-> None]
    <3>3. goal.maxIterations = 0
      OBVIOUS
    <3> HIDE DEF goal
    <3>4. Reg!PreparePolicy(v, goal, now).maxIterations
            = IF goal.maxIterations <= 0 THEN v.policy.maxIterations ELSE goal.maxIterations
      BY Zenon DEF Reg!PreparePolicy
    <3>5. Reg!PreparePolicy(v, goal, now).maxIterations > 0
      BY <3>2, <3>3, <3>4
    <3> QED BY <3>5 DEF goal
  <2>3. LET listed == Mem!ListTypes([mem EXCEPT !.types = AsJSON(mem.types)])
        IN  /\ \A name :
                 LET found == Mem!GetType(mem, name)
                     kept == IF found = None THEN None ELSE Plain(found)
                 IN  /\ found # None => IsType(found)
                     /\ Lite!GetType(lite, name) = kept /\ Pg!GetType(pg, name) = kept
            /\ Lite!ListTypes(lite) = listed /\ Pg!ListTypes(pg) = listed
    BY <2>1, TypesRead
  <2>5. ASSUME NEW name, Mem!GetType(mem, name) # None =>
                           ThroughJSON(Mem!GetType(mem, name).schema) = Mem!GetType(mem, name).schema
        PROVE  /\ Lite!GetType(lite, name) = Mem!GetType(mem, name)
               /\ Pg!GetType(pg, name) = Mem!GetType(mem, name)
    <3> DEFINE found == Mem!GetType(mem, name)
    <3>1. CASE found = None
      BY <2>3, <3>1
    <3>2. CASE found # None
      <4>1. IsType(found) /\ ThroughJSON(found.schema) = found.schema
            /\ Lite!GetType(lite, name) = Plain(found) /\ Pg!GetType(pg, name) = Plain(found)
        BY <2>3, <2>5, <3>2
      <4> HIDE DEF found
      <4>2. Plain(found) = found
        BY <4>1 DEF IsType, Plain, TypeRow
      <4> QED BY <4>1, <4>2 DEF found
    <3> QED BY <3>1, <3>2
  <2>4. \A tenant \in Tenants :
          LET id == SessionID(tenant)
              undated(s) == IF s = None THEN None ELSE [s EXCEPT !.created = 0]
              found == undated(Mem!GetSession(mem, id))
          IN  undated(Lite!GetSession(lite, id)) = found /\ undated(Pg!GetSession(pg, id)) = found
    BY <2>1, SessionsRead
  <2> QED BY <2>1, <2>2, <2>3, <2>4, <2>5, SessionsListed DEF CatalogsAgree
<1> QED BY <1>1, <1>2, <1>3, PTL DEF Spec

-----------------------------------------------------------------------------
(* The audit trail.                                                        *)

\* seq holds each of rows once.
Holds(seq, n, rows) ==
  /\ n \in Nat /\ seq \in [1..n -> rows]
  /\ \A x \in rows : \E i \in 1..n : seq[i] = x
  /\ \A i, j \in 1..n : seq[i] = seq[j] => i = j

Oldest(rows) == {p \in rows \X rows : p[1].created < p[2].created}
Recorded == {lite["audit"][k] : k \in DOMAIN lite["audit"]}
Trail(run) == {e \in Recorded : e.run = run}

AuditInv ==
  /\ Tables
  /\ lite["audit"] = pg["audit"] /\ IsFiniteSet(Recorded)
  /\ \A k \in DOMAIN lite["audit"] :
       k \in Nat /\ lite["audit"][k].created = k /\ lite["audit"][k].run \in Ids
  /\ DOMAIN mem["events"] \subseteq Ids
  /\ \A run \in Ids : \E n \in Nat : Holds(Mem!EventsOf(mem, run), n, Trail(run))

LEMMA HoldsMore ==
  ASSUME NEW seq, NEW n, NEW rows, Holds(seq, n, rows), NEW e, e \notin rows
  PROVE  Holds(Append(seq, e), n + 1, rows \cup {e})
<1> USE DEF Holds
<1> DEFINE t == Append(seq, e)
<1>1. seq \in Seq(rows \cup {e}) /\ Len(seq) = n /\ n \in Nat
  OBVIOUS
<1>2. /\ t \in Seq(rows \cup {e}) /\ Len(t) = n + 1
      /\ \A i \in 1..n : t[i] = seq[i]
      /\ t[n + 1] = e
  BY <1>1, AppendProperties
<1> HIDE DEF t
<1>3. t \in [1..n + 1 -> rows \cup {e}]
  BY <1>2
<1>4. ASSUME NEW x \in rows \cup {e} PROVE \E i \in 1..n + 1 : t[i] = x
  <2>1. CASE x = e
    BY <1>1, <1>2, <2>1
  <2>2. CASE x \in rows
    <3>1. PICK i \in 1..n : seq[i] = x
      BY <2>2
    <3> QED BY <1>1, <1>2, <3>1
  <2> QED BY <2>1, <2>2
<1>5. ASSUME NEW i \in 1..n + 1, NEW j \in 1..n + 1, t[i] = t[j] PROVE i = j
  <2>1. CASE i = n + 1
    BY <1>1, <1>2, <1>5, <2>1
  <2>2. CASE i # n + 1
    BY <1>1, <1>2, <1>5, <2>2
  <2> QED BY <2>1, <2>2
<1> QED BY <1>1, <1>3, <1>4, <1>5 DEF t

LEMMA AuditStays ==
  ASSUME AuditInv, TrailsStay
  PROVE  AuditInv'
<1>1. Tables' /\ mem'["events"] = mem["events"]
      /\ lite'["audit"] = lite["audit"] /\ pg'["audit"] = pg["audit"]
  BY DEF TrailsStay, Stays
<1>2. \A run : Mem!EventsOf(mem', run) = Mem!EventsOf(mem, run)
  BY <1>1 DEF Mem!EventsOf
<1>3. \A run : Trail(run)' = Trail(run)
  BY <1>1 DEF Trail, Recorded
<1>4. ASSUME NEW run \in Ids
      PROVE  \E n \in Nat : Holds(Mem!EventsOf(mem', run), n, Trail(run)')
  BY <1>2, <1>3 DEF AuditInv
<1>5. /\ lite'["audit"] = pg'["audit"] /\ IsFiniteSet(Recorded)'
      /\ \A k \in DOMAIN lite'["audit"] :
           k \in Nat /\ lite'["audit"][k].created = k /\ lite'["audit"][k].run \in Ids
      /\ DOMAIN mem'["events"] \subseteq Ids
  BY <1>1 DEF AuditInv, Recorded
<1> QED BY <1>1, <1>4, <1>5 DEF AuditInv

LEMMA LogKeeps ==
  ASSUME AuditInv, NEW run \in Ids, NEW kind, LogEvent(run, kind)
  PROVE  AuditInv'
<1>1. PICK at1 \in 1..MaxEvents + 1 \ {e.created : e \in Lite!Events(lite)} :
        LET e == [id |-> at1, run |-> run, kind |-> kind, created |-> at1]
        IN  /\ mem' = Mem!AppendAudit(mem, e)
            /\ lite' = Lite!AppendAudit(lite, e)
            /\ pg' = Pg!AppendAudit(pg, e)
  BY DEF LogEvent
<1> DEFINE e == [id |-> at1, run |-> run, kind |-> kind, created |-> at1]
<1>2. e.id = at1 /\ e.run = run /\ e.created = at1
  OBVIOUS
<1>3. at1 \in Nat /\ at1 \notin DOMAIN lite["audit"]
  <2>1. at1 \in Nat
    BY QueriesAssumption
  <2>2. \A k \in DOMAIN lite["audit"] : k \in {x.created : x \in Lite!Events(lite)}
    BY DEF AuditInv, Lite!Events
  <2> QED BY <2>1, <2>2
<1> HIDE DEF e
<1>4. CASE run = None
  <2>1. mem' = mem /\ lite' = lite /\ pg' = pg
    BY <1>1, <1>2, <1>4 DEF e, Mem!AppendAudit, Lite!AppendAudit, Pg!AppendAudit
  <2>2. TrailsStay
    BY <2>1 DEF TrailsStay, Stays, AuditInv, Tables
  <2> QED BY <2>2, AuditStays
<1>5. CASE run # None
  <2>1. Tables'
    BY <1>1 DEF Mem!AppendAudit, Lite!AppendAudit, Pg!AppendAudit, AuditInv, Tables
  <2>2. /\ mem'["events"] = Put(mem["events"], run, Append(Mem!EventsOf(mem, run), e))
        /\ lite'["audit"] = Put(lite["audit"], at1, e)
        /\ pg'["audit"] = Put(pg["audit"], at1, e)
    <3>1. mem' = [mem EXCEPT !.events = Put(mem.events, run, Append(Mem!EventsOf(mem, run), e))]
      BY <1>1, <1>2, <1>5 DEF e, Mem!AppendAudit, Mem!Put, Put
    <3>2. lite' = [lite EXCEPT !.audit = Put(lite.audit, at1, e)]
      BY <1>1, <1>2, <1>3, <1>5 DEF e, Lite!AppendAudit, Lite!Put, Put
    <3>3. pg' = [pg EXCEPT !.audit = Put(pg.audit, at1, e)]
      BY <1>1, <1>2, <1>3, <1>5 DEF e, Pg!AppendAudit, Pg!Put, Put, AuditInv
    <3> QED BY <3>1, <3>2, <3>3 DEF AuditInv, Tables
  <2>3. lite'["audit"] = pg'["audit"]
    BY <2>2 DEF AuditInv
  <2>4. DOMAIN lite'["audit"] = DOMAIN lite["audit"] \cup {at1}
    BY <2>2 DEF Put
  <2>5. ASSUME NEW k \in DOMAIN lite'["audit"]
        PROVE  k \in Nat /\ lite'["audit"][k].created = k /\ lite'["audit"][k].run \in Ids
    <3>1. CASE k = at1
      BY <1>2, <1>3, <2>2, <3>1, LookupPut
    <3>2. CASE k # at1
      BY <2>2, <2>4, <3>2, LookupPut DEF AuditInv
    <3> QED BY <3>1, <3>2
  <2>6. DOMAIN mem'["events"] \subseteq Ids
    BY <2>2 DEF AuditInv, Put
  <2>7. Recorded' = Recorded \cup {e}
    <3>1. \A k \in DOMAIN lite["audit"] : lite'["audit"][k] = lite["audit"][k]
      BY <1>3, <2>2, <2>4, LookupPut
    <3>2. lite'["audit"][at1] = e
      BY <2>2, LookupPut
    <3> QED BY <2>4, <3>1, <3>2 DEF Recorded
  <2>10. IsFiniteSet(Recorded')
    BY <2>7, FS_AddElement DEF AuditInv
  <2>8. e \notin Recorded
    BY <1>2, <1>3 DEF Recorded, AuditInv
  <2>9. ASSUME NEW r \in Ids PROVE \E n \in Nat : Holds(Mem!EventsOf(mem', r), n, Trail(r)')
    <3>1. PICK n \in Nat : Holds(Mem!EventsOf(mem, r), n, Trail(r))
      BY DEF AuditInv
    <3>2. CASE r = run
      <4>1. Mem!EventsOf(mem', r) = Append(Mem!EventsOf(mem, r), e)
        <5>1. mem'["events"][run] = Append(Mem!EventsOf(mem, run), e)
          <6> DEFINE es == Append(Mem!EventsOf(mem, run), e)
          <6>1. mem'["events"] = Put(mem["events"], run, es)
            BY <2>2
          <6> HIDE DEF es
          <6>2. mem'["events"][run] = es
            BY <6>1, LookupPut
          <6> QED BY <6>2 DEF es
        <5>3. run \in DOMAIN mem'["events"]
          BY <2>2, LookupPut
        <5>2. Mem!EventsOf(mem', run) = mem'["events"][run]
          BY <5>3 DEF Mem!EventsOf
        <5> QED BY <3>2, <5>1, <5>2
      <4>2. Trail(r)' = Trail(r) \cup {e} /\ e \notin Trail(r)
        BY <1>2, <2>7, <2>8, <3>2 DEF Trail
      <4>3. Holds(Append(Mem!EventsOf(mem, r), e), n + 1, Trail(r) \cup {e})
        BY <3>1, <4>2, HoldsMore
      <4> QED BY <4>1, <4>2, <4>3
    <3>3. CASE r # run
      <4>1. Mem!EventsOf(mem', r) = Mem!EventsOf(mem, r)
        BY <2>2, <3>3, LookupPut DEF Mem!EventsOf
      <4>2. Trail(r)' = Trail(r)
        BY <1>2, <2>7, <3>3 DEF Trail
      <4> QED BY <3>1, <4>1, <4>2
    <3> QED BY <3>2, <3>3
  <2> QED BY <2>1, <2>3, <2>4, <2>5, <2>6, <2>9, <2>10 DEF AuditInv
<1> QED BY <1>4, <1>5

LEMMA CreatedOrders ==
  ASSUME AuditInv, NEW rows, rows \subseteq Recorded
  PROVE  /\ IsFiniteSet(rows) /\ IsOrder(Oldest(rows), rows) /\ IsOrder(Newest(rows), rows)
<1>1. ASSUME NEW e \in rows
      PROVE  e.created \in DOMAIN lite["audit"] /\ e.created \in Nat /\ e = lite["audit"][e.created]
  BY DEF Recorded, AuditInv
<1>2. IsFiniteSet(rows)
  <2>1. IsFiniteSet(Recorded)
    BY DEF AuditInv
  <2> QED BY <2>1, FS_Subset
<1>3. \A e \in rows : e.created \in Nat
  BY <1>1
<1>4. \A e, f \in rows : e # f => e.created # f.created
  BY <1>1
<1>5. /\ \A e, f \in rows : <<e, f>> \in Oldest(rows) <=> e.created < f.created
      /\ \A e, f \in rows : <<e, f>> \in Newest(rows) <=> f.created < e.created
  BY DEF Oldest, Newest
<1>6. IsOrder(Oldest(rows), rows)
  <2>1. ASSUME NEW x \in rows PROVE <<x, x>> \notin Oldest(rows)
    <3>1. x.created \in Nat /\ ~(x.created < x.created)
      BY <1>3
    <3> QED BY <1>5, <3>1
  <2>2. ASSUME NEW x \in rows, NEW y \in rows, x # y
        PROVE  <<x, y>> \in Oldest(rows) \/ <<y, x>> \in Oldest(rows)
    <3>1. x.created < y.created \/ y.created < x.created
      <4>1. x.created \in Nat /\ y.created \in Nat /\ x.created # y.created
        BY <1>3, <1>4, <2>2
      <4> QED BY <4>1
    <3> QED BY <1>5, <3>1
  <2>3. ASSUME NEW x \in rows, NEW y \in rows, NEW z \in rows,
               <<x, y>> \in Oldest(rows), <<y, z>> \in Oldest(rows)
        PROVE  <<x, z>> \in Oldest(rows)
    <3>1. x.created \in Nat /\ y.created \in Nat /\ z.created \in Nat
      BY <1>3
    <3>2. x.created < y.created /\ y.created < z.created
      BY <1>5, <2>3
    <3>3. x.created < z.created
      BY <3>1, <3>2
    <3> QED BY <1>5, <3>3
  <2> QED BY <2>1, <2>2, <2>3 DEF IsOrder
<1>7. IsOrder(Newest(rows), rows)
  <2>1. ASSUME NEW x \in rows PROVE <<x, x>> \notin Newest(rows)
    <3>1. x.created \in Nat /\ ~(x.created < x.created)
      BY <1>3
    <3> QED BY <1>5, <3>1
  <2>2. ASSUME NEW x \in rows, NEW y \in rows, x # y
        PROVE  <<x, y>> \in Newest(rows) \/ <<y, x>> \in Newest(rows)
    <3>1. x.created < y.created \/ y.created < x.created
      <4>1. x.created \in Nat /\ y.created \in Nat /\ x.created # y.created
        BY <1>3, <1>4, <2>2
      <4> QED BY <4>1
    <3> QED BY <1>5, <3>1
  <2>3. ASSUME NEW x \in rows, NEW y \in rows, NEW z \in rows,
               <<x, y>> \in Newest(rows), <<y, z>> \in Newest(rows)
        PROVE  <<x, z>> \in Newest(rows)
    <3>1. x.created \in Nat /\ y.created \in Nat /\ z.created \in Nat
      BY <1>3
    <3>2. y.created < x.created /\ z.created < y.created
      BY <1>5, <2>3
    <3>3. z.created < x.created
      BY <3>1, <3>2
    <3> QED BY <1>5, <3>3
  <2> QED BY <2>1, <2>2, <2>3 DEF IsOrder
<1> QED BY <1>2, <1>6, <1>7

\* The indices of a list in the order of a stable sort by time.
Sooner(seq) ==
  {p \in (DOMAIN seq) \X (DOMAIN seq) :
     \/ seq[p[1]].created < seq[p[2]].created
     \/ ~(seq[p[2]].created < seq[p[1]].created) /\ p[1] < p[2]}
Latest(seq) ==
  {p \in (DOMAIN seq) \X (DOMAIN seq) :
     \/ seq[p[2]].created < seq[p[1]].created
     \/ ~(seq[p[1]].created < seq[p[2]].created) /\ p[1] < p[2]}
Placed(seq, order) == [n \in DOMAIN seq |-> seq[InOrder(DOMAIN seq, order)[n]]]

LEMMA ListForRunOrders ==
  ASSUME NEW run
  PROVE  /\ Mem!ListForRun(mem, run) = Placed(Mem!EventsOf(mem, run), Sooner(Mem!EventsOf(mem, run)))
         /\ Lite!ListForRun(lite, run)
              = InOrder({e \in Recorded : e.run = run},
                        {p \in Trail(run) \X Trail(run) : Lite!TextBefore(p[1].created, p[2].created)})
         /\ pg["audit"] = lite["audit"]
              => Pg!ListForRun(pg, run) = InOrder(Trail(run), Oldest(Trail(run)))
<1>1. Mem!ListForRun(mem, run) = Placed(Mem!EventsOf(mem, run), Sooner(Mem!EventsOf(mem, run)))
  <2> DEFINE seq == Mem!EventsOf(mem, run)
  <2>1. Mem!ListForRun(mem, run)
          = [n \in DOMAIN seq |-> seq[Mem!InOrder(DOMAIN seq,
               {p \in (DOMAIN seq) \X (DOMAIN seq) :
                  \/ seq[p[1]].created < seq[p[2]].created
                  \/ ~(seq[p[2]].created < seq[p[1]].created) /\ p[1] < p[2]})[n]]]
    BY DEF Mem!ListForRun, Mem!Sorted, Mem!Ordered, Mem!Earlier
  <2> HIDE DEF seq
  <2>2. Mem!ListForRun(mem, run) = [n \in DOMAIN seq |-> seq[Mem!InOrder(DOMAIN seq, Sooner(seq))[n]]]
    BY <2>1 DEF Sooner
  <2>3. Mem!ListForRun(mem, run) = Placed(seq, Sooner(seq))
    BY <2>2, SameInOrder DEF Placed
  <2> QED BY <2>3 DEF seq
<1>2. Lite!ListForRun(lite, run)
              = InOrder({e \in Recorded : e.run = run},
                        {p \in Trail(run) \X Trail(run) : Lite!TextBefore(p[1].created, p[2].created)})
  BY SameInOrder DEF Lite!ListForRun, Lite!Events, Lite!Ordered, Trail, Recorded
<1>3. ASSUME pg["audit"] = lite["audit"]
      PROVE  Pg!ListForRun(pg, run) = InOrder(Trail(run), Oldest(Trail(run)))
  <2> DEFINE rows == {e \in {pg["audit"][k] : k \in DOMAIN pg["audit"]} : e.run = run}
  <2>1. Pg!ListForRun(pg, run)
          = Pg!InOrder(rows, {p \in rows \X rows : p[1].created < p[2].created})
    BY DEF Pg!ListForRun, Pg!CollectAudit, Pg!Ordered, Pg!Earlier
  <2>2. rows = Trail(run)
    BY <1>3 DEF Trail, Recorded
  <2> HIDE DEF rows
  <2> QED BY <2>1, <2>2, SameInOrder DEF Oldest
<1> QED BY <1>1, <1>2, <1>3

\* What a query takes.
Found(q) ==
  {e \in Recorded :
     /\ q.run # None => e.run = q.run
     /\ q.kind # None => e.kind = q.kind
     /\ q.since # None => ~(e.created < q.since)
     /\ q.until # None => ~(q.until < e.created)}
FoundText(q) ==
  {e \in Recorded :
     /\ q.run # None => e.run = q.run
     /\ q.kind # None => e.kind = q.kind
     /\ q.since # None => ~Lite!TextBefore(e.created, q.since)
     /\ q.until # None => ~Lite!TextAfter(e.created, q.until)}

LEMMA SearchOrders ==
  ASSUME AuditInv, NEW q \in Queries
  PROVE  /\ Mem!Search(mem, q) = Limited(InOrder(Found(q), Newest(Found(q))), q.limit)
         /\ Pg!Search(pg, q) = Limited(InOrder(Found(q), Newest(Found(q))), q.limit)
         /\ LET seq == Limited(InOrder(FoundText(q), NewestText(FoundText(q))), q.limit)
            IN  Lite!Search(lite, q) = Placed(seq, Latest(seq))
<1>1. UNION {Mem!ToSet(mem["events"][r]) : r \in DOMAIN mem["events"]} = Recorded
  <2>1. ASSUME NEW r \in DOMAIN mem["events"] PROVE Mem!ToSet(mem["events"][r]) = Trail(r)
    <3>1. r \in Ids /\ Mem!EventsOf(mem, r) = mem["events"][r]
      BY DEF AuditInv, Mem!EventsOf
    <3>2. PICK n \in Nat : Holds(mem["events"][r], n, Trail(r))
      BY <3>1 DEF AuditInv
    <3> QED BY <3>2 DEF Holds, Mem!ToSet
  <2>2. ASSUME NEW e \in Recorded PROVE e.run \in DOMAIN mem["events"] /\ e \in Trail(e.run)
    <3>1. e.run \in Ids /\ e \in Trail(e.run)
      BY DEF Recorded, AuditInv, Trail
    <3>2. CASE e.run \notin DOMAIN mem["events"]
      <4>1. Mem!EventsOf(mem, e.run) = <<>>
        BY <3>2 DEF Mem!EventsOf
      <4>2. PICK n \in Nat : Holds(<<>>, n, Trail(e.run))
        BY <3>1, <4>1 DEF AuditInv
      <4> QED BY <3>1, <4>2 DEF Holds
    <3> QED BY <3>1, <3>2
  <2>3. \A r : Trail(r) \subseteq Recorded
    BY DEF Trail
  <2> QED BY <2>1, <2>2, <2>3
<1>2. Mem!Search(mem, q) = Limited(InOrder(Found(q), Newest(Found(q))), q.limit)
  <2> DEFINE all == UNION {Mem!ToSet(mem["events"][r]) : r \in DOMAIN mem["events"]}
             rows == {e \in all :
                        /\ q.run # None => e.run = q.run
                        /\ q.kind # None => e.kind = q.kind
                        /\ q.since # None => ~(e.created < q.since)
                        /\ q.until # None => ~(q.until < e.created)}
  <2>1. Mem!Search(mem, q)
          = Mem!Limited(Mem!InOrder(rows, {p \in rows \X rows : p[2].created < p[1].created}), q.limit)
    BY DEF Mem!Search, Mem!Ordered, Mem!Earlier, Mem!Later
  <2>2. rows = Found(q)
    <3> HIDE DEF all
    <3>1. all = Recorded
      BY <1>1 DEF all
    <3> QED BY <3>1 DEF Found
  <2> HIDE DEF rows
  <2>3. Mem!Search(mem, q) = Mem!Limited(Mem!InOrder(Found(q), Newest(Found(q))), q.limit)
    BY <2>1, <2>2 DEF Newest
  <2> QED BY <2>3, SameInOrder, SameLimited
<1>3. {e \in Recorded :
         /\ q.run # None => e.run = q.run
         /\ q.kind # None => e.kind = q.kind
         /\ q.since # None => e.created >= q.since
         /\ q.until # None => e.created <= q.until} = Found(q)
  <2>1. \A e \in Recorded : e.created \in Nat
    BY DEF AuditInv, Recorded
  <2> QED BY <2>1, QueriesAssumption DEF Found
<1>4. Pg!Search(pg, q) = Limited(InOrder(Found(q), Newest(Found(q))), q.limit)
  <2> DEFINE rows == {e \in {pg["audit"][k] : k \in DOMAIN pg["audit"]} :
                        /\ q.run # None => e.run = q.run
                        /\ q.kind # None => e.kind = q.kind
                        /\ q.since # None => e.created >= q.since
                        /\ q.until # None => e.created <= q.until}
  <2>1. Pg!Search(pg, q)
          = Pg!Limited(Pg!InOrder(rows, {p \in rows \X rows : p[2].created < p[1].created}), q.limit)
    BY DEF Pg!Search, Pg!CollectAudit, Pg!Ordered, Pg!Later
  <2>2. rows = Found(q)
    <3>1. {pg["audit"][k] : k \in DOMAIN pg["audit"]} = Recorded
      BY DEF Recorded, AuditInv
    <3> QED BY <1>3, <3>1
  <2> HIDE DEF rows
  <2>3. Pg!Search(pg, q) = Pg!Limited(Pg!InOrder(Found(q), Newest(Found(q))), q.limit)
    BY <2>1, <2>2 DEF Newest
  <2> QED BY <2>3, SameInOrder, SameLimited
<1>5. LET seq == Limited(InOrder(FoundText(q), NewestText(FoundText(q))), q.limit)
      IN  Lite!Search(lite, q) = Placed(seq, Latest(seq))
  <2> DEFINE rows == {e \in {lite["audit"][k] : k \in DOMAIN lite["audit"]} :
                        /\ q.run # None => e.run = q.run
                        /\ q.kind # None => e.kind = q.kind
                        /\ q.since # None => ~Lite!TextBefore(e.created, q.since)
                        /\ q.until # None => ~Lite!TextAfter(e.created, q.until)}
             found == Lite!InOrder(rows, {p \in rows \X rows : Lite!TextAfter(p[1].created, p[2].created)})
             seq == Lite!Limited(found, q.limit)
  <2>1. Lite!Search(lite, q)
          = [n \in DOMAIN seq |-> seq[Lite!InOrder(DOMAIN seq,
               {p \in (DOMAIN seq) \X (DOMAIN seq) :
                  \/ seq[p[2]].created < seq[p[1]].created
                  \/ ~(seq[p[1]].created < seq[p[2]].created) /\ p[1] < p[2]})[n]]]
    BY DEF Lite!Search, Lite!Events, Lite!Sorted, Lite!Ordered, Lite!Later
  <2>2. rows = FoundText(q)
    BY DEF FoundText, Recorded
  <2> HIDE DEF rows
  <2>3. seq = Limited(InOrder(FoundText(q), NewestText(FoundText(q))), q.limit)
    BY <2>2, SameInOrder, SameLimited DEF NewestText
  <2> HIDE DEF seq
  <2>4. Lite!Search(lite, q) = [n \in DOMAIN seq |-> seq[Lite!InOrder(DOMAIN seq, Latest(seq))[n]]]
    BY <2>1 DEF Latest
  <2>5. Lite!Search(lite, q) = Placed(seq, Latest(seq))
    BY <2>4, SameInOrder DEF Placed
  <2> QED BY <2>3, <2>5
<1> QED BY <1>2, <1>4, <1>5

LEMMA PlacedOnce ==
  ASSUME NEW seq, NEW n, NEW S, Holds(seq, n, S), NEW R, IsOrder(R, S),
         NEW Q, \A i, j \in 1..n : <<i, j>> \in Q <=> <<seq[i], seq[j]>> \in R
  PROVE  Placed(seq, Q) = InOrder(S, R)
<1>1. n \in Nat /\ seq \in [1..n -> S]
  BY DEF Holds
<1>2. [k \in 1..n |-> seq[InOrder(1..n, Q)[k]]] = InOrder(S, R)
  BY <1>1, SortedLists DEF Holds
<1> QED BY <1>1, <1>2 DEF Placed

LEMMA ListsHolds ==
  ASSUME NEW s, NEW n, NEW R, NEW S, IsOrder(R, S), Lists(s, n, R, S)
  PROVE  Holds(s, n, S)
<1> USE DEF Lists, Holds
<1>1. n \in Nat /\ s \in [1..n -> S]
  OBVIOUS
<1>2. ASSUME NEW i \in 1..n, NEW j \in 1..n, s[i] = s[j] PROVE i = j
  <2>1. s[i] \in S /\ ~(<<s[i], s[i]>> \in R)
    BY <1>1 DEF IsOrder
  <2>2. ~(i < j) /\ ~(j < i)
    BY <1>2, <2>1
  <2> QED BY <1>1, <2>2
<1> QED BY <1>1, <1>2

LEMMA Prefix ==
  ASSUME NEW s, NEW n \in Nat \ {0}, NEW T, \A i \in 1..n : s[i] \in T
  PROVE  SubSeq(s, 1, n) \in [1..n -> T] /\ \A i \in 1..n : SubSeq(s, 1, n)[i] = s[i]
<1> DEFINE t == SubSeq(s, 1, n)
<1>1. 1 \in Int /\ n \in Int /\ 1 <= n /\ n - 1 + 1 = n /\ \A i \in 1..n : 1 + i - 1 = i
  OBVIOUS
<1>2. t \in Seq(T) /\ Len(t) = n - 1 + 1 /\ \A i \in 1..n - 1 + 1 : t[i] = s[1 + i - 1]
  BY <1>1, SubSeqProperties
<1> HIDE DEF t
<1>3. Len(t) = n /\ \A i \in 1..n : t[i] = s[i]
  BY <1>1, <1>2
<1>4. t \in [1..n -> T]
  BY <1>2, <1>3
<1> QED BY <1>3, <1>4 DEF t

\* What a limit leaves of a list is a list.
LEMMA LimitedLists ==
  ASSUME NEW s, NEW n, NEW R, NEW S, Lists(s, n, R, S), NEW limit \in Nat
  PROVE  \E m, T : T \subseteq S /\ Lists(Limited(s, limit), m, R, T)
<1> USE DEF Lists
<1>1. n \in Nat /\ s \in [1..n -> S] /\ Len(s) = n
  OBVIOUS
<1>2. CASE limit > 0 /\ n > limit
  <2> DEFINE t == SubSeq(s, 1, limit)
             T == {s[i] : i \in 1..limit}
  <2>1. Limited(s, limit) = t
    BY <1>1, <1>2 DEF Limited
  <2>2. \A i \in 1..limit : i \in 1..n /\ s[i] \in T
    BY <1>1, <1>2
  <2>3. t \in [1..limit -> T] /\ \A i \in 1..limit : t[i] = s[i]
    <3>1. limit \in Nat \ {0} /\ \A i \in 1..limit : s[i] \in T
      BY <1>2, <2>2
    <3> HIDE DEF T, Lists
    <3> QED BY <3>1, Prefix
  <2> HIDE DEF t
  <2>5. \A x \in T : \E i \in 1..limit : t[i] = x
    BY <2>3
  <2>6. \A i, j \in 1..limit : i < j => <<t[i], t[j]>> \in R
    BY <2>2, <2>3
  <2>7. Lists(t, limit, R, T)
    BY <2>3, <2>5, <2>6
  <2>8. T \subseteq S
    BY <1>1, <2>2
  <2> HIDE DEF T, Lists
  <2> QED BY <2>1, <2>7, <2>8
<1>3. CASE ~(limit > 0 /\ n > limit)
  BY <1>1, <1>3 DEF Limited
<1> QED BY <1>2, <1>3

\* A list in order is not moved by sorting it once more.
LEMMA LatestStays ==
  ASSUME NEW s, NEW n, NEW rows, Lists(s, n, Newest(rows), rows), IsOrder(Newest(rows), rows),
         \A e \in rows : e.created \in Nat
  PROVE  Placed(s, Latest(s)) = s
<1>1. n \in Nat /\ s \in [1..n -> rows] /\ DOMAIN s = 1..n
  BY DEF Lists
<1>2. ASSUME NEW i \in 1..n, NEW j \in 1..n
      PROVE  <<i, j>> \in Latest(s) <=> <<s[i], s[j]>> \in Newest(rows)
  <2>1. s[i] \in rows /\ s[j] \in rows /\ s[i].created \in Nat /\ s[j].created \in Nat
    BY <1>1
  <2>2. <<i, j>> \in Latest(s) 
           <=> (s[j].created < s[i].created \/ (~(s[i].created < s[j].created) /\ i < j))
    BY <1>1 DEF Latest
  <2>3. <<s[i], s[j]>> \in Newest(rows) <=> s[j].created < s[i].created
    BY <2>1 DEF Newest
  <2>4. i < j => <<s[i], s[j]>> \in Newest(rows)
    BY DEF Lists
  <2> QED BY <2>1, <2>2, <2>3, <2>4
<1>3. Placed(s, Latest(s)) = InOrder(rows, Newest(rows))
  BY <1>2, ListsHolds, PlacedOnce
<1> QED BY <1>3, ListedOnce

LEMMA TrailRead ==
  ASSUME AuditInv, NEW run \in Ids
  PROVE  LET trail == Mem!ListForRun(mem, run)
         IN  /\ \A i, j \in DOMAIN trail : i < j => trail[i].created < trail[j].created
             /\ Pg!ListForRun(pg, run) = trail
             /\ TextFaithful({e.created : e \in Recorded}) => Lite!ListForRun(lite, run) = trail
<1> DEFINE rows == Trail(run)
           seq == Mem!EventsOf(mem, run)
           trail == Mem!ListForRun(mem, run)
<1>1. PICK n \in Nat : Holds(seq, n, rows)
  BY DEF AuditInv
<1>2. IsFiniteSet(rows) /\ IsOrder(Oldest(rows), rows)
  <2>1. rows \subseteq Recorded
    BY DEF Trail
  <2> QED BY <2>1, CreatedOrders
<1>3. \A e \in rows : e.created \in Nat /\ e.created \in {x.created : x \in Recorded}
  BY DEF Trail, Recorded, AuditInv
<1>4. trail = Placed(seq, Sooner(seq)) /\ Pg!ListForRun(pg, run) = InOrder(rows, Oldest(rows))
      /\ Lite!ListForRun(lite, run)
           = InOrder(rows, {p \in rows \X rows : Lite!TextBefore(p[1].created, p[2].created)})
  BY ListForRunOrders DEF AuditInv, Trail
<1> HIDE DEF rows, seq, trail
<1>5. ASSUME NEW i \in 1..n, NEW j \in 1..n
      PROVE  <<i, j>> \in Sooner(seq) <=> <<seq[i], seq[j]>> \in Oldest(rows)
  <2>1. seq \in [1..n -> rows] /\ DOMAIN seq = 1..n
    BY <1>1 DEF Holds
  <2>2. seq[i] \in rows /\ seq[j] \in rows /\ seq[i].created \in Nat /\ seq[j].created \in Nat
    BY <1>3, <2>1
  <2>3. <<i, j>> \in Sooner(seq) 
           <=> (seq[i].created < seq[j].created \/ (~(seq[j].created < seq[i].created) /\ i < j))
    BY <2>1 DEF Sooner
  <2>4. <<seq[i], seq[j]>> \in Oldest(rows) <=> seq[i].created < seq[j].created
    BY <2>2 DEF Oldest
  <2>5. ASSUME ~(seq[i].created < seq[j].created), ~(seq[j].created < seq[i].created) PROVE i = j
    <3>1. ~(<<seq[i], seq[j]>> \in Oldest(rows)) /\ ~(<<seq[j], seq[i]>> \in Oldest(rows))
      BY <2>2, <2>5 DEF Oldest
    <3>2. seq[i] = seq[j]
      BY <1>2, <2>2, <3>1 DEF IsOrder
    <3> QED BY <1>1, <3>2 DEF Holds
  <2> QED BY <2>2, <2>3, <2>4, <2>5
<1>6. trail = InOrder(rows, Oldest(rows))
  BY <1>1, <1>2, <1>4, <1>5, PlacedOnce
<1>7. Lists(trail, Cardinality(rows), Oldest(rows), rows)
  BY <1>2, <1>6, InOrderLists
<1>8. ASSUME NEW i \in DOMAIN trail, NEW j \in DOMAIN trail, i < j
      PROVE  trail[i].created < trail[j].created
  BY <1>7, <1>8 DEF Lists, Oldest
<1>9. ASSUME TextFaithful({e.created : e \in Recorded}) PROVE Lite!ListForRun(lite, run) = trail
  <2>1. \A e, f \in rows : Lite!TextBefore(e.created, f.created) <=> e.created < f.created
    BY <1>3, <1>9 DEF TextFaithful
  <2>2. {p \in rows \X rows : Lite!TextBefore(p[1].created, p[2].created)} = Oldest(rows)
    BY <2>1 DEF Oldest
  <2> QED BY <1>4, <1>6, <2>2
<1> QED BY <1>4, <1>6, <1>8, <1>9 DEF trail

LEMMA SearchRead ==
  ASSUME AuditInv, NEW q \in Queries
  PROVE  /\ Pg!Search(pg, q) = Mem!Search(mem, q)
         /\ TextFaithful({e.created : e \in Recorded} \cup ({q.since, q.until} \ {None}))
              => Lite!Search(lite, q) = Mem!Search(mem, q)
<1>1. Pg!Search(pg, q) = Mem!Search(mem, q)
  BY SearchOrders
<1>2. ASSUME TextFaithful({e.created : e \in Recorded} \cup ({q.since, q.until} \ {None}))
      PROVE  Lite!Search(lite, q) = Mem!Search(mem, q)
  <2> DEFINE rows == Found(q)
             times == {e.created : e \in Recorded} \cup ({q.since, q.until} \ {None})
             found == InOrder(rows, Newest(rows))
             s == Limited(found, q.limit)
  <2>1. /\ \A e \in Recorded : e.created \in Nat /\ e.created \in times
        /\ q.since # None => q.since \in times
        /\ q.until # None => q.until \in times
    BY DEF Recorded, AuditInv
  <2>2. \A t, u \in times : (Lite!TextBefore(t, u) <=> t < u) /\ (Lite!TextAfter(t, u) <=> u < t)
    BY <1>2 DEF TextFaithful, Lite!TextAfter
  <2> HIDE DEF times
  <2>3. FoundText(q) = rows
    BY <2>1, <2>2 DEF FoundText, Found
  <2>4. rows \subseteq Recorded
    BY DEF Found
  <2> HIDE DEF rows
  <2>5. NewestText(rows) = Newest(rows)
    BY <2>1, <2>2, <2>4 DEF NewestText, Newest
  <2>6. IsFiniteSet(rows) /\ IsOrder(Newest(rows), rows)
    BY <2>4, CreatedOrders
  <2>7. Lists(found, Cardinality(rows), Newest(rows), rows)
    BY <2>6, InOrderLists
  <2> HIDE DEF found
  <2>8. PICK m, T : T \subseteq rows /\ Lists(s, m, Newest(rows), T)
    BY <2>7, LimitedLists, QueriesAssumption
  <2> HIDE DEF s
  <2>9. Lists(s, m, Newest(T), T) /\ IsOrder(Newest(T), T) /\ \A e \in T : e.created \in Nat
    <3>1. T \subseteq Recorded
      BY <2>4, <2>8
    <3>2. \A x, y \in T : <<x, y>> \in Newest(rows) <=> <<x, y>> \in Newest(T)
      BY <2>8 DEF Newest
    <3>3. Lists(s, m, Newest(T), T)
      BY <2>8, <3>2 DEF Lists
    <3> QED BY <2>1, <3>1, <3>3, CreatedOrders
  <2>10. Placed(s, Latest(s)) = s
    BY <2>9, LatestStays
  <2>11. Lite!Search(lite, q) = Placed(s, Latest(s)) /\ Mem!Search(mem, q) = s
    <3>1. LET seq == Limited(InOrder(FoundText(q), NewestText(FoundText(q))), q.limit)
          IN  Lite!Search(lite, q) = Placed(seq, Latest(seq))
      BY SearchOrders
    <3>2. Mem!Search(mem, q) = Limited(InOrder(Found(q), Newest(Found(q))), q.limit)
      BY SearchOrders
    <3> QED BY <2>3, <2>5, <3>1, <3>2 DEF s, found, rows
  <2> QED BY <2>10, <2>11
<1> QED BY <1>1, <1>2

\* However events arrive, a run's trail reads in the order of their times and a
\* search answers alike on every backend, SQLite's as long as the text of the
\* times and of the bounds orders them (AuditRepo of the three stores).
THEOREM TrailsAgreeAlways == Spec => []TrailsAgree
<1>1. Init => AuditInv
  <2> SUFFICES ASSUME Init PROVE AuditInv
    OBVIOUS
  <2>1. mem["events"] = <<>> /\ lite["audit"] = <<>> /\ pg["audit"] = <<>>
    BY DEF Init, Mem!New, Lite!Empty, Pg!Empty
  <2>2. Tables
    BY TablesInit
  <2>3. Recorded = {}
    BY <2>1 DEF Recorded
  <2>4. ASSUME NEW run PROVE Holds(Mem!EventsOf(mem, run), 0, Trail(run))
    <3>1. Mem!EventsOf(mem, run) = <<>> /\ Trail(run) = {}
      BY <2>1, <2>3 DEF Mem!EventsOf, Trail
    <3> QED BY <3>1 DEF Holds
  <2>5. IsFiniteSet(Recorded)
    BY <2>3, FS_EmptySet
  <2> QED BY <2>1, <2>2, <2>4, <2>5 DEF AuditInv
<1>2. AuditInv /\ [Next]_vars => AuditInv'
  <2> SUFFICES ASSUME AuditInv, [Next]_vars PROVE AuditInv'
    OBVIOUS
  <2>1. Tables
    BY DEF AuditInv
  <2> QED BY <2>1, StepTouches, AuditStays, LogKeeps
<1>3. AuditInv => TrailsAgree
  <2> SUFFICES ASSUME AuditInv PROVE TrailsAgree
    OBVIOUS
  <2>1. {e.created : e \in Lite!Events(lite)} = {e.created : e \in Recorded}
    BY DEF Lite!Events, Recorded
  <2> QED BY <2>1, TrailRead, SearchRead DEF TrailsAgree
<1> QED BY <1>1, <1>2, <1>3, PTL DEF Spec
=============================================================================
