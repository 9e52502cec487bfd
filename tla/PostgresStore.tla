--------------------------- MODULE PostgresStore ----------------------------
(***************************************************************************)
(* internal/store/postgres.  As in SQLite a run's steps are rows of their  *)
(* own; times are timestamptz, so the database compares times, and an      *)
(* empty optional text is stored as NULL.                                  *)
(***************************************************************************)
EXTENDS StoreData

Empty == [runs |-> <<>>, steps |-> <<>>, sessions |-> <<>>, types |-> <<>>,
          audit |-> <<>>, approvals |-> <<>>]

NULL == "NULL"
\* nullString, and what the scan of such a column makes of it.
NullString(text) == IF text = "" THEN NULL ELSE text
StringOf(column) == IF column = NULL THEN "" ELSE column
\* encodeJSON, decodeJSON of a pointer: nil is the JSON null.
EncodeJSON(v) == IF v = None THEN "null" ELSE v
DecodeJSON(raw) == IF raw \in {"null", ""} THEN None ELSE raw

InsertStepOnce(steps, run, step) ==   \* mutant
  LET id == <<run, step.iteration, step.stage>>
  IN  IF id \in DOMAIN steps THEN steps
      ELSE Put(steps, id, [step EXCEPT !.ref = NullString(@), !.err = EncodeJSON(@)])
\* insertStep: a conflicting row keeps its layer_ref and its started_at.
InsertStep(steps, run, step) ==
  LET id == <<run, step.iteration, step.stage>>
  IN  Put(steps, id,
        IF id \in DOMAIN steps
          THEN [steps[id] EXCEPT !.out = step.out, !.completed = step.completed,
                                 !.err = EncodeJSON(step.err)]
          ELSE [step EXCEPT !.ref = NullString(@), !.err = EncodeJSON(@)])

RowsOf(steps, run) == {id \in DOMAIN steps : id[1] = run}

\* One transaction: upsert all but started_at, delete the steps, insert them.
Save(db, run) ==
  LET row == [run EXCEPT !.err = EncodeJSON(@), !.pending = EncodeJSON(@), !.steps = <<>>,
                !.started = IF run.id \in DOMAIN db.runs THEN db.runs[run.id].started ELSE @]
  IN  IF Validate(run)
        THEN [db EXCEPT !.runs = Put(db.runs, run.id, row),
                        !.steps = FoldLeft(LAMBDA t, s : InsertStep(t, run.id, s),
                                           Without(db.steps, RowsOf(db.steps, run.id)), run.steps)]
        ELSE db

ScanRun(row) == [row EXCEPT !.err = DecodeJSON(@), !.pending = DecodeJSON(@)]
LoadProvenance(db, run) ==
  Ordered({[db.steps[id] EXCEPT !.ref = StringOf(@), !.err = DecodeJSON(@)] :
             id \in RowsOf(db.steps, run)},
          LAMBDA a, b : \/ a.iteration < b.iteration
                        \/ a.iteration = b.iteration /\ Earlier(a.started, b.started))
\* Two queries, outside any transaction.
Get(db, id) ==
  IF id \in DOMAIN db.runs
    THEN [ScanRun(db.runs[id]) EXCEPT !.steps = LoadProvenance(db, id)] ELSE None

UpdateStatus(db, id, status, now) ==
  IF id \in DOMAIN db.runs
    THEN [db EXCEPT !.runs[id].status = status, !.runs[id].updated = now] ELSE db

AppendProvenance(db, id, step) ==
  IF id \in DOMAIN db.runs
    THEN [db EXCEPT !.steps = InsertStep(db.steps, id, step), !.runs[id].updated = step.completed]
    ELSE db

SameTenant(row, filter) ==
  "tenant" \in DOMAIN filter /\ ~IsZero(filter.tenant) => row.tenant = filter.tenant

List(db, filter, limit) ==
  LET rows == {ScanRun(db.runs[id]) : id \in DOMAIN db.runs}
  IN  Limited(Ordered({r \in rows : MatchesFields(r, filter) /\ SameTenant(r, filter)},
                      LAMBDA a, b : Later(a.started, b.started)), limit)

UpsertWholeSession(db, s) == [db EXCEPT !.sessions = Put(db.sessions, s.id, s)]   \* mutant
UpsertSession(db, s) ==
  LET kept == IF s.id \in DOMAIN db.sessions THEN db.sessions[s.id].created ELSE s.created
  IN  [db EXCEPT !.sessions = Put(db.sessions, s.id, [s EXCEPT !.created = kept])]
GetSession(db, id) == Lookup(db.sessions, id)
ListSessions(db, filter, limit) ==
  LET rows == {db.sessions[id] : id \in DOMAIN db.sessions}
  IN  Limited(Ordered({s \in rows : MatchesFields(s, filter) /\ SameTenant(s, filter)},
                      LAMBDA a, b : Later(a.created, b.created)), limit)

Register(db, t) ==
  [db EXCEPT !.types = Put(db.types, t.name,
     [t EXCEPT !.description = NullString(@), !.schema = ThroughJSON(@)])]
TypeOf(row) == [row EXCEPT !.description = StringOf(@)]
GetType(db, name) == IF name \in DOMAIN db.types THEN TypeOf(db.types[name]) ELSE None
ListTypes(db) ==
  Ordered({TypeOf(db.types[n]) : n \in DOMAIN db.types}, LAMBDA a, b : NameBefore(a.name, b.name))

AppendAudit(db, e) ==
  IF e.run = None \/ e.id \in DOMAIN db.audit THEN db ELSE [db EXCEPT !.audit = Put(db.audit, e.id, e)]
CollectAudit(db) == {db.audit[id] : id \in DOMAIN db.audit}
ListForRun(db, run) ==
  Ordered({e \in CollectAudit(db) : e.run = run}, LAMBDA a, b : Earlier(a.created, b.created))
Search(db, q) ==
  Limited(Ordered({e \in CollectAudit(db) :
                     /\ q.run # None => e.run = q.run
                     /\ q.kind # None => e.kind = q.kind
                     /\ q.since # None => e.created >= q.since
                     /\ q.until # None => e.created <= q.until},
                  LAMBDA a, b : Later(a.created, b.created)), q.limit)

Unresolved(db, run) == run \in DOMAIN db.approvals /\ db.approvals[run].resolved = None
Pending(db, run) ==
  IF Unresolved(db, run)
    THEN [db.approvals[run].req EXCEPT !.reason = StringOf(@)] ELSE None
Raise(db, run, req) ==
  IF run = None THEN db
  ELSE [db EXCEPT !.approvals = Put(db.approvals, run,
          [req |-> [req EXCEPT !.reason = NullString(@)], resolved |-> None])]
Resolve(db, run, decision) ==
  IF Unresolved(db, run) THEN [db EXCEPT !.approvals[run].resolved = decision] ELSE db
=============================================================================
