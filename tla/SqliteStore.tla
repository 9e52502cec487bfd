---------------------------- MODULE SqliteStore -----------------------------
(***************************************************************************)
(* internal/store/sqlite.  A run's steps are rows of their own, keyed by   *)
(* run, iteration and stage.  Times are stored as RFC 3339 text and the    *)
(* database compares the text: within one second ".5Z" sorts before "Z",   *)
(* as '.' is smaller than 'Z'.                                             *)
(***************************************************************************)
EXTENDS StoreData

Empty == [runs |-> <<>>, steps |-> <<>>, sessions |-> <<>>, types |-> <<>>,
          audit |-> <<>>, approvals |-> <<>>]

\* tsLayout: how the text of two times compares.
TextBefore(a, b) ==
  \/ a \div 2 < b \div 2
  \/ a \div 2 = b \div 2 /\ a % 2 > b % 2
TextAfter(a, b) == TextBefore(b, a)

\* encodeJSON, decodeJSON: a nil pointer becomes the text "null"; what is
\* read back without its code or id becomes a nil pointer again.
Null == "null"
EncodeJSON(v) == IF v = None THEN Null ELSE v
DecodeJSON(text) == IF text \in {Null, ""} THEN None ELSE text

InsertStepOfStage(steps, run, step) ==   \* mutant
  Put(steps, <<run, 0, step.stage>>, [step EXCEPT !.err = EncodeJSON(@)])
\* insertStep: a conflicting row keeps its layer_ref and its started_at.
InsertStep(steps, run, step) ==
  LET id == <<run, step.iteration, step.stage>>
      row == [step EXCEPT !.err = EncodeJSON(@)]
  IN  IF id \in DOMAIN steps
        THEN [steps EXCEPT ![id] = [@ EXCEPT !.out = row.out, !.err = row.err,
                                             !.completed = row.completed]]
        ELSE Put(steps, id, row)

StepsOf(steps, run) == {id \in DOMAIN steps : id[1] = run}

\* The columns of a run; its steps live in their own table.
RunRow(run) ==
  [run EXCEPT !.err = EncodeJSON(@), !.pending = EncodeJSON(@), !.steps = <<>>]
\* insert ... on conflict(id) do update: every column but started_at.
UpsertRun(runs, row) ==
  Put(runs, row.id, IF row.id \in DOMAIN runs
                      THEN [row EXCEPT !.started = runs[row.id].started] ELSE row)

\* One transaction: upsert the run, delete its steps, insert them one by one.
Save(db, run) ==
  IF Validate(run)
    THEN [db EXCEPT !.runs = UpsertRun(db.runs, RunRow(run)),
                    !.steps = FoldLeft(LAMBDA t, s : InsertStep(t, run.id, s),
                                       Without(db.steps, StepsOf(db.steps, run.id)), run.steps)]
    ELSE db

ScanRun(row) == [row EXCEPT !.err = DecodeJSON(@), !.pending = DecodeJSON(@)]
LoadProvenance(db, run) ==
  Ordered({[db.steps[id] EXCEPT !.err = DecodeJSON(@)] : id \in StepsOf(db.steps, run)},
          LAMBDA a, b : \/ a.iteration < b.iteration
                        \/ a.iteration = b.iteration /\ TextBefore(a.started, b.started))
\* Get asks twice: for the row, then for the steps.
SelectRun(db, id) == IF id \in DOMAIN db.runs THEN ScanRun(db.runs[id]) ELSE None
Get(db, id) ==
  IF id \in DOMAIN db.runs
    THEN [SelectRun(db, id) EXCEPT !.steps = LoadProvenance(db, id)] ELSE None

UpdateStatus(db, id, status, now) ==
  IF id \in DOMAIN db.runs
    THEN [db EXCEPT !.runs[id].status = status, !.runs[id].updated = now] ELSE db

AppendProvenance(db, id, step) ==
  IF id \in DOMAIN db.runs
    THEN [db EXCEPT !.steps = InsertStep(db.steps, id, step), !.runs[id].updated = step.completed]
    ELSE db

MatchesTenant(row, filter) ==
  "tenant" \in DOMAIN filter /\ ~IsZero(filter.tenant) => row.tenant = filter.tenant

\* List reads the runs table only.
List(db, filter, limit) ==
  Limited(Ordered({r \in {ScanRun(db.runs[id]) : id \in DOMAIN db.runs} :
                     MatchesFields(r, filter) /\ MatchesTenant(r, filter)},
                  LAMBDA a, b : TextAfter(a.started, b.started)), limit)

\* on conflict(id) do update: every column but created_at.
UpsertSession(db, s) ==
  [db EXCEPT !.sessions = Put(db.sessions, s.id,
     IF s.id \in DOMAIN db.sessions THEN [s EXCEPT !.created = db.sessions[s.id].created] ELSE s)]
GetSession(db, id) == Lookup(db.sessions, id)
ListSessions(db, filter, limit) ==
  Limited(Ordered({s \in {db.sessions[id] : id \in DOMAIN db.sessions} :
                     MatchesFields(s, filter) /\ MatchesTenant(s, filter)},
                  LAMBDA a, b : TextAfter(a.created, b.created)), limit)

RegisterOnce(db, t) ==   \* mutant
  IF t.name \in DOMAIN db.types THEN db
  ELSE [db EXCEPT !.types = Put(db.types, t.name, [t EXCEPT !.schema = ThroughJSON(@)])]
\* The schema is stored as the text of its JSON.
Register(db, t) ==
  [db EXCEPT !.types = Put(db.types, t.name, [t EXCEPT !.schema = ThroughJSON(@)])]
GetType(db, name) == Lookup(db.types, name)
ListTypes(db) ==
  Ordered({db.types[n] : n \in DOMAIN db.types}, LAMBDA a, b : NameBefore(a.name, b.name))

\* on conflict(id) do nothing.
AppendAudit(db, e) ==
  IF e.run = None \/ e.id \in DOMAIN db.audit THEN db ELSE [db EXCEPT !.audit = Put(db.audit, e.id, e)]
Events(db) == {db.audit[id] : id \in DOMAIN db.audit}
ListForRun(db, run) ==
  Ordered({e \in Events(db) : e.run = run}, LAMBDA a, b : TextBefore(a.created, b.created))
\* where, order by and limit work on the text; the rows are then sorted by time.
Search(db, q) ==
  LET found == Ordered({e \in Events(db) :
                          /\ q.run # None => e.run = q.run
                          /\ q.kind # None => e.kind = q.kind
                          /\ q.since # None => ~TextBefore(e.created, q.since)
                          /\ q.until # None => ~TextAfter(e.created, q.until)},
                       LAMBDA a, b : TextAfter(a.created, b.created))
  IN  Sorted(Limited(found, q.limit), LAMBDA a, b : Later(a.created, b.created))

\* A row of approvals is a request with the columns of its resolution.
Unresolved(db, run) == run \in DOMAIN db.approvals /\ db.approvals[run].resolved = None
Pending(db, run) == IF Unresolved(db, run) THEN db.approvals[run].req ELSE None
RaiseOverResolved(db, run, req) ==   \* mutant
  [db EXCEPT !.approvals = Put(db.approvals, run,
     [req |-> req, resolved |-> IF run \in DOMAIN db.approvals THEN db.approvals[run].resolved ELSE None])]
Raise(db, run, req) ==
  IF run = None THEN db
  ELSE [db EXCEPT !.approvals = Put(db.approvals, run, [req |-> req, resolved |-> None])]
Resolve(db, run, decision) ==
  IF Unresolved(db, run) THEN [db EXCEPT !.approvals[run].resolved = decision] ELSE db
=============================================================================
