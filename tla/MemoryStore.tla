---------------------------- MODULE MemoryStore -----------------------------
(***************************************************************************)
(* internal/store/memory: the reference backend.  An operation that writes *)
(* takes the store and returns the store; one that the code refuses leaves *)
(* it as it was.  A read returns the answer, None for ErrNotFound.  Each   *)
(* holds the repository's mutex, so each is one step.                      *)
(***************************************************************************)
EXTENDS StoreData

New == [runs |-> <<>>, sessions |-> <<>>, types |-> <<>>, events |-> <<>>,
        pending |-> <<>>, resolved |-> <<>>]

Save(db, run) ==
  IF Validate(run) THEN [db EXCEPT !.runs = Put(db.runs, run.id, run)] ELSE db
Get(db, id) == Lookup(db.runs, id)
UpdateStatus(db, id, status, now) ==
  IF id \in DOMAIN db.runs THEN [db EXCEPT !.runs[id].status = status] ELSE db
AppendProvenance(db, id, step) ==
  IF id \in DOMAIN db.runs
    THEN [db EXCEPT !.runs = Put(db.runs, id, AppendStep(db.runs[id], step))]
    ELSE db

MatchesTenant(row, filter) ==
  "tenant" \in DOMAIN filter /\ ~IsZero(filter.tenant)
    => TenantKey(row.tenant) = TenantKey(filter.tenant)
MatchesRun(run, filter) == MatchesFields(run, filter) /\ MatchesTenant(run, filter)

List(db, filter, limit) ==
  Limited(Ordered({r \in {db.runs[id] : id \in DOMAIN db.runs} : MatchesRun(r, filter)},
                  LAMBDA a, b : Later(a.started, b.started)), limit)

UpsertSession(db, s) == [db EXCEPT !.sessions = Put(db.sessions, s.id, s)]
GetSession(db, id) == Lookup(db.sessions, id)
ListSessions(db, filter, limit) ==
  Limited(Ordered({s \in {db.sessions[id] : id \in DOMAIN db.sessions} :
                     MatchesFields(s, filter) /\ MatchesTenant(s, filter)},
                  LAMBDA a, b : Later(a.created, b.created)), limit)

Register(db, t) == [db EXCEPT !.types = Put(db.types, t.name, t)]
GetType(db, name) == Lookup(db.types, name)
ListTypes(db) ==
  Ordered({db.types[n] : n \in DOMAIN db.types}, LAMBDA a, b : NameBefore(a.name, b.name))

EventsOf(db, run) == IF run \in DOMAIN db.events THEN db.events[run] ELSE <<>>
AppendAudit(db, e) ==
  IF e.run = None THEN db ELSE [db EXCEPT !.events = Put(db.events, e.run, Append(EventsOf(db, e.run), e))]
ListForRunAsArrived(db, run) == EventsOf(db, run)   \* mutant
ListForRun(db, run) ==
  Sorted(EventsOf(db, run), LAMBDA a, b : Earlier(a.created, b.created))
Search(db, q) ==
  Limited(Ordered({e \in UNION {ToSet(db.events[r]) : r \in DOMAIN db.events} :
                     /\ q.run # None => e.run = q.run
                     /\ q.kind # None => e.kind = q.kind
                     /\ q.since # None => ~Earlier(e.created, q.since)
                     /\ q.until # None => ~Later(e.created, q.until)},
                  LAMBDA a, b : Later(a.created, b.created)), q.limit)

Pending(db, run) == Lookup(db.pending, run)
Raise(db, run, req) ==
  IF run = None THEN db ELSE [db EXCEPT !.pending = Put(db.pending, run, req)]
Resolve(db, run, decision) ==
  IF run \in DOMAIN db.pending
    THEN [db EXCEPT !.pending = Without(db.pending, {run}),
                    !.resolved = Put(db.resolved, run, decision)]
    ELSE db
=============================================================================
