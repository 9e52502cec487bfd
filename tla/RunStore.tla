------------------------------ MODULE RunStore ------------------------------
(***************************************************************************)
(* The three backends side by side, under the same calls.  As in the       *)
(* shared suite (internal/store/suite) every repository is exercised on    *)
(* fresh stores: focus, chosen at the start, names what is exercised.  The *)
(* calls are those of the clients: a run the engine drives through crashes *)
(* and commands ("runs") or while it is being read ("reads"), several runs *)
(* submitted and listed ("lists"), the sessions of Submit, the registry of *)
(* types, the audit logger, and the approval gate.                         *)
(***************************************************************************)
EXTENDS StoreData, Integers

CONSTANTS Focuses,     \* what may be exercised
          Ids,         \* the runs
          Tenants,     \* whose sessions there are
          TenantOf,    \* whose each run is
          Submitters,  \* concurrent requests of one caller
          Decisions,   \* what Nous may answer
          Requests,    \* the approval requests that may be raised
          Queries,     \* the audit queries that may be asked
          Filters,     \* the run filters that may be asked
          MaxEvents,   \* how many audit events may be appended
          TypeDefs,    \* the type definitions a host may register
          Intents,     \* the intents that may be submitted
          Driven,      \* the runs an engine drives
          Paces,       \* how far a call may move the clock
          MaxCalls,    \* how many calls move it
          MaxFaults    \* how many reloads, commands and foreign steps a trace has

ASSUME FocusesAssumption ==
  Focuses \subseteq {"runs", "reads", "lists", "sessions", "types", "audit", "approvals"}
\* A request has a decision and a reason, and no reason is the text that stands
\* for the database's NULL; a resolution is never nothing,
\* nor is a time.
ASSUME RequestsAssumption ==
  \A req \in Requests :
    req = [decision |-> req.decision, reason |-> req.reason] /\ req.reason # "NULL"
ASSUME DecisionAssumption == None \notin {"approve", "deny"} /\ None \notin Nat
\* The same of a type's description; how often its policy iterates is an int.
ASSUME TypeDefsAssumption ==
  \A t \in TypeDefs :
    /\ t = [name |-> t.name, description |-> t.description, schema |-> t.schema,
            policy |-> t.policy, registered |-> t.registered]
    /\ t.schema = [required |-> t.schema.required, requiredAs |-> t.schema.requiredAs,
                   properties |-> t.schema.properties, propertiesAs |-> t.schema.propertiesAs]
    /\ t.description # "NULL" /\ t.policy.maxIterations \in Int
ASSUME PacesAssumption == Paces \subseteq Nat \ {0}
\* A query bounds the times by times, or not at all, and the answer by a number.
ASSUME QueriesAssumption ==
  /\ MaxEvents \in Nat
  /\ \A q \in Queries :
       q.limit \in Nat /\ q.since \in Nat \cup {None} /\ q.until \in Nat \cup {None}
\* A decision's reference is a text, and not one that stands for nothing.
ASSUME RefsAssumption == Decisions \subseteq STRING \ {"", "null", "NULL"}
\* RunFilter.
ASSUME FiltersAssumption ==
  /\ \A id \in Ids : TenantOf[id] \in Tenants
  /\ \A f \in Filters :
       /\ DOMAIN f \subseteq {"id", "itype", "caller", "status", "tenant"}
       /\ "tenant" \in DOMAIN f => f.tenant \in Tenants

Mem == INSTANCE MemoryStore
Lite == INSTANCE SqliteStore
Pg == INSTANCE PostgresStore
Reg == INSTANCE IntentRegistry
Rep == INSTANCE Reports

VARIABLES mem, lite, pg,  \* the three stores
          focus,          \* the repository under test
          now, pace,      \* the clock, and how far a call moves it
          faults,         \* the reloads, commands and foreign steps so far
          held,           \* held[id][b]: the run as the engine has it, over backend b
          at,             \* at[id]: where the engine is with the run
          read,           \* a Get of the SQLite store in progress or done
          submits         \* submits[p]: where request p is in resolveSession
stores == <<mem, lite, pg>>
vars == <<mem, lite, pg, focus, now, pace, faults, held, at, read, submits>>

Backends == {"mem", "lite", "pg"}
Loop == <<"observing", "understanding", "deciding", "acting", "learning">>
LayerOf == [observing |-> "mnemos", understanding |-> "chronos", deciding |-> "nous",
            acting |-> "praxis", learning |-> "mnemos"]
Away == [pos |-> 0, phase |-> "away"]

Init ==
  /\ mem = Mem!New /\ lite = Lite!Empty /\ pg = Pg!Empty
  /\ focus \in Focuses
  /\ now = 1 /\ pace \in Paces /\ faults = 0
  /\ held = [id \in Ids |-> None]
  /\ at = [id \in Ids |-> Away]
  /\ read = None
  /\ submits = [p \in Submitters |-> [pc |-> "start", tenant |-> NoTenant]]

Tick == now <= pace * MaxCalls /\ now' = now + pace
Fault == faults < MaxFaults /\ faults' = faults + 1

-----------------------------------------------------------------------------
(* Runs: the calls of Submit, of the engine and of Steer.                  *)

SaveRun(id, runs) ==
  /\ held' = [held EXCEPT ![id] = runs]
  /\ mem' = Mem!Save(mem, runs["mem"])
  /\ lite' = Lite!Save(lite, runs["lite"])
  /\ pg' = Pg!Save(pg, runs["pg"])
SetStatus(id, status) ==
  /\ mem' = Mem!UpdateStatus(mem, id, status, now)
  /\ lite' = Lite!UpdateStatus(lite, id, status, now)
  /\ pg' = Pg!UpdateStatus(pg, id, status, now)
GetRun(id) ==
  [b \in Backends |-> CASE b = "mem" -> Mem!Get(mem, id)
                        [] b = "lite" -> Lite!Get(lite, id)
                        [] b = "pg" -> Pg!Get(pg, id)]
Stored(id) == id \in DOMAIN mem.runs

Driving(id) == focus \in {"runs", "reads"} /\ id \in Driven
NewRun(id, tenant) ==
  [id |-> id, itype |-> "explain", caller |-> "anonymous", tenant |-> tenant,
   status |-> "pending", iteration |-> 0, err |-> None, pending |-> None,
   started |-> now, updated |-> now, completed |-> None, steps |-> <<>>]

SubmitRun(id) ==
  /\ focus = "lists" \/ Driving(id)
  /\ ~Stored(id)
  /\ SaveRun(id, [b \in Backends |-> NewRun(id, TenantOf[id])])
  /\ at' = [at EXCEPT ![id] = [pos |-> 1, phase |-> "between"]]
  /\ Tick
  /\ UNCHANGED <<focus, pace, faults, read, submits>>

\* transition: the status alone is written; the engine's copy has it too.
Enter(id) ==
  /\ Driving(id) /\ at[id].phase = "between" /\ at[id].pos \in DOMAIN Loop
  /\ held' = [held EXCEPT ![id] = [b \in Backends |-> [held[id][b] EXCEPT
                                            !.status = Loop[at[id].pos], !.updated = now]]]
  /\ SetStatus(id, Loop[at[id].pos])
  /\ at' = [at EXCEPT ![id].phase = "inside"]
  /\ UNCHANGED <<focus, pace, faults, now, read, submits>>

\* primaryID: only a decision and an action leave a reference.
Refs(stage) ==
  CASE stage = "deciding" -> Decisions
    [] stage = "acting" -> {"act-1"}
    [] OTHER -> {""}

\* stage: the layer answers or fails; the step is appended and the run saved.
Leave(id) ==
  LET stage == Loop[at[id].pos]
      step(b, ref, err) ==
        [iteration |-> held[id][b].iteration, stage |-> stage, layer |-> LayerOf[stage],
         ref |-> ref, out |-> now, err |-> err, started |-> now, completed |-> now]
      saved(ref, err) == SaveRun(id, [b \in Backends |-> AppendStep(held[id][b], step(b, ref, err))])
  IN  /\ at[id].phase = "inside"
      /\ \/ /\ \E ref \in Refs(stage) : saved(ref, None)
            /\ at' = [at EXCEPT ![id] = [pos |-> @.pos + 1, phase |-> "between"]]
         \/ /\ saved("", "layer_call_failed")
            /\ at' = [at EXCEPT ![id].phase = "failing"]
      /\ Tick
      /\ UNCHANGED <<focus, pace, faults, read, submits>>

\* The approval gate: status, pending decision, save; the engine returns.
Suspend(id) ==
  /\ at[id] = [pos |-> 4, phase |-> "between"] /\ held[id]["mem"].pending = None
  /\ held[id]["mem"].status = "deciding"
  /\ SaveRun(id, [b \in Backends |->
       [held[id][b] EXCEPT !.status = "awaiting_approval", !.pending = Last(held[id][b].steps).ref]])
  /\ at' = [at EXCEPT ![id] = Away]
  /\ UNCHANGED <<focus, pace, faults, now, read, submits>>

\* The next iteration begins with a status; its number is saved with its first step.
Iterate(id) ==
  /\ at[id] = [pos |-> 6, phase |-> "between"]
  /\ held' = [held EXCEPT ![id] = [b \in Backends |->
       [held[id][b] EXCEPT !.iteration = @ + 1, !.status = "observing", !.updated = now]]]
  /\ SetStatus(id, "observing")
  /\ at' = [at EXCEPT ![id] = [pos |-> 1, phase |-> "between"]]
  /\ UNCHANGED <<focus, pace, faults, now, read, submits>>

\* Complete and fail: first the status alone, then the whole run.
Finish(id) ==
  LET status == IF at[id].phase = "failing" THEN "failed" ELSE "completed"
  IN  /\ at[id].phase = "failing" \/ at[id] = [pos |-> 6, phase |-> "between"]
      /\ held' = [held EXCEPT ![id] = [b \in Backends |->
           [CompleteRun(held[id][b], status, now) EXCEPT
              !.err = IF status = "failed" THEN "layer_call_failed" ELSE @]]]
      /\ SetStatus(id, status)
      /\ at' = [at EXCEPT ![id].phase = "closing"]
      /\ UNCHANGED <<focus, pace, faults, now, read, submits>>
Close(id) ==
  /\ at[id].phase = "closing"
  /\ SaveRun(id, held[id])
  /\ at' = [at EXCEPT ![id] = Away]
  /\ UNCHANGED <<focus, pace, faults, now, read, submits>>

\* The process is gone, or the run was suspended: the run is loaded again.  A
\* suspended one goes on at acting, any other begins its iteration once more, a
\* completed or failed one too: its worker may have died before it released it.
Redrive(id) ==
  /\ Driving(id) /\ Stored(id) /\ Validate(GetRun(id)["mem"])
  /\ IF GetRun(id)["mem"].status = "awaiting_approval" /\ GetRun(id)["mem"].pending # None
       THEN /\ SaveRun(id, [b \in Backends |-> [GetRun(id)[b] EXCEPT !.pending = None]])
            /\ at' = [at EXCEPT ![id] = [pos |-> 4, phase |-> "between"]]
       ELSE /\ held' = [held EXCEPT ![id] = GetRun(id)]
            /\ at' = [at EXCEPT ![id] = [pos |-> 1, phase |-> "between"]]
            /\ UNCHANGED stores
  /\ Fault
  /\ UNCHANGED <<focus, pace, now, read, submits>>

\* Steer writes a status beneath the engine.
Steer(id) ==
  /\ focus \in {"runs", "lists"} /\ Stored(id) /\ GetRun(id)["mem"].status \notin Terminal
  /\ \E status \in {"paused", "cancelled"} : SetStatus(id, status)
  /\ Fault
  /\ UNCHANGED <<focus, pace, now, held, at, read, submits>>

-----------------------------------------------------------------------------
(* A Get of the SQLite store: the row, later the steps, and what it gave.  *)

SelectRow(id) ==
  /\ focus = "reads" /\ read = None /\ Stored(id)
  /\ read' = [pc |-> "rows", id |-> id, row |-> Lite!SelectRun(lite, id),
              steps |-> Lite!LoadProvenance(lite, id)]
  /\ UNCHANGED <<mem, lite, pg, focus, pace, faults, now, held, at, submits>>

AnswerStepsFirst(r, steps) ==   \* mutant
  [Lite!SelectRun(lite, r.id) EXCEPT !.steps = r.steps]
GetAnswer(r, steps) == [r.row EXCEPT !.steps = steps]

SelectSteps ==
  /\ read # None /\ read.pc = "rows"
  /\ read' = [pc |-> "done", id |-> read.id,
              run |-> GetAnswer(read, Lite!LoadProvenance(lite, read.id))]
  /\ UNCHANGED <<mem, lite, pg, focus, pace, faults, now, held, at, submits>>
Forget ==
  /\ read # None /\ read.pc = "done"
  /\ read' = None
  /\ UNCHANGED <<mem, lite, pg, focus, pace, faults, now, held, at, submits>>

\* The suite appends a step to a stored run that no engine holds.
AppendStored(id) ==
  LET step == [iteration |-> 0, stage |-> "observing", layer |-> "mnemos", ref |-> "mem-1",
               out |-> now, err |-> None, started |-> now, completed |-> now]
  IN  /\ focus = "runs" /\ Stored(id) /\ at[id] = Away
      /\ mem' = Mem!AppendProvenance(mem, id, step)
      /\ lite' = Lite!AppendProvenance(lite, id, step)
      /\ pg' = Pg!AppendProvenance(pg, id, step)
      /\ Tick
      /\ Fault
      /\ UNCHANGED <<focus, pace, held, at, read, submits>>

RunCall(id) ==
  \/ SubmitRun(id) \/ Enter(id) \/ Leave(id) \/ Suspend(id) \/ Iterate(id)
  \/ Finish(id) \/ Close(id) \/ Redrive(id) \/ Steer(id) \/ AppendStored(id) \/ SelectRow(id)

-----------------------------------------------------------------------------
(* resolveSession: concurrent requests look the session up, then write it. *)

SessionID(tenant) == <<TenantKey(tenant), "user", "anonymous">>
\* Nothing is not a session.
ASSUME SessionAssumption ==
  None \notin [id : {SessionID(t) : t \in Tenants}, tenant : Tenants, caller : {"anonymous"},
               created : Nat, updated : Nat]

FindSession(p) ==
  /\ focus = "sessions" /\ submits[p].pc = "start"
  /\ \E tenant \in Tenants :
       submits' = [submits EXCEPT ![p] =
         [pc |-> IF Mem!GetSession(mem, SessionID(tenant)) = None THEN "upsert" ELSE "start",
          tenant |-> tenant]]
  /\ UNCHANGED <<mem, lite, pg, focus, pace, faults, now, held, at, read>>

UpsertSession(p) ==
  LET tenant == submits[p].tenant
      session == [id |-> SessionID(tenant), tenant |-> tenant, caller |-> "anonymous",
                  created |-> now, updated |-> now]
  IN  /\ submits[p].pc = "upsert"
      /\ mem' = Mem!UpsertSession(mem, session)
      /\ lite' = Lite!UpsertSession(lite, session)
      /\ pg' = Pg!UpsertSession(pg, session)
      /\ submits' = [submits EXCEPT ![p].pc = "start"]
      /\ Tick
      /\ UNCHANGED <<focus, pace, faults, held, at, read>>

-----------------------------------------------------------------------------
(* The registry, the audit logger and the approval gate.                   *)

RegisterType(t) ==
  LET row == Reg!Registration(t, now)
  IN  /\ focus = "types" /\ row # None
      /\ mem' = Mem!Register(mem, row)
      /\ lite' = Lite!Register(lite, row)
      /\ pg' = Pg!Register(pg, row)
      /\ Tick
      /\ UNCHANGED <<focus, pace, faults, held, at, read, submits>>

\* Logger.append: the id is fresh and the time is read before the store is
\* reached, so events may arrive in any order.
LogEvent(run, kind) ==
  /\ focus = "audit" /\ Cardinality(DOMAIN lite.audit) < MaxEvents
  /\ \E created \in 1..MaxEvents + 1 \ {e.created : e \in Lite!Events(lite)} :
       LET e == [id |-> created, run |-> run, kind |-> kind, created |-> created]
       IN  /\ mem' = Mem!AppendAudit(mem, e)
           /\ lite' = Lite!AppendAudit(lite, e)
           /\ pg' = Pg!AppendAudit(pg, e)
  /\ UNCHANGED <<focus, pace, faults, now, held, at, read, submits>>

RaiseApproval(run, req) ==
  /\ focus = "approvals"
  /\ mem' = Mem!Raise(mem, run, req)
  /\ lite' = Lite!Raise(lite, run, req)
  /\ pg' = Pg!Raise(pg, run, req)
  /\ UNCHANGED <<focus, pace, faults, now, held, at, read, submits>>
ResolveApproval(run, decision) ==
  /\ focus = "approvals"
  /\ mem' = Mem!Resolve(mem, run, decision)
  /\ lite' = Lite!Resolve(lite, run, decision)
  /\ pg' = Pg!Resolve(pg, run, decision)
  /\ UNCHANGED <<focus, pace, faults, now, held, at, read, submits>>

Next ==
  \/ \E id \in Ids : RunCall(id)
  \/ SelectSteps \/ Forget
  \/ \E p \in Submitters : FindSession(p) \/ UpsertSession(p)
  \/ \E t \in TypeDefs : RegisterType(t)
  \/ \E run \in Ids, kind \in {"approval_required", "outcome_written"} : LogEvent(run, kind)
  \/ \E run \in Ids :
       \/ \E req \in Requests : RaiseApproval(run, req)
       \/ \E decision \in {"approve", "deny"} : ResolveApproval(run, decision)

Spec == Init /\ [][Next]_vars

-----------------------------------------------------------------------------
Key(step) == <<step.iteration, step.stage>>
StageTwice(steps) == \E i, j \in DOMAIN steps : i < j /\ Key(steps[i]) = Key(steps[j])
\* The text of these times is ordered as the times are.
TextFaithful(times) == \A t, u \in times : Lite!TextBefore(t, u) <=> t < u

\* The filter asks for no tenant, or for one whose key is no other's.
Tells(filter, tenants) == "tenant" \in DOMAIN filter => ToldApart({filter.tenant} \cup tenants)

IdsOf(runs) == [i \in DOMAIN runs |-> runs[i].id]
WithoutSteps(run) == [run EXCEPT !.steps = <<>>, !.updated = 0]

\* "Same contract as memory": whatever the order of saves, status writes,
\* crashes and reloads, the SQL backends answer Get and List as the memory
\* backend does, as long as no stage ran twice in an iteration; SQLite returns
\* steps and lists in the same order unless the text of the times misorders them,
\* and a filter by tenant agrees where the keys tell the tenants apart.
RunsAgree ==
  /\ \A id \in {i \in Ids : Stored(i)} :
       LET run == GetRun(id)
           steps == run["mem"].steps
       IN  /\ \A b \in Backends : WithoutSteps(run[b]) = WithoutSteps(run["mem"])
           /\ ~StageTwice(steps) =>
                /\ run["pg"].steps = steps
                /\ ToSet(run["lite"].steps) = ToSet(steps)
                /\ TextFaithful({s.started : s \in ToSet(steps)}) => run["lite"].steps = steps
  /\ \A f \in {f \in Filters : Tells(f, {mem.runs[id].tenant : id \in DOMAIN mem.runs})},
        limit \in 0..1 :
       LET listed == IdsOf(Mem!List(mem, f, limit))
       IN  /\ IdsOf(Pg!List(pg, f, limit)) = listed
           /\ TextFaithful({mem.runs[id].started : id \in DOMAIN mem.runs})
                => IdsOf(Lite!List(lite, f, limit)) = listed

\* A stage that ran several times in one iteration (a crash, a reload) is one
\* row in SQL: it shows what the last attempt gave, beside the reference and the
\* start of the first, and no stage that ever ran is lost.
LastAttemptKept ==
  \A id \in {i \in Ids : Stored(i)}, b \in {"lite", "pg"} :
    LET tries == Mem!Get(mem, id).steps
        rows == GetRun(id)[b].steps
    IN  /\ ~StageTwice(rows)
        /\ {Key(r) : r \in ToSet(rows)} = {Key(t) : t \in ToSet(tries)}
        /\ \A r \in ToSet(rows) :
             LET same == {i \in DOMAIN tries : Key(tries[i]) = Key(r)}
             IN  \E first, last \in same :
                   /\ \A i \in same : first <= i /\ i <= last
                   /\ r.out = tries[last].out /\ r.err = tries[last].err
                   /\ r.ref = tries[first].ref /\ r.started = tries[first].started

\* The two queries of a SQL Get may straddle writes, but only forwards: a run
\* read as completed comes with the learning step of its last iteration, without
\* an error unless the row has since lost its status to an engine that drives
\* the completed run once more.
TornForward ==
  [][SelectSteps /\ read'.run.status = "completed" =>
       \E s \in ToSet(read'.run.steps) :
         /\ s.iteration = read'.run.iteration /\ s.stage = "learning"
         /\ s.err = None \/ lite.runs[read.id].status # "completed"]_vars

\* What is read out of a run (its chain, its explanation, its references, the
\* decisions a replay asks for, the dashboard) is the same on every backend,
\* even where SQLite hands out the steps in another order.
NoEvents == [id \in Ids |-> <<>>]
ReportsAgree ==
  LET chain(run) == Rep!Reconstruct(run)
      report(run) ==
        <<chain(run), Rep!Explain(chain(run), run).iterations, Rep!OriginalIDs(run),
          [Rep!Inspect(run) EXCEPT !.timeline = ToSet(@)]>>
      dashboard(runs) == Rep!BuildDashboard(runs, NoEvents, None, None)
  IN  /\ \A id \in {i \in Ids : Stored(i)} :
           ~StageTwice(mem.runs[id].steps) =>
             \A b \in {"lite", "pg"} : report(GetRun(id)[b]) = report(mem.runs[id])
      /\ \A listed \in {Lite!List(lite, <<>>, 0), Pg!List(pg, <<>>, 0)} :
           dashboard(listed) = dashboard(Mem!List(mem, <<>>, 0))

\* However events arrive, a run's trail reads in the order of their times and a
\* search answers alike everywhere; SQLite does where the text of the times and
\* of the bounds orders them.
TrailsAgree ==
  LET times == {e.created : e \in Lite!Events(lite)}
  IN  /\ \A run \in Ids :
           LET trail == Mem!ListForRun(mem, run)
           IN  /\ \A i, j \in DOMAIN trail : i < j => trail[i].created < trail[j].created
               /\ Pg!ListForRun(pg, run) = trail
               /\ TextFaithful(times) => Lite!ListForRun(lite, run) = trail
      /\ \A q \in Queries :
           /\ Pg!Search(pg, q) = Mem!Search(mem, q)
           /\ TextFaithful(times \cup ({q.since, q.until} \ {None}))
                => Lite!Search(lite, q) = Mem!Search(mem, q)

\* Memory moves a request from pending to resolved, SQL marks its row: after any
\* order of raising, resolving and raising again all three hold the same request
\* as pending, so the gate opens and closes alike.
ApprovalsAgree ==
  \A run \in Ids :
    /\ Lite!Pending(lite, run) = Mem!Pending(mem, run)
    /\ Pg!Pending(pg, run) = Mem!Pending(mem, run)

\* After any sequence of registrations of the same names every backend gives an
\* intent of a type whose schema is as JSON gives it the same verdict and the same
\* policy, and lists the same types; and after any race of first requests it holds
\* the same sessions, listed alike where the backends agree on when they began and
\* the keys tell the tenants apart.
AsJSON(types) == [n \in DOMAIN types |-> [types[n] EXCEPT !.schema = ThroughJSON(@)]]
CatalogsAgree ==
  LET verdict(found, intent) == Reg!ValidateIntent(intent, found)
      plain(found) == found # None => ThroughJSON(found.schema) = found.schema
      undated(s) == IF s = None THEN None ELSE [s EXCEPT !.created = 0]
  IN  /\ \A intent \in Intents :
           LET found == Mem!GetType(mem, intent.type)
               v == verdict(found, intent)
           IN  /\ plain(found) => /\ verdict(Lite!GetType(lite, intent.type), intent) = v
                                  /\ verdict(Pg!GetType(pg, intent.type), intent) = v
               /\ v # None => Reg!PreparePolicy(v, [maxIterations |-> 0, deadline |-> None], now).maxIterations > 0
      /\ LET listed == Mem!ListTypes([mem EXCEPT !.types = AsJSON(mem.types)])
         IN  Lite!ListTypes(lite) = listed /\ Pg!ListTypes(pg) = listed
      /\ \A tenant \in Tenants :
           LET id == SessionID(tenant)
               filter == [caller |-> "anonymous", tenant |-> tenant]
               told == Tells(filter, {mem.sessions[i].tenant : i \in DOMAIN mem.sessions})
               found == undated(Mem!GetSession(mem, id))
           IN  /\ undated(Lite!GetSession(lite, id)) = found
               /\ undated(Pg!GetSession(pg, id)) = found
               /\ told /\ pg.sessions = mem.sessions
                    => Pg!ListSessions(pg, filter, 1) = Mem!ListSessions(mem, filter, 1)
               /\ told /\ lite.sessions = mem.sessions
                       /\ TextFaithful({mem.sessions[i].created : i \in DOMAIN mem.sessions})
                    => Lite!ListSessions(lite, filter, 1) = Mem!ListSessions(mem, filter, 1)

\* Two first requests of one caller race through resolveSession: the second
\* upsert does not move the time at which the session began.
SessionCreationKept ==
  [][\A id \in DOMAIN lite.sessions :
       /\ lite'.sessions[id].created = lite.sessions[id].created
       /\ pg'.sessions[id].created = pg.sessions[id].created]_vars
=============================================================================
