----------------------------- MODULE LayerCall -----------------------------
(***************************************************************************)
(* The calls of one process to the cognitive layers, exchange by exchange: *)
(* the transport's retries inside the breaker's call inside the outcome    *)
(* writer's retries.  The cast, chosen at the start, says who calls: the   *)
(* engine's goroutines in one iteration each ("loop"), the same after one  *)
(* approval of one parked decision ("parked"), the compensator called      *)
(* again and again for one run ("rollback"), or requests that share the    *)
(* rotating token ("token").                                               *)
(***************************************************************************)
EXTENDS Adapters

CONSTANTS Drivers,        \* the engine's goroutines
          Playbook,       \* nous: the configured entries
          GoalWords,      \* the entries' words in the run's goal
          Responses,      \* what Nous may answer to an extraction
          Compensations,  \* rollback: capability -> compensating capability
          Histories,      \* what the run to roll back may be: status and provenance
          Readings,       \* the sets of signals Chronos may answer
          MaxRuns,        \* how often the compensator is called
          InnerAttempts,  \* httpx: attempts of one Do
          OuterAttempts,  \* outcome: attempts of one Write
          MaxFailures,    \* circuit: consecutive failures that open a breaker
          MaxRequests,    \* circuit: calls admitted while half open
          Ttl, Refresh,   \* auth: life of a token, and when it is renewed
          MaxStall,       \* how long a request is held between two of its steps
          MaxTime

ASSUME AttemptsAssumption == {InnerAttempts, OuterAttempts, MaxFailures, MaxRequests} \subseteq Nat \ {0}
ASSUME DriversAssumption == Drivers # {}
ASSUME TokenAssumption == {Ttl, Refresh, MaxStall, MaxTime} \subseteq Nat

VARIABLES cast,           \* who calls
          wrapped,        \* whether WrapLayers put breakers around the ports
          scope,          \* chronos: the default scope, or None
          history,        \* the run that is rolled back
          brk,            \* brk[layer]: the breaker
          job, call,      \* job[c]: where client c is; call[c]: its port call
          seen,           \* outcome: the writer's keys
          events,         \* Mnemos: the events it holds
          effects,        \* Praxis: the actions it performed, in order
          now, current, expiresAt, tok   \* auth: the shared token, and each request's
remotes == <<events, effects>>
auth == <<now, current, expiresAt, tok>>
setting == <<cast, wrapped, scope, history>>
vars == <<setting, brk, job, call, seen, remotes, auth>>

Layers == {"mnemos", "chronos", "nous", "praxis"}
LayerOf == [recall |-> "mnemos", signals |-> "chronos", decide |-> "nous",
            execute |-> "praxis", append |-> "mnemos",
            inspect |-> "chronos", undo |-> "praxis", report |-> "mnemos"]
Run == "run"
Iteration == 0

\* NewRotatingTokenSource
RefreshBefore == IF Refresh = 0 \/ Refresh >= Ttl THEN Ttl \div 4 ELSE Refresh
\* A request is on its way for less than half of what the source renews ahead:
\* seconds (the client's timeout) against an hour.
ASSUME StallAssumption == 2 * MaxStall <= RefreshBefore /\ 2 * MaxStall < Ttl

Idle(pc, source, actions) ==
  [pc |-> pc, source |-> source, decision |-> None, actions |-> actions, k |-> 1, tries |-> 1,
   results |-> <<>>, calls |-> 1]
NoToken == [at |-> "none", since |-> 0, value |-> 0]
Parked == PlaybookActions(Playbook, GoalWords, "parked")
\* A playbook is a list of lists of actions, and a fresh name is a name.  A
\* decision that waits for approval has something to do.
ASSUME PlaybookAssumption ==
  /\ Playbook \in Seq(ToSet(Playbook))
  /\ \A i \in DOMAIN Playbook :
       /\ Playbook[i].actions \in Seq(ToSet(Playbook[i].actions))
       /\ \A k \in DOMAIN Playbook[i].actions :
            /\ {"id", "key"} \subseteq DOMAIN Playbook[i].actions[k]
            /\ None \notin {<<who, k>> : who \in {"parked"} \cup Drivers}
  /\ Parked # <<>>
\* A run's provenance is a list of steps, and a step's actions are a list.
ASSUME HistoriesAssumption ==
  \A h \in Histories :
    /\ h.steps \in Seq(ToSet(h.steps))
    /\ \A i \in DOMAIN h.steps : h.steps[i].actions \in Seq(ToSet(h.steps[i].actions))

Init ==
  /\ cast \in {"loop", "parked", "rollback", "token"}
  /\ wrapped \in BOOLEAN /\ scope \in {None, "scope"} /\ history \in Histories
  \* Earlier runs may have left a breaker open.
  /\ \E broken \in SUBSET Layers :
       /\ Cardinality(broken) <= IF wrapped THEN 1 ELSE 0
       /\ cast = "parked" => broken \subseteq {"praxis", "mnemos"}
       /\ cast = "rollback" => broken \subseteq Layers \ {"nous"}
       /\ brk = [l \in Layers |-> [st |-> IF l \in broken THEN "open" ELSE "closed", fails |-> 0, out |-> 0]]
  /\ job = [c \in Drivers |->
       CASE cast = "parked" -> Idle("execute", "parked", Parked)
         [] cast = "rollback" -> Idle("inspect", c, <<>>)
         [] OTHER -> Idle("recall", c, <<>>)]
  /\ call = [c \in Drivers |-> None]
  /\ seen = {} /\ events = {} /\ effects = <<>>
  /\ now = 0 /\ current = 0 /\ expiresAt = 0 /\ tok = [c \in Drivers |-> NoToken]
  \* What a cast does not look at is fixed.
  /\ cast \in {"loop", "rollback"} \/ scope = "scope"
  /\ cast = "rollback" \/ history = CHOOSE h \in Histories : TRUE
  /\ cast # "token" \/ ~wrapped

Clients == IF cast \in {"loop", "rollback"} THEN {CHOOSE c \in Drivers : TRUE} ELSE Drivers
Ended(c) == job[c].pc \in {"done", "failed"}

-----------------------------------------------------------------------------
(* The port call.                                                          *)

Refuses(l) ==
  /\ wrapped
  /\ \/ brk[l].st = "open"
     \/ brk[l].st = "half-open" /\ brk[l].out >= MaxRequests

\* What the adapter sends, fixed before the first attempt.
Request(c) ==
  LET j == job[c] IN
  CASE j.pc = "execute" -> EnsureActionDefaults(
                             WithRunMetadata(j.actions[j.k], <<c, "engine", j.k>>), <<c, "praxis", j.k>>)
    [] j.pc = "append" -> [run |-> Run, iteration |-> Iteration, action |-> j.results[j.k].id,
                           status |-> j.results[j.k].status, decision |-> j.decision]
    [] j.pc = "undo" -> [id |-> <<"rollback", Run, j.actions[j.k]>>, key |-> <<"rollback", Run, j.actions[j.k]>>,
                         cap |-> Compensations[j.actions[j.k]], retryable |-> FALSE]
    [] j.pc = "report" -> [run |-> Run, iteration |-> 0, action |-> <<"rollback", Run, j.actions[j.k]>>,
                           status |-> Last(j.results).status, decision |-> None]
    [] OTHER -> None

\* cb.Execute admits the call.
Admit(c) ==
  LET l == LayerOf[job[c].pc] IN
  /\ ~Ended(c) /\ job[c].pc \in DOMAIN LayerOf /\ call[c] = None
  /\ ~Refuses(l)
  /\ job[c].pc = "inspect" => history.status = "completed"
  /\ call' = [call EXCEPT ![c] = [attempt |-> 1, st |-> brk[l].st, req |-> Request(c)]]
  /\ brk' = IF wrapped /\ brk[l].st = "half-open" THEN [brk EXCEPT ![l].out = @ + 1] ELSE brk
  /\ UNCHANGED <<setting, job, seen, remotes, auth>>

\* It counts the result; one that comes in another state than it left is dropped.
Recorded(b, st, ok) ==
  CASE b.st # st -> b
    [] b.st = st /\ ok -> [st |-> "closed", fails |-> 0, out |-> 0]
    [] b.st = "half-open" /\ ~ok -> [st |-> "open", fails |-> 0, out |-> 0]
    [] OTHER -> IF b.fails + 1 >= MaxFailures THEN [st |-> "open", fails |-> 0, out |-> 0]
                ELSE [b EXCEPT !.fails = @ + 1]

Again(c, answer) == IsRetryable(answer) /\ call[c].attempt < InnerAttempts

\* A token is asked for before every exchange, and used up by it.
Authorised(c) == cast = "token" => tok[c].at = "held"

\* One exchange, or the breaker's refusal, with the job that follows the call.
Reply(c, answer, next) ==
  LET l == LayerOf[job[c].pc] IN
  \/ /\ answer = "refused" /\ call[c] = None /\ Refuses(l)
     /\ job' = [job EXCEPT ![c] = next]
     /\ UNCHANGED <<brk, call, tok>>
  \/ /\ answer # "refused" /\ call[c] # None /\ Authorised(c)
     /\ tok' = [tok EXCEPT ![c] = NoToken]
     /\ IF Again(c, answer)
        THEN call' = [call EXCEPT ![c].attempt = @ + 1] /\ UNCHANGED <<brk, job>>
        ELSE /\ call' = [call EXCEPT ![c] = None]
             /\ brk' = IF wrapped THEN [brk EXCEPT ![l] = Recorded(@, call[c].st, Succeeds(answer))] ELSE brk
             /\ job' = [job EXCEPT ![c] = next]

\* The exchanges, the breaker's refusal, and the end of the caller's context.
Outcomes == Answers \cup {"refused", "cancelled"}

Go(c, pc) == [job[c] EXCEPT !.pc = pc]
Fail(c) == Go(c, "failed")
Then(c, answer, pc) == IF Succeeds(answer) THEN Go(c, pc) ELSE Fail(c)
Frame == UNCHANGED <<setting, now, current, expiresAt>>
Ask(c, pc) == job[c].pc = pc /\ Frame

\* chronos answers without a request when it has no scope.
AnswersOf(l) == IF l = "chronos" /\ ScopeOf(None, scope) = None THEN {"ok", "refused"} ELSE Outcomes

-----------------------------------------------------------------------------
(* The engine's goroutine: one iteration of the loop.                      *)

Recall(c) ==
  /\ Ask(c, "recall")
  /\ \E a \in Outcomes : Reply(c, a, Then(c, a, IF cast = "token" THEN "done" ELSE "signals"))
  /\ UNCHANGED <<seen, remotes>>

Signals(c) ==
  /\ Ask(c, "signals")
  /\ \E a \in AnswersOf("chronos") : Reply(c, a, Then(c, a, "decide"))
  /\ UNCHANGED <<seen, remotes>>

Decide(c) ==
  LET actions == PlaybookActions(Playbook, GoalWords, c)
      nothing == [decision |-> None, saved |-> <<>>]
      decided(resp) == [Go(c, IF actions = <<>> THEN "done" ELSE "execute") EXCEPT
                          !.decision = DecisionID(resp, Run), !.actions = actions]
  IN  /\ Ask(c, "decide")
      /\ \/ \E resp \in Responses : Reply(c, "ok", decided(resp))
         \/ Reply(c, "empty", decided(nothing))
         \/ \E a \in Outcomes \ {"ok", "empty"} : Reply(c, a, Fail(c))
      /\ UNCHANGED <<seen, remotes>>

\* Praxis performs an action once for its key, and answers what came of it.
Statuses == {"succeeded", "failed"}
Performed(req) == {i \in DOMAIN effects : effects[i].key = req.key}
Results(req) ==
  IF Performed(req) = {} THEN Statuses ELSE {effects[i].status : i \in Performed(req)}
Perform(req, of, status) ==
  IF Performed(req) # {} THEN effects
  ELSE Append(effects, [key |-> req.key, of |-> of, status |-> status])

\* What Praxis does when an exchange ends with this answer and status.
Serve(c, of, a, status) ==
  IF a \in Served /\ call[c] # None
    THEN status \in Results(call[c].req) /\ effects' = Perform(call[c].req, of, status)
    ELSE effects' = effects
Result(c, a, status) == WireToResult(a, call[c].req.id, status)

\* What follows an executed action: the stage fails, the next action, or learning.
Acted(c, res) ==
  LET j == [job[c] EXCEPT !.results = Append(@, res)] IN
  CASE res.status = "failed" /\ ~j.actions[j.k].retryable -> [j EXCEPT !.pc = "failed"]
    [] j.k < Len(j.actions) -> [j EXCEPT !.k = @ + 1]
    [] OTHER -> [j EXCEPT !.pc = "check", !.k = 1]

Execute(c) ==
  /\ Ask(c, "execute")
  /\ \E a \in Outcomes, status \in Statuses :
       /\ Serve(c, <<job[c].source, job[c].k>>, a, status)
       /\ Reply(c, a, IF Succeeds(a) THEN Acted(c, Result(c, a, status)) ELSE Fail(c))
  /\ UNCHANGED <<seen, events>>

\* Write: the event is refused, known already, or appended.
Event(c) == [run |-> Run, iteration |-> Iteration, action |-> job[c].results[job[c].k].id]
Written(c) ==
  IF job[c].k < Len(job[c].results) THEN [job[c] EXCEPT !.pc = "check", !.k = @ + 1, !.tries = 1]
  ELSE Go(c, "done")

Checked(c) ==
  CASE Event(c).action = None -> Fail(c)
    [] Event(c).action # None /\ WriterKey(Event(c)) \in seen -> Written(c)
    [] OTHER -> Go(c, "append")

CheckMarked(c) == \* mutant: the key is recorded where it is checked
  /\ job[c].pc = "check"
  /\ job' = [job EXCEPT ![c] = Checked(c)]
  /\ seen' = seen \cup {WriterKey(Event(c))}
  /\ UNCHANGED <<setting, brk, call, remotes, auth>>
Check(c) ==
  /\ job[c].pc = "check"
  /\ job' = [job EXCEPT ![c] = Checked(c)]
  /\ UNCHANGED <<setting, brk, call, seen, remotes, auth>>

\* Mnemos keeps the first event of an ID.
Stored(ev) ==
  IF \E e \in events : e.id = OutcomeEventID(ev) THEN events
  ELSE events \cup {[id |-> OutcomeEventID(ev), status |-> ev.status]}

\* Every error is wrapped as transient, so whatever failed is tried again.
TriedUncounted(c) == job[c] \* mutant: a retry without a limit
Tried(c) == [job[c] EXCEPT !.tries = @ + 1]
RetriesWrite(c, answer) == answer # "cancelled" /\ job[c].tries < OuterAttempts
AppendOutcome(c) ==
  /\ Ask(c, "append")
  /\ \E a \in Outcomes :
       /\ events' = IF a \in Served /\ call[c] # None THEN Stored(call[c].req) ELSE events
       /\ Reply(c, a, CASE Succeeds(a) -> Go(c, "mark")
                        [] ~Succeeds(a) /\ RetriesWrite(c, a) -> Tried(c)
                        [] OTHER -> Fail(c))
  /\ UNCHANGED <<seen, effects>>

Mark(c) ==
  /\ job[c].pc = "mark"
  /\ seen' = seen \cup {WriterKey(Event(c))}
  /\ job' = [job EXCEPT ![c] = Written(c)]
  /\ UNCHANGED <<setting, brk, call, remotes, auth>>

-----------------------------------------------------------------------------
(* The compensator.  Its actions are the acted capabilities that have a    *)
(* compensating one, in the order they were acted in.                      *)

Plan(plan, cap) == IF cap \in DOMAIN Compensations THEN Append(plan, cap) ELSE plan
Compensated == FoldLeft(Plan, <<>>, CapabilitiesActed(history.steps))

\* Only a completed run is looked into.
SkipRun(c) ==
  /\ job[c].pc = "inspect" /\ call[c] = None /\ history.status # "completed"
  /\ job' = [job EXCEPT ![c] = Go(c, "done")]
  /\ UNCHANGED <<setting, brk, call, seen, remotes, auth>>
Inspect(c) ==
  LET judged(signals) ==
        CASE ~AnyRegression(signals) -> Go(c, "done")
          [] AnyRegression(signals) /\ Compensated = <<>> -> Fail(c)
          [] OTHER -> [Go(c, "undo") EXCEPT !.actions = Compensated, !.k = 1, !.results = <<>>]
  IN  /\ Ask(c, "inspect") /\ history.status = "completed"
      /\ \E a \in AnswersOf("chronos") :
           \E signals \in IF a = "ok" /\ ScopeOf(None, scope) # None THEN Readings ELSE {{}} :
             Reply(c, a, IF Succeeds(a) THEN judged(signals) ELSE Fail(c))
      /\ UNCHANGED <<seen, remotes>>

UndoFailedSkips(c) == \* mutant: the next capability is tried
  IF job[c].k < Len(job[c].actions) THEN [job[c] EXCEPT !.k = @ + 1] ELSE Go(c, "done")
UndoFailed(c) == Fail(c)
Undo(c) ==
  LET undone(res) == [Go(c, "report") EXCEPT !.results = Append(@, res)] IN
  /\ Ask(c, "undo")
  /\ \E a \in Outcomes, status \in Statuses :
       /\ Serve(c, <<Run, job[c].actions[job[c].k]>>, a, status)
       /\ Reply(c, a, IF Succeeds(a) THEN undone(Result(c, a, status)) ELSE UndoFailed(c))
  /\ UNCHANGED <<seen, events>>

\* Whatever becomes of the event, the next capability is undone.
Report(c) ==
  LET next == IF job[c].k < Len(job[c].actions) THEN [Go(c, "undo") EXCEPT !.k = @ + 1] ELSE Go(c, "done") IN
  /\ Ask(c, "report")
  /\ \E a \in Outcomes :
       /\ events' = IF a \in Served /\ call[c] # None THEN Stored(call[c].req) ELSE events
       /\ Reply(c, a, next)
  /\ UNCHANGED <<seen, effects>>

\* A host calls Run again, whatever the last call returned.
RunAgain(c) ==
  /\ cast = "rollback" /\ Ended(c) /\ job[c].calls < MaxRuns
  /\ job' = [job EXCEPT ![c] = [Idle("inspect", c, <<>>) EXCEPT !.calls = job[c].calls + 1]]
  /\ UNCHANGED <<setting, brk, call, seen, remotes, auth>>

-----------------------------------------------------------------------------
(* The breaker's clocks: its cooldown, and the interval that forgets.      *)

Cooldown(l) ==
  /\ brk[l].st = "open"
  /\ brk' = [brk EXCEPT ![l] = [st |-> "half-open", fails |-> 0, out |-> 0]]
  /\ UNCHANGED <<setting, job, call, seen, remotes, auth>>
Interval(l) ==
  /\ brk[l].st = "closed" /\ brk[l].fails > 0
  /\ brk' = [brk EXCEPT ![l].fails = 0]
  /\ UNCHANGED <<setting, job, call, seen, remotes, auth>>

-----------------------------------------------------------------------------
(* RotatingTokenSource.Token, unlocked, before each exchange.  A token is  *)
(* named by the time it expires at; 0 is none.                             *)

Token(c) == cast = "token" /\ call[c] # None /\ UNCHANGED <<setting, brk, job, call, seen, remotes, now>>
Hold(c, at, since, value) == tok' = [tok EXCEPT ![c] = [at |-> at, since |-> since, value |-> value]]

FreshNoMargin == current # 0 /\ now < expiresAt \* mutant: no margin before the expiry
Fresh == current # 0 /\ now + RefreshBefore < expiresAt
TokenCheck(c) ==
  /\ Token(c) /\ tok[c].at = "none"
  /\ Hold(c, IF Fresh THEN "returning" ELSE "minting", now, 0)
  /\ UNCHANGED <<current, expiresAt>>
\* IssueAgentToken reads the clock again.
TokenMint(c) ==
  /\ Token(c) /\ tok[c].at = "minting"
  /\ Hold(c, "storing", tok[c].since, now + Ttl)
  /\ UNCHANGED <<current, expiresAt>>
TokenStore(c) ==
  /\ Token(c) /\ tok[c].at = "storing"
  /\ current' = tok[c].value
  /\ Hold(c, "dating", tok[c].since, 0)
  /\ UNCHANGED expiresAt
TokenDate(c) ==
  /\ Token(c) /\ tok[c].at = "dating"
  /\ expiresAt' = tok[c].since + Ttl
  /\ Hold(c, "returning", tok[c].since, 0)
  /\ UNCHANGED current
TokenReturn(c) ==
  /\ Token(c) /\ tok[c].at = "returning"
  /\ Hold(c, "held", tok[c].since, current)
  /\ UNCHANGED <<current, expiresAt>>

Tick ==
  /\ cast = "token" /\ now < MaxTime
  /\ \A c \in Drivers : tok[c].at # "none" => now < tok[c].since + MaxStall
  /\ now' = now + 1
  /\ UNCHANGED <<setting, brk, job, call, seen, remotes, current, expiresAt, tok>>
\* The process goes on calling.
CallAgain(c) ==
  /\ cast = "token" /\ Ended(c) /\ now < MaxTime
  /\ job' = [job EXCEPT ![c] = Idle("recall", c, <<>>)]
  /\ UNCHANGED <<setting, brk, call, seen, remotes, auth>>

-----------------------------------------------------------------------------
Works(c) ==
  \/ Admit(c) \/ Recall(c) \/ Signals(c) \/ Decide(c) \/ Execute(c)
  \/ Check(c) \/ AppendOutcome(c) \/ Mark(c)
  \/ SkipRun(c) \/ Inspect(c) \/ Undo(c) \/ Report(c)
  \/ TokenCheck(c) \/ TokenMint(c) \/ TokenStore(c) \/ TokenDate(c) \/ TokenReturn(c)

Next ==
  \/ \E c \in Clients : Works(c) \/ RunAgain(c) \/ CallAgain(c)
  \/ \E l \in Layers : Cooldown(l) \/ Interval(l)
  \/ Tick

\* A goroutine runs on, and every exchange ends: the HTTP client has a timeout.
Spec == Init /\ [][Next]_vars /\ \A c \in Drivers : WF_vars(c \in Clients /\ Works(c))

-----------------------------------------------------------------------------
\* A goroutine that ended well has every action of its decision performed at
\* Praxis, under the action's key, and recorded in Mnemos, under its ID and with
\* the status Praxis gave it, although its Write may have returned because
\* another's was seen (outcome.Write, api.Execute).
LoopClosed ==
  \A c \in Drivers : cast \in {"loop", "parked"} /\ job[c].pc = "done" =>
    \A k \in DOMAIN job[c].actions : \E i \in DOMAIN effects :
      /\ effects[i].key = job[c].actions[k].key
      /\ [id |-> <<Run, Iteration, job[c].actions[k].id>>, status |-> effects[i].status] \in events

\* An action of a decision, and the compensation of a capability, takes effect at
\* most once, whatever is retried, lost, resumed by two goroutines or called again.
EffectOnce ==
  \A i, k \in DOMAIN effects : effects[i].of = effects[k].of => i = k

\* Compensation goes through the acted capabilities in order, skips none, and a
\* call that reported success has left none out (rollback.Run).
CompensatedInOrder ==
  cast = "rollback" =>
    /\ Len(effects) <= Len(Compensated)
    /\ \A i \in DOMAIN effects : effects[i].of = <<Run, Compensated[i]>>
    /\ \A c \in Drivers : job[c].pc = "done" /\ job[c].results # <<>> => Len(effects) = Len(Compensated)

\* No request carries an expired token, although requests renew it together
\* without a lock (auth.RotatingTokenSource.Token).
TokenValid ==
  \A c \in Drivers : tok[c].at = "held" => now < tok[c].value

\* Every call returns, through all the retries stacked on one another.
CallsReturn == \A c \in Drivers : ~Ended(c) ~> (Ended(c) \/ c \notin Clients)
=============================================================================
