------------------------------ MODULE Adapters ------------------------------
(***************************************************************************)
(* What the layer adapters make of a request and of an answer: the HTTP    *)
(* transport's verdicts, the identities that make a repeated request       *)
(* harmless, the decision Nous's answer becomes, and what the compensator  *)
(* reads in provenance and signals.  The layers themselves are external.   *)
(***************************************************************************)
EXTENDS Naturals, Sequences, SequencesExt, FiniteSets

CONSTANT None

-----------------------------------------------------------------------------
(* Transport.  One HTTP exchange ends in one of these ways; "lost" is a    *)
(* request the layer served and whose answer never came.                   *)

Answers == {"ok", "empty", "garbled", "lost", "unreachable", "busy", "rejected"}
Served == {"ok", "empty", "garbled", "lost"}

\* The answers after which the retrier may try again: transport errors, 429, 5xx.
IsRetryable(answer) == answer \in {"lost", "unreachable", "busy"}

\* An empty body decodes into nothing and is no error; a broken one is.
Succeeds(answer) == answer \in {"ok", "empty"}

-----------------------------------------------------------------------------
(* Identities.  An action without an ID gets a fresh one, and its ID is    *)
(* its idempotency key unless it brought one.                              *)

EnsureActionDefaults(a, fresh) ==
  LET id == IF a.id = None THEN fresh ELSE a.id
  IN  [a EXCEPT !.id = id, !.key = IF @ = None THEN id ELSE @]

\* The engine does the same before it hands the action to Praxis.
WithRunMetadata(a, fresh) == EnsureActionDefaults(a, fresh)

\* mnemos: the event's ID is made of run, iteration and action.
OutcomeEventID(ev) == <<ev.run, ev.iteration, ev.action>>

\* outcome: the writer's own key leaves the iteration out.
WriterKey(ev) == <<ev.run, ev.action>>

-----------------------------------------------------------------------------
(* Queries and answers.                                                    *)

\* chronos: the filter's scope, else the default one; without any, no request.
ScopeOf(filter, default) == IF filter # None THEN filter ELSE default

\* nous: the decision, else the first saved commitment, else a name of the run's own.
DecisionID(resp, run) ==
  CASE resp.decision # None -> resp.decision
    [] resp.decision = None /\ resp.saved # <<>> -> Head(resp.saved)
    [] OTHER -> <<"olymp-noop", run>>

\* nous: an action of the playbook gets a fresh ID whatever it says, and a key if it has none.
StampNothing(a, fresh) == a \* mutant: the IDs are left to the engine
Stamp(a, fresh) == [a EXCEPT !.id = fresh, !.key = IF @ = None THEN fresh ELSE @]

\* nous: the first entry that matches gives the actions.  desc is the set of the
\* entries' words that occur in the goal's description; who makes the fresh names.
PlaybookActions(entries, desc, who) ==
  LET matches(i) == entries[i].match # "" /\ entries[i].match \in desc
      first == {i \in DOMAIN entries : matches(i) /\ \A j \in 1..i - 1 : ~matches(j)}
      actions == IF first = {} THEN <<>> ELSE entries[CHOOSE i \in first : TRUE].actions
  IN  [k \in DOMAIN actions |-> Stamp(actions[k], <<who, k>>)]

\* praxis: an answered action, or the zero result of an empty body.
WireToResult(answer, id, status) ==
  IF answer = "empty" THEN [id |-> None, status |-> None] ELSE [id |-> id, status |-> status]

-----------------------------------------------------------------------------
(* Rollback.  Confidence is in tenths.                                     *)

DefaultRegressionPredicate(s) == s.confidence >= 7 /\ s.pattern \in {"spike", "drop", "anomaly"}
AnyRegression(signals) == \E s \in signals : DefaultRegressionPredicate(s)

\* A capability that succeeded is kept once, as first met.
Meet(caps, e) ==
  IF e.status = "succeeded" /\ e.cap \notin ToSet(caps) THEN Append(caps, e.cap) ELSE caps

\* Only acting steps are looked into, action by action.
Visit(caps, st) == IF st.stage = "acting" THEN FoldLeft(Meet, caps, st.actions) ELSE caps
CapabilitiesActed(steps) == FoldLeft(Visit, <<>>, steps)
=============================================================================
