--------------------------- MODULE LayerCallProofs ---------------------------
(***************************************************************************)
(* The promises of LayerCall, for any number of goroutines, attempts and   *)
(* calls: no request carries an expired token, no action takes effect      *)
(* twice, compensation keeps its order, and a finished iteration has every *)
(* action performed and recorded.                                          *)
(***************************************************************************)
EXTENDS LayerCall, TLAPS

-----------------------------------------------------------------------------
(* The token source.                                                       *)

TokenParts ==
  {"none", "minting", "storing", "dating", "returning", "held"}
TokenTypes ==
  /\ now \in Nat /\ current \in Nat /\ expiresAt \in Nat
  /\ tok \in [Drivers -> [at : TokenParts, since : Nat, value : Nat]]

\* What each place in Token knows: of the time it began at, of the token in its
\* hands, and of the shared one, which others may replace but only by tokens as
\* young as they are themselves.
TokenKnows(t) ==
  /\ t.at # "none" => t.since <= now /\ now <= t.since + MaxStall
  /\ t.at = "storing" => t.value >= t.since + Ttl
  /\ t.at = "dating" => current + MaxStall >= t.since + Ttl
  /\ t.at = "returning" => current > t.since + MaxStall
  /\ t.at = "held" => t.value > t.since + MaxStall

TokenInv ==
  /\ TokenTypes
  /\ expiresAt <= now + Ttl
  /\ current + MaxStall >= expiresAt
  /\ \A c \in Drivers : TokenKnows(tok[c])

LEMMA Constants ==
  /\ Ttl \in Nat /\ MaxStall \in Nat /\ MaxTime \in Nat /\ RefreshBefore \in Int
  /\ 2 * MaxStall <= RefreshBefore /\ 2 * MaxStall < Ttl
<1>1. Ttl \in Nat /\ MaxStall \in Nat /\ MaxTime \in Nat /\ Refresh \in Nat
  BY TokenAssumption
<1>2. RefreshBefore \in Int
  BY <1>1 DEF RefreshBefore
<1> QED BY <1>1, <1>2, StallAssumption

LEMMA TokenInit == Init => TokenInv
BY Constants DEF Init, TokenInv, TokenTypes, TokenParts, TokenKnows, NoToken

\* A call's end takes the token with it; otherwise only Token itself moves it.
Dropped(c) == tok' = tok \/ tok' = [tok EXCEPT ![c] = NoToken]

LEMMA ReplyDrops ==
  ASSUME NEW c, NEW a, NEW j, Reply(c, a, j)
  PROVE  Dropped(c)
BY DEF Reply, Dropped

Elsewhere(c) == UNCHANGED <<now, current, expiresAt>> /\ Dropped(c)

LEMMA WorkElsewhere ==
  ASSUME NEW c, Works(c)
  PROVE  Elsewhere(c) \/ TokenCheck(c) \/ TokenMint(c) \/ TokenStore(c) \/ TokenDate(c) \/ TokenReturn(c)
<1>1. CASE Admit(c)
  BY <1>1 DEF Admit, auth, Elsewhere, Dropped
<1>2. CASE Recall(c) \/ Signals(c)
  BY <1>2, ReplyDrops DEF Recall, Signals, Ask, Frame, Elsewhere
<1>3. CASE Decide(c)
  BY <1>3, ReplyDrops DEF Decide, Ask, Frame, Elsewhere
<1>4. CASE Execute(c)
  BY <1>4, ReplyDrops DEF Execute, Serve, Ask, Frame, Elsewhere
<1>5. CASE Check(c) \/ Mark(c) \/ SkipRun(c)
  BY <1>5 DEF Check, Mark, SkipRun, auth, Elsewhere, Dropped
<1>6. CASE AppendOutcome(c)
  BY <1>6, ReplyDrops DEF AppendOutcome, Ask, Frame, Elsewhere
<1>7. CASE Inspect(c)
  BY <1>7, ReplyDrops DEF Inspect, Ask, Frame, Elsewhere
<1>8. CASE Undo(c)
  BY <1>8, ReplyDrops DEF Undo, Serve, Ask, Frame, Elsewhere
<1>9. CASE Report(c)
  BY <1>9, ReplyDrops DEF Report, Ask, Frame, Elsewhere
<1> QED BY <1>1, <1>2, <1>3, <1>4, <1>5, <1>6, <1>7, <1>8, <1>9 DEF Works

LEMMA ElsewhereKeeps ==
  ASSUME TokenInv, NEW c, Elsewhere(c)
  PROVE  TokenInv'
<1>1. \A d \in Drivers : tok'[d] = tok[d] \/ tok'[d] = NoToken
  BY DEF Elsewhere, Dropped, TokenInv, TokenTypes
<1>2. TokenTypes'
  BY DEF TokenInv, TokenTypes, Elsewhere, Dropped, NoToken, TokenParts
<1>3. ASSUME NEW d \in Drivers PROVE TokenKnows(tok[d])'
  <2>1. CASE tok'[d] = tok[d]
    BY <2>1 DEF TokenInv, TokenKnows, Elsewhere
  <2>2. CASE tok'[d] = NoToken
    BY <2>2 DEF TokenKnows, NoToken
  <2> QED BY <2>1, <2>2, <1>1
<1> QED BY <1>2, <1>3 DEF TokenInv, Elsewhere

LEMMA CheckKeeps ==
  ASSUME TokenInv, NEW c \in Drivers, TokenCheck(c)
  PROVE  TokenInv'
<1>1. \A d \in Drivers : d # c => tok'[d] = tok[d]
  BY DEF TokenCheck, Token, Hold, TokenInv, TokenTypes
<1>2. tok'[c] = [at |-> IF Fresh THEN "returning" ELSE "minting", since |-> now, value |-> 0]
  BY DEF TokenCheck, Token, Hold, TokenInv, TokenTypes
<1>3. UNCHANGED <<now, current, expiresAt>>
  BY DEF TokenCheck, Token
<1>4. TokenTypes'
  BY <1>3 DEF TokenInv, TokenTypes, TokenCheck, Token, Hold, TokenParts
<1>5. TokenKnows(tok[c])'
  BY <1>2, <1>3, Constants DEF TokenInv, TokenTypes, TokenKnows, Fresh
<1>6. \A d \in Drivers : TokenKnows(tok[d])'
  BY <1>1, <1>3, <1>5 DEF TokenInv, TokenKnows
<1> QED BY <1>3, <1>4, <1>6 DEF TokenInv

LEMMA MintKeeps ==
  ASSUME TokenInv, NEW c \in Drivers, TokenMint(c)
  PROVE  TokenInv'
<1>1. \A d \in Drivers : d # c => tok'[d] = tok[d]
  BY DEF TokenMint, Token, Hold, TokenInv, TokenTypes
<1>2. tok'[c] = [at |-> "storing", since |-> tok[c].since, value |-> now + Ttl]
  BY DEF TokenMint, Token, Hold, TokenInv, TokenTypes
<1>3. UNCHANGED <<now, current, expiresAt>>
  BY DEF TokenMint, Token
<1>4. TokenTypes'
  BY <1>3, Constants DEF TokenInv, TokenTypes, TokenMint, Token, Hold, TokenParts
<1>5. TokenKnows(tok[c])'
  BY <1>2, <1>3, Constants DEF TokenInv, TokenTypes, TokenKnows, TokenMint
<1>6. \A d \in Drivers : TokenKnows(tok[d])'
  BY <1>1, <1>3, <1>5 DEF TokenInv, TokenKnows
<1> QED BY <1>3, <1>4, <1>6 DEF TokenInv

\* A stored token is nearly as young as the time: everyone else who holds on to
\* the shared one is served at least as well as before.
LEMMA StoreKeeps ==
  ASSUME TokenInv, NEW c \in Drivers, TokenStore(c)
  PROVE  TokenInv'
<1>1. \A d \in Drivers : d # c => tok'[d] = tok[d]
  BY DEF TokenStore, Token, Hold, TokenInv, TokenTypes
<1>2. tok'[c] = [at |-> "dating", since |-> tok[c].since, value |-> 0]
  BY DEF TokenStore, Token, Hold, TokenInv, TokenTypes
<1>3. UNCHANGED <<now, expiresAt>> /\ current' = tok[c].value
  BY DEF TokenStore, Token
<1>4. TokenTypes'
  BY <1>3 DEF TokenInv, TokenTypes, TokenStore, Token, Hold, TokenParts
<1>5. current' + MaxStall >= now + Ttl /\ current' >= tok[c].since + Ttl
  BY <1>3, Constants DEF TokenInv, TokenTypes, TokenKnows, TokenStore
<1>6. TokenKnows(tok[c])'
  BY <1>2, <1>3, <1>5, Constants DEF TokenInv, TokenTypes, TokenKnows, TokenStore
<1>7. ASSUME NEW d \in Drivers, d # c PROVE TokenKnows(tok[d])'
  <2>1. TokenKnows(tok[d]) /\ tok[d].since \in Nat /\ tok[d].value \in Nat
    BY DEF TokenInv, TokenTypes
  <2>2. tok'[d] = tok[d]
    BY <1>1, <1>7
  <2>3. current' \in Nat /\ now \in Nat
    BY <1>4, <1>3 DEF TokenTypes
  <2> QED BY <2>1, <2>2, <2>3, <1>3, <1>5, Constants DEF TokenKnows
<1>8. current' + MaxStall >= expiresAt'
  BY <1>3, <1>4, <1>5, Constants DEF TokenInv, TokenTypes
<1> QED BY <1>3, <1>4, <1>6, <1>7, <1>8 DEF TokenInv

LEMMA DateKeeps ==
  ASSUME TokenInv, NEW c \in Drivers, TokenDate(c)
  PROVE  TokenInv'
<1>1. \A d \in Drivers : d # c => tok'[d] = tok[d]
  BY DEF TokenDate, Token, Hold, TokenInv, TokenTypes
<1>2. tok'[c] = [at |-> "returning", since |-> tok[c].since, value |-> 0]
  BY DEF TokenDate, Token, Hold, TokenInv, TokenTypes
<1>3. UNCHANGED <<now, current>> /\ expiresAt' = tok[c].since + Ttl
  BY DEF TokenDate, Token
<1>4. TokenTypes'
  BY <1>3, Constants DEF TokenInv, TokenTypes, TokenDate, Token, Hold, TokenParts
<1>5. TokenKnows(tok[c])' /\ expiresAt' <= now' + Ttl /\ current' + MaxStall >= expiresAt'
  BY <1>2, <1>3, Constants DEF TokenInv, TokenTypes, TokenKnows, TokenDate
<1>6. \A d \in Drivers : TokenKnows(tok[d])'
  BY <1>1, <1>3, <1>5 DEF TokenInv, TokenKnows
<1> QED BY <1>4, <1>5, <1>6 DEF TokenInv

LEMMA ReturnKeeps ==
  ASSUME TokenInv, NEW c \in Drivers, TokenReturn(c)
  PROVE  TokenInv'
<1>1. \A d \in Drivers : d # c => tok'[d] = tok[d]
  BY DEF TokenReturn, Token, Hold, TokenInv, TokenTypes
<1>2. tok'[c] = [at |-> "held", since |-> tok[c].since, value |-> current]
  BY DEF TokenReturn, Token, Hold, TokenInv, TokenTypes
<1>3. UNCHANGED <<now, current, expiresAt>>
  BY DEF TokenReturn, Token
<1>4. TokenTypes'
  BY <1>3 DEF TokenInv, TokenTypes, TokenReturn, Token, Hold, TokenParts
<1>5. TokenKnows(tok[c])'
  BY <1>2, <1>3 DEF TokenInv, TokenTypes, TokenKnows, TokenReturn
<1>6. \A d \in Drivers : TokenKnows(tok[d])'
  BY <1>1, <1>3, <1>5 DEF TokenInv, TokenKnows
<1> QED BY <1>3, <1>4, <1>6 DEF TokenInv

LEMMA TickKeeps ==
  ASSUME TokenInv, Tick
  PROVE  TokenInv'
<1>1. now' = now + 1 /\ UNCHANGED <<current, expiresAt, tok>>
  BY DEF Tick
<1>2. TokenTypes'
  BY <1>1 DEF TokenInv, TokenTypes
<1>3. ASSUME NEW d \in Drivers PROVE TokenKnows(tok[d])'
  BY <1>1, Constants DEF TokenInv, TokenTypes, TokenKnows, Tick
<1> QED BY <1>1, <1>2, <1>3, Constants DEF TokenInv, TokenTypes

\* No request leaves with an expired token (RotatingTokenSource.Token), although
\* any number of requests renew it together without a lock.
THEOREM TokensValid == Spec => []TokenValid
<1>1. TokenInv /\ [Next]_vars => TokenInv'
  <2> SUFFICES ASSUME TokenInv, [Next]_vars PROVE TokenInv'
    OBVIOUS
  <2>1. ASSUME NEW c, Elsewhere(c) PROVE TokenInv'
    BY <2>1, ElsewhereKeeps
  <2>2. ASSUME NEW c \in Clients, Works(c) PROVE TokenInv'
    <3>1. c \in Drivers
      BY DriversAssumption DEF Clients
    <3> QED BY <2>1, <2>2, <3>1, WorkElsewhere, CheckKeeps, MintKeeps, StoreKeeps, DateKeeps, ReturnKeeps
  <2>3. ASSUME NEW c \in Clients, RunAgain(c) \/ CallAgain(c) PROVE TokenInv'
    BY <2>1, <2>3 DEF RunAgain, CallAgain, auth, Elsewhere, Dropped
  <2>4. ASSUME NEW l \in Layers, Cooldown(l) \/ Interval(l) PROVE TokenInv'
    BY <2>1, <2>4 DEF Cooldown, Interval, auth, Elsewhere, Dropped
  <2>5. CASE UNCHANGED vars
    BY <2>1, <2>5 DEF vars, auth, Elsewhere, Dropped
  <2> QED BY <2>2, <2>3, <2>4, <2>5, TickKeeps DEF Next
<1>2. TokenInv => TokenValid
  BY Constants DEF TokenInv, TokenTypes, TokenKnows, TokenValid
<1> QED BY TokenInit, <1>1, <1>2, PTL DEF Spec

-----------------------------------------------------------------------------
(* Effects.  An action of a decision has one name at Praxis, whoever sends *)
(* it and however often, and Praxis does nothing twice under one name.     *)

\* The actions a goroutine works through, and the name of what it is at.
ActsOf(s) ==
  IF cast = "parked" THEN Parked
  ELSE PlaybookActions(Playbook, GoalWords, s)
Who(s) == IF cast = "parked" THEN "parked" ELSE s
KeyOf(of) ==
  IF cast = "rollback" THEN <<"rollback", of[1], of[2]>> ELSE ActsOf(of[1])[of[2]].key
Target(j) == IF cast = "rollback" THEN <<Run, j.actions[j.k]>> ELSE <<j.source, j.k>>

Fields == {"pc", "source", "decision", "actions", "k", "tries", "results", "calls"}
Places ==
  IF cast = "rollback" THEN {"inspect", "undo", "report", "done", "failed"}
  ELSE {"recall", "signals", "decide", "execute", "check", "append", "mark", "done", "failed"}

JobFine(c, j) ==
  /\ DOMAIN j = Fields /\ j.pc \in Places
  /\ cast # "parked" => j.source = c
  /\ cast = "parked" => j.pc \notin {"recall", "signals", "decide"}
  /\ j.pc \in {"recall", "signals", "decide"} => j.k = 1
  /\ j.pc = "execute" => j.actions = ActsOf(j.source) /\ j.k \in DOMAIN j.actions
CallFine(j, q) ==
  q # None =>
    /\ j.pc \in DOMAIN LayerOf
    /\ "req" \in DOMAIN q
    /\ j.pc \in {"execute", "undo"} => q.req.key = KeyOf(Target(j))

JobsFine ==
  /\ DOMAIN job = Drivers /\ DOMAIN call = Drivers
  /\ cast \in {"loop", "parked", "rollback", "token"}
  /\ \A c \in Drivers : JobFine(c, job[c]) /\ CallFine(job[c], call[c])

EffectsFine ==
  /\ \E S : effects \in Seq(S)
  /\ \A i \in DOMAIN effects : effects[i].key = KeyOf(effects[i].of)
  /\ \A i, k \in DOMAIN effects : effects[i].key = effects[k].key => i = k

\* What the playbook has for the goal, before it is stamped.
Matches(i) == Playbook[i].match # "" /\ Playbook[i].match \in GoalWords
First == {i \in DOMAIN Playbook : Matches(i) /\ \A j \in 1..i - 1 : ~Matches(j)}
Chosen == IF First = {} THEN <<>> ELSE Playbook[CHOOSE i \in First : TRUE].actions

LEMMA ChosenSequence ==
  /\ Chosen \in Seq(ToSet(Chosen))
  /\ \A k \in DOMAIN Chosen :
       /\ {"id", "key"} \subseteq DOMAIN Chosen[k]
       /\ \A who \in {"parked"} \cup Drivers : <<who, k>> # None
<1>1. CASE First = {}
  BY <1>1 DEF Chosen
<1>2. CASE First # {}
  <2>1. PICK i \in DOMAIN Playbook : Chosen = Playbook[i].actions
    BY <1>2 DEF Chosen, First
  <2> QED BY <2>1, PlaybookAssumption
<1> QED BY <1>1, <1>2

\* The decision's actions are the chosen ones, each under a name of its own.
LEMMA ActsStamped ==
  ASSUME NEW s, cast = "parked" \/ s \in Drivers
  PROVE  /\ DOMAIN ActsOf(s) = 1..Len(ActsOf(s)) /\ Len(ActsOf(s)) \in Nat
         /\ \A k \in DOMAIN ActsOf(s) :
              /\ {"id", "key"} \subseteq DOMAIN ActsOf(s)[k] /\ ActsOf(s)[k].key # None
              /\ ActsOf(s)[k].id = <<Who(s), k>> /\ <<Who(s), k>> # None
         /\ ActsOf(s) # <<>> => 1 \in DOMAIN ActsOf(s)
<1> DEFINE name(k) == <<Who(s), k>>
           A == [k \in DOMAIN Chosen |-> Stamp(Chosen[k], name(k))]
<1>1. ActsOf(s) = A
  <2>1. Parked = [k \in DOMAIN Chosen |-> Stamp(Chosen[k], <<"parked", k>>)]
    BY DEF Parked, PlaybookActions, Chosen, First, Matches
  <2>2. PlaybookActions(Playbook, GoalWords, s)
          = [k \in DOMAIN Chosen |-> Stamp(Chosen[k], <<s, k>>)]
    BY DEF PlaybookActions, Chosen, First, Matches
  <2> QED BY <2>1, <2>2 DEF ActsOf, Who
<1>2. DOMAIN Chosen = 1..Len(Chosen) /\ Len(Chosen) \in Nat
  BY ChosenSequence
<1>3. A \in Seq({A[k] : k \in DOMAIN Chosen})
  BY <1>2
<1>4. DOMAIN A = 1..Len(A) /\ Len(A) \in Nat
  BY <1>3
<1>5. ASSUME NEW k \in DOMAIN A
      PROVE  {"id", "key"} \subseteq DOMAIN A[k] /\ A[k].key # None /\ A[k].id = name(k) /\ name(k) # None
  <2>1. k \in DOMAIN Chosen /\ A[k] = Stamp(Chosen[k], name(k)) /\ name(k) # None
    BY <1>5, ChosenSequence DEF Who
  <2>2. {"id", "key"} \subseteq DOMAIN Chosen[k]
    BY <2>1, ChosenSequence
  <2> HIDE DEF A, name
  <2> QED BY <2>1, <2>2 DEF Stamp
<1>6. A # <<>> => 1 \in DOMAIN A
  <2> HIDE DEF A
  <2> QED BY <1>3, <1>4
<1> QED BY <1>1, <1>4, <1>5, <1>6

\* The request of an execution bears the action's name and key, whatever is filled in.
LEMMA ExecuteNamed ==
  ASSUME NEW c \in Drivers, cast # "rollback", JobFine(c, job[c]), job[c].pc = "execute"
  PROVE  LET a == ActsOf(job[c].source)[job[c].k] IN
         Request(c).key = a.key /\ Request(c).id = a.id
<1> DEFINE j == job[c]
           a == j.actions[j.k]
           b == WithRunMetadata(a, <<c, "engine", j.k>>)
<1>1. /\ a = ActsOf(j.source)[j.k] /\ {"id", "key"} \subseteq DOMAIN a
      /\ a.key # None /\ a.id # None
  <2>1. cast = "parked" \/ j.source \in Drivers
    BY DEF JobFine
  <2>2. j.actions = ActsOf(j.source) /\ j.k \in DOMAIN ActsOf(j.source)
    BY DEF JobFine
  <2> DEFINE acts == ActsOf(j.source)
  <2>3. /\ {"id", "key"} \subseteq DOMAIN acts[j.k] /\ acts[j.k].key # None
        /\ acts[j.k].id = <<Who(j.source), j.k>> /\ <<Who(j.source), j.k>> # None
    BY <2>1, <2>2, ActsStamped
  <2> HIDE DEF acts
  <2> QED BY <2>2, <2>3 DEF acts
<1>2. Request(c) = EnsureActionDefaults(b, <<c, "praxis", j.k>>)
  BY DEF Request
<1> HIDE DEF a
<1>3. {"id", "key"} \subseteq DOMAIN b /\ b.key = a.key /\ b.id = a.id
  BY <1>1 DEF WithRunMetadata, EnsureActionDefaults
<1> HIDE DEF b
<1> DEFINE q == EnsureActionDefaults(b, <<c, "praxis", j.k>>)
<1>4. q.key = b.key /\ q.id = b.id
  BY <1>1, <1>3 DEF EnsureActionDefaults
<1> QED BY <1>1, <1>2, <1>3, <1>4

\* The request of an execution or an undo bears the name of its target.
LEMMA RequestNamed ==
  ASSUME NEW c \in Drivers, JobFine(c, job[c]), job[c].pc \in {"execute", "undo"}
  PROVE  Request(c).key = KeyOf(Target(job[c]))
<1>1. CASE cast = "rollback"
  <2>1. job[c].pc = "undo"
    BY <1>1 DEF JobFine, Places
  <2> QED BY <1>1, <2>1 DEF Request, KeyOf, Target
<1>2. CASE cast # "rollback"
  <2>1. job[c].pc = "execute"
    BY <1>2 DEF JobFine, Places
  <2> QED BY <1>2, <2>1, ExecuteNamed DEF KeyOf, Target
<1> QED BY <1>1, <1>2

\* The names are the same throughout a behaviour.
LEMMA NamesStay ==
  ASSUME cast' = cast
  PROVE  /\ \A s : ActsOf(s)' = ActsOf(s)
         /\ \A of : KeyOf(of)' = KeyOf(of)
<1>1. ASSUME NEW s PROVE ActsOf(s)' = ActsOf(s)
  BY DEF ActsOf, Parked, PlaybookActions
<1>2. ASSUME NEW of PROVE KeyOf(of)' = KeyOf(of)
  BY <1>1 DEF KeyOf
<1> QED BY <1>1, <1>2

LEMMA JobStays ==
  ASSUME cast' = cast, NEW d, NEW j, job'[d] = j, JobFine(d, j)
  PROVE  JobFine(d, job[d])'
BY NamesStay DEF JobFine, Places, Fields

LEMMA CallStays ==
  ASSUME cast' = cast, NEW d, job'[d].pc = job[d].pc,
         Target(job[d])' = Target(job[d]), call'[d] = call[d], CallFine(job[d], call[d])
  PROVE  CallFine(job[d], call[d])'
BY NamesStay DEF CallFine, LayerOf

\* A step of one goroutine that leaves the others' jobs and calls alone.
Only(c) == \A d \in Drivers \ {c} : job'[d] = job[d] /\ call'[d] = call[d]

LEMMA OthersFine ==
  ASSUME JobsFine, cast' = cast, NEW c \in Drivers, Only(c),
         DOMAIN job' = DOMAIN job, DOMAIN call' = DOMAIN call,
         JobFine(c, job[c])', CallFine(job[c], call[c])'
  PROVE  JobsFine'
<1>1. ASSUME NEW d \in Drivers, d # c
      PROVE  JobFine(d, job[d])' /\ CallFine(job[d], call[d])'
  <2>1. job'[d] = job[d] /\ call'[d] = call[d] /\ JobFine(d, job[d]) /\ CallFine(job[d], call[d])
    BY <1>1 DEF Only, JobsFine
  <2>2. Target(job[d])' = Target(job[d])
    BY <2>1 DEF Target
  <2> QED BY <2>1, <2>2, JobStays, CallStays
<1> QED BY <1>1 DEF JobsFine

\* However a call goes on or ends, it leaves a fine job if the next one is fine.
LEMMA ReplyFine ==
  ASSUME JobsFine, cast' = cast, NEW c \in Drivers, NEW a, NEW n, Reply(c, a, n), JobFine(c, n)
  PROVE  JobsFine'
<1>1. Only(c) /\ DOMAIN job' = DOMAIN job /\ DOMAIN call' = DOMAIN call
  BY DEF Reply, Only, JobsFine
<1>2. CASE job'[c] = n /\ call'[c] = None
  <2>1. JobFine(c, job[c])'
    BY <1>2, JobStays
  <2>2. CallFine(job[c], call[c])'
    BY <1>2 DEF CallFine
  <2> QED BY <1>1, <2>1, <2>2, OthersFine
<1>3. CASE job'[c] = job[c] /\ call' = [call EXCEPT ![c].attempt = @ + 1] /\ call[c] # None
  <2>1. JobFine(c, job[c]) /\ CallFine(job[c], call[c])
    BY DEF JobsFine
  <2>2. JobFine(c, job[c])'
    BY <1>3, <2>1, JobStays
  <2>3. "req" \in DOMAIN call[c] /\ call'[c] = [call[c] EXCEPT !.attempt = call[c].attempt + 1]
    BY <1>3, <2>1 DEF CallFine, JobsFine
  <2>4. "req" \in DOMAIN call'[c] /\ call'[c].req = call[c].req
    BY <2>3
  <2>5. Target(job[c])' = Target(job[c])
    BY <1>3 DEF Target
  <2>6. CallFine(job[c], call[c])'
    BY <1>3, <2>1, <2>4, <2>5, NamesStay DEF CallFine, LayerOf
  <2> QED BY <1>1, <2>2, <2>6, OthersFine
<1>4. Reply(c, a, n) => \/ job'[c] = n /\ call'[c] = None
                        \/ job'[c] = job[c] /\ call' = [call EXCEPT ![c].attempt = @ + 1] /\ call[c] # None
  BY DEF Reply, JobsFine
<1> QED BY <1>2, <1>3, <1>4

-----------------------------------------------------------------------------
\* What each step does to the jobs.

LEMMA StillFine ==
  ASSUME JobsFine, UNCHANGED <<cast, job, call>>
  PROVE  JobsFine'
<1>1. ASSUME NEW d \in Drivers PROVE JobFine(d, job[d])' /\ CallFine(job[d], call[d])'
  <2>1. JobFine(d, job[d]) /\ CallFine(job[d], call[d]) /\ job'[d] = job[d] /\ call'[d] = call[d]
    BY DEF JobsFine
  <2>2. Target(job[d])' = Target(job[d])
    BY <2>1 DEF Target
  <2> QED BY <2>1, <2>2, JobStays, CallStays
<1> QED BY <1>1 DEF JobsFine

\* A step that only moves a goroutine with no call under way.
LEMMA MoveFine ==
  ASSUME JobsFine, UNCHANGED <<cast, call>>, NEW c \in Drivers, call[c] = None,
         NEW n, job' = [job EXCEPT ![c] = n], JobFine(c, n)
  PROVE  JobsFine'
<1>1. Only(c) /\ DOMAIN job' = DOMAIN job /\ job'[c] = n
  BY DEF Only, JobsFine
<1>2. JobFine(c, job[c])'
  BY <1>1, JobStays
<1>3. CallFine(job[c], call[c])'
  BY DEF CallFine
<1> QED BY <1>1, <1>2, <1>3, OthersFine

LEMMA AdmitFine ==
  ASSUME JobsFine, NEW c \in Drivers, Admit(c)
  PROVE  JobsFine'
<1>1. UNCHANGED <<cast, job>> /\ Only(c) /\ DOMAIN call' = DOMAIN call /\ job[c].pc \in DOMAIN LayerOf
  BY DEF Admit, setting, Only, JobsFine
<1>2. "req" \in DOMAIN call'[c] /\ call'[c].req = Request(c)
  BY DEF Admit, JobsFine
<1>3. JobFine(c, job[c])'
  BY <1>1, JobStays DEF JobsFine
<1>4. Target(job[c])' = Target(job[c])
  BY <1>1 DEF Target
<1>5. job[c].pc \in {"execute", "undo"} => Request(c).key = KeyOf(Target(job[c]))
  BY RequestNamed DEF JobsFine
<1>6. CallFine(job[c], call[c])'
  BY <1>1, <1>2, <1>4, <1>5, NamesStay DEF CallFine, LayerOf
<1> QED BY <1>1, <1>3, <1>6, OthersFine

\* Where a goroutine may go next without anything else changing.
LEMMA GoFine ==
  ASSUME NEW c \in Drivers, JobFine(c, job[c]), NEW pc \in Places \ {"execute"},
         pc \in {"recall", "signals", "decide"} =>
           job[c].pc \in {"recall", "signals", "decide"}
  PROVE  JobFine(c, Go(c, pc))
BY DEF JobFine, Go, Fields

LEMMA FailFine ==
  ASSUME NEW c \in Drivers, JobFine(c, job[c])
  PROVE  JobFine(c, Fail(c))
BY GoFine DEF Fail, Places

LEMMA RecallFine ==
  ASSUME JobsFine, NEW c \in Drivers, Recall(c) \/ Signals(c)
  PROVE  JobsFine'
<1>1. cast' = cast /\ JobFine(c, job[c]) /\ job[c].pc \in {"recall", "signals"}
  BY DEF Recall, Signals, Ask, Frame, setting, JobsFine
<1>2. ASSUME NEW a, NEW pc \in {"done", "signals", "decide"}, Reply(c, a, Then(c, a, pc)) PROVE JobsFine'
  <2>1. pc \in Places \ {"execute"}
    BY <1>1 DEF JobFine, Places
  <2>2. JobFine(c, Then(c, a, pc))
    BY <1>1, <2>1, GoFine, FailFine DEF Then
  <2> QED BY <1>1, <1>2, <2>2, ReplyFine
<1>3. CASE Recall(c)
  <2>1. PICK a \in Outcomes : Reply(c, a, Then(c, a, IF cast = "token" THEN "done" ELSE "signals"))
    BY <1>3 DEF Recall
  <2>2. (IF cast = "token" THEN "done" ELSE "signals") \in {"done", "signals", "decide"}
    OBVIOUS
  <2> QED BY <1>2, <2>1, <2>2
<1>4. CASE Signals(c)
  <2>1. PICK a \in AnswersOf("chronos") : Reply(c, a, Then(c, a, "decide"))
    BY <1>4 DEF Signals
  <2> QED BY <1>2, <2>1
<1> QED BY <1>3, <1>4

LEMMA DecideFine ==
  ASSUME JobsFine, NEW c \in Drivers, Decide(c)
  PROVE  JobsFine'
<1>1. cast' = cast /\ JobFine(c, job[c]) /\ job[c].pc = "decide"
  BY DEF Decide, Ask, Frame, setting, JobsFine
<1>2. cast \notin {"parked", "rollback"} /\ job[c].source = c /\ job[c].k = 1
  BY <1>1 DEF JobFine, Places
<1> DEFINE decided(id) == [Go(c, IF ActsOf(c) = <<>> THEN "done" ELSE "execute") EXCEPT
                             !.decision = id, !.actions = ActsOf(c)]
<1>3. \/ \E a, id : Reply(c, a, decided(id))
      \/ \E a : Reply(c, a, Fail(c))
  BY <1>2 DEF Decide, ActsOf, PlaybookActions
<1>4. ASSUME NEW id PROVE JobFine(c, decided(id))
  <2> DEFINE acts == ActsOf(c)
  <2>1. acts # <<>> => 1 \in DOMAIN acts
    BY ActsStamped
  <2> HIDE DEF acts
  <2> QED BY <1>1, <1>2, <2>1 DEF JobFine, Go, Fields, Places, acts
<1> QED BY <1>1, <1>3, <1>4, ReplyFine, FailFine

\* Praxis performs a request under the name of its target, or has done so before.
LEMMA PerformFine ==
  ASSUME EffectsFine, cast' = cast, NEW req, NEW of, NEW status, req.key = KeyOf(of),
         effects' = Perform(req, of, status)
  PROVE  EffectsFine'
<1>1. CASE Performed(req) # {}
  BY <1>1, NamesStay DEF EffectsFine, Perform
<1>2. CASE Performed(req) = {}
  <2> DEFINE e == [key |-> req.key, of |-> of, status |-> status]
  <2>1. effects' = Append(effects, e)
    BY <1>2 DEF Perform
  <2>2. PICK S : effects \in Seq(S)
    BY DEF EffectsFine
  <2>3. effects' \in Seq(S \cup {e})
    BY <2>1, <2>2
  <2>4. /\ DOMAIN effects' = DOMAIN effects \cup {Len(effects) + 1}
        /\ \A i \in DOMAIN effects : effects'[i] = effects[i]
        /\ effects'[Len(effects) + 1] = e
    BY <2>1, <2>2
  <2>5. \A i \in DOMAIN effects : effects[i].key # req.key
    BY <1>2 DEF Performed
  <2>6. e.key = req.key /\ e.key = KeyOf(e.of)
    OBVIOUS
  <2> HIDE DEF e
  <2>7. \A i \in DOMAIN effects' : effects'[i].key = KeyOf(effects'[i].of)
    BY <2>4, <2>6 DEF EffectsFine
  <2>8. \A i, k \in DOMAIN effects' : effects'[i].key = effects'[k].key => i = k
    BY <2>4, <2>5, <2>6 DEF EffectsFine
  <2> QED BY <2>3, <2>7, <2>8, NamesStay DEF EffectsFine
<1> QED BY <1>1, <1>2

LEMMA EffectsStay ==
  ASSUME EffectsFine, UNCHANGED <<cast, effects>>
  PROVE  EffectsFine'
BY NamesStay DEF EffectsFine

LEMMA ExecuteFine ==
  ASSUME JobsFine, EffectsFine, NEW c \in Drivers, Execute(c)
  PROVE  JobsFine' /\ EffectsFine'
<1>1. cast' = cast /\ JobFine(c, job[c]) /\ CallFine(job[c], call[c]) /\ job[c].pc = "execute"
  BY DEF Execute, Ask, Frame, setting, JobsFine
<1>2. cast # "rollback"
  BY <1>1 DEF JobFine, Places
<1>3. \/ effects' = effects
      \/ call[c] # None /\ \E status : effects' = Perform(call[c].req, <<job[c].source, job[c].k>>, status)
  BY DEF Execute, Serve
<1>4. (\E a : Reply(c, a, Fail(c))) \/ (\E a, res : Reply(c, a, Acted(c, res)))
  <2>1. PICK a \in Outcomes, status \in Statuses :
          Reply(c, a, IF Succeeds(a) THEN Acted(c, Result(c, a, status)) ELSE Fail(c))
    BY DEF Execute
  <2>2. CASE Succeeds(a)
    BY <2>1, <2>2
  <2>3. CASE ~Succeeds(a)
    BY <2>1, <2>3
  <2> QED BY <2>2, <2>3
<1>5. call[c] # None => call[c].req.key = KeyOf(<<job[c].source, job[c].k>>)
  BY <1>1, <1>2 DEF CallFine, Target
<1>6. EffectsFine'
  BY <1>1, <1>3, <1>5, PerformFine, EffectsStay
<1>7. ASSUME NEW res PROVE JobFine(c, Acted(c, res))
  <2> DEFINE j == [job[c] EXCEPT !.results = Append(job[c].results, res)]
  <2>1. /\ DOMAIN j = Fields /\ j.pc = "execute" /\ j.source = job[c].source
        /\ j.actions = job[c].actions /\ j.k = job[c].k
    BY <1>1 DEF JobFine, Fields
  <2>2. DOMAIN j.actions = 1..Len(j.actions) /\ Len(j.actions) \in Nat /\ j.k \in DOMAIN j.actions
    BY <1>1, <1>2, <2>1, ActsStamped DEF JobFine
  <2>3. \/ Acted(c, res) = [j EXCEPT !.pc = "failed"]
        \/ j.k < Len(j.actions) /\ Acted(c, res) = [j EXCEPT !.k = j.k + 1]
        \/ Acted(c, res) = [j EXCEPT !.pc = "check", !.k = 1]
    BY DEF Acted
  <2> HIDE DEF j
  <2>4. {"failed", "check"} \subseteq Places /\ j.pc \in Places
    BY <1>2, <2>1 DEF Places
  <2>5. cast # "parked" => j.source = c
    BY <1>1, <2>1 DEF JobFine
  <2>6. j.actions = ActsOf(j.source)
    BY <1>1, <2>1 DEF JobFine
  <2>7. CASE Acted(c, res) = [j EXCEPT !.pc = "failed"]
    BY <2>1, <2>4, <2>5, <2>7 DEF JobFine, Fields
  <2>8. CASE j.k < Len(j.actions) /\ Acted(c, res) = [j EXCEPT !.k = j.k + 1]
    <3>1. j.k + 1 \in DOMAIN j.actions
      BY <2>2, <2>8
    <3> QED BY <2>1, <2>4, <2>5, <2>6, <2>8, <3>1 DEF JobFine, Fields
  <2>9. CASE Acted(c, res) = [j EXCEPT !.pc = "check", !.k = 1]
    BY <2>1, <2>4, <2>5, <2>9 DEF JobFine, Fields
  <2> QED BY <2>3, <2>7, <2>8, <2>9
<1> QED BY <1>1, <1>4, <1>6, <1>7, ReplyFine, FailFine

LEMMA AppendFine ==
  ASSUME JobsFine, NEW c \in Drivers, AppendOutcome(c)
  PROVE  JobsFine'
<1>1. cast' = cast /\ JobFine(c, job[c]) /\ job[c].pc = "append"
  BY DEF AppendOutcome, Ask, Frame, setting, JobsFine
<1>2. JobFine(c, Tried(c)) /\ JobFine(c, Go(c, "mark")) /\ JobFine(c, Fail(c))
  <2>1. cast # "rollback"
    BY <1>1 DEF JobFine, Places
  <2> QED BY <1>1, <2>1 DEF JobFine, Tried, Go, Fail, Fields, Places
<1>3. PICK a : Reply(c, a, Tried(c)) \/ Reply(c, a, Go(c, "mark")) \/ Reply(c, a, Fail(c))
  <2>1. PICK a \in Outcomes : Reply(c, a, CASE Succeeds(a) -> Go(c, "mark")
                                            [] ~Succeeds(a) /\ RetriesWrite(c, a) -> Tried(c)
                                            [] OTHER -> Fail(c))
    BY DEF AppendOutcome
  <2>2. CASE Succeeds(a)
    BY <2>1, <2>2
  <2>3. CASE ~Succeeds(a) /\ RetriesWrite(c, a)
    BY <2>1, <2>3
  <2>4. CASE ~Succeeds(a) /\ ~RetriesWrite(c, a)
    BY <2>1, <2>4
  <2> QED BY <2>2, <2>3, <2>4
<1> QED BY <1>1, <1>2, <1>3, ReplyFine

\* The writer's two steps that ask nobody.
LEMMA WriterFine ==
  ASSUME JobsFine, NEW c \in Drivers, Check(c) \/ Mark(c)
  PROVE  JobsFine'
<1>1. JobFine(c, job[c]) /\ CallFine(job[c], call[c]) /\ job[c].pc \in {"check", "mark"}
  BY DEF Check, Mark, JobsFine
<1>2. UNCHANGED <<cast, call>> /\ call[c] = None
  BY <1>1 DEF Check, Mark, CallFine, LayerOf, setting
<1>3. PICK n \in {Fail(c), Written(c), Go(c, "append")} : job' = [job EXCEPT ![c] = n]
  BY DEF Check, Checked, Mark
<1>4. {"failed", "done", "append", "check"} \subseteq Places
  BY <1>1 DEF JobFine, Places
<1>5. JobFine(c, Written(c)) /\ JobFine(c, Fail(c)) /\ JobFine(c, Go(c, "append"))
  BY <1>1, <1>4 DEF JobFine, Written, Fail, Go, Fields
<1> QED BY <1>2, <1>3, <1>5, MoveFine

LEMMA RollbackMoves ==
  ASSUME JobsFine, NEW c \in Drivers, SkipRun(c) \/ RunAgain(c) \/ CallAgain(c)
  PROVE  JobsFine'
<1>1. JobFine(c, job[c]) /\ CallFine(job[c], call[c])
  BY DEF JobsFine
<1>2. UNCHANGED <<cast, call>> /\ call[c] = None
  BY <1>1 DEF SkipRun, RunAgain, CallAgain, Ended, CallFine, LayerOf, setting
<1>3. CASE SkipRun(c)
  BY <1>1, <1>2, <1>3, MoveFine, GoFine DEF SkipRun, Places
<1>4. CASE RunAgain(c)
  <2>1. JobFine(c, [Idle("inspect", c, <<>>) EXCEPT !.calls = job[c].calls + 1])
    BY <1>4 DEF RunAgain, JobFine, Idle, Fields, Places
  <2> QED BY <1>2, <1>4, <2>1, MoveFine DEF RunAgain
<1>5. CASE CallAgain(c)
  <2>1. JobFine(c, Idle("recall", c, <<>>))
    BY <1>5 DEF CallAgain, JobFine, Idle, Fields, Places
  <2> QED BY <1>2, <1>5, <2>1, MoveFine DEF CallAgain
<1> QED BY <1>3, <1>4, <1>5

LEMMA InspectFine ==
  ASSUME JobsFine, NEW c \in Drivers, Inspect(c)
  PROVE  JobsFine'
<1> DEFINE undo == [Go(c, "undo") EXCEPT !.actions = Compensated, !.k = 1, !.results = <<>>]
<1>1. cast' = cast /\ JobFine(c, job[c]) /\ job[c].pc = "inspect"
  BY DEF Inspect, Ask, Frame, setting, JobsFine
<1>2. cast = "rollback"
  BY <1>1 DEF JobFine, Places
<1>3. JobFine(c, undo) /\ JobFine(c, Go(c, "done")) /\ JobFine(c, Fail(c))
  BY <1>1, <1>2 DEF JobFine, Go, Fail, Fields, Places
<1>4. PICK a : Reply(c, a, undo) \/ Reply(c, a, Go(c, "done")) \/ Reply(c, a, Fail(c))
  <2>1. PICK a, signals :
          Reply(c, a, IF Succeeds(a)
                      THEN CASE ~AnyRegression(signals) -> Go(c, "done")
                             [] AnyRegression(signals) /\ Compensated = <<>> -> Fail(c)
                             [] OTHER -> undo
                      ELSE Fail(c))
    BY DEF Inspect
  <2>2. CASE ~Succeeds(a)
    BY <2>1, <2>2
  <2>3. CASE Succeeds(a) /\ ~AnyRegression(signals)
    BY <2>1, <2>3
  <2>4. CASE Succeeds(a) /\ AnyRegression(signals) /\ Compensated = <<>>
    BY <2>1, <2>4
  <2>5. CASE Succeeds(a) /\ AnyRegression(signals) /\ Compensated # <<>>
    BY <2>1, <2>5
  <2> QED BY <2>2, <2>3, <2>4, <2>5
<1> QED BY <1>1, <1>3, <1>4, ReplyFine

LEMMA UndoFine ==
  ASSUME JobsFine, EffectsFine, NEW c \in Drivers, Undo(c)
  PROVE  JobsFine' /\ EffectsFine'
<1> DEFINE undone(res) == [Go(c, "report") EXCEPT !.results = Append(@, res)]
<1>1. cast' = cast /\ JobFine(c, job[c]) /\ CallFine(job[c], call[c]) /\ job[c].pc = "undo"
  BY DEF Undo, Ask, Frame, setting, JobsFine
<1>2. cast = "rollback"
  BY <1>1 DEF JobFine, Places
<1>3. \/ effects' = effects
      \/ call[c] # None /\ \E status : effects' = Perform(call[c].req, <<Run, job[c].actions[job[c].k]>>, status)
  BY DEF Undo, Serve
<1>4. (\E a : Reply(c, a, Fail(c))) \/ (\E a, res : Reply(c, a, undone(res)))
  <2>1. PICK a \in Outcomes, status \in Statuses :
          Reply(c, a, IF Succeeds(a) THEN undone(Result(c, a, status)) ELSE Fail(c))
    BY DEF Undo, UndoFailed
  <2>2. CASE Succeeds(a)
    BY <2>1, <2>2
  <2>3. CASE ~Succeeds(a)
    BY <2>1, <2>3
  <2> QED BY <2>2, <2>3
<1>5. call[c] # None => call[c].req.key = KeyOf(<<Run, job[c].actions[job[c].k]>>)
  BY <1>1, <1>2 DEF CallFine, Target
<1>6. EffectsFine'
  BY <1>1, <1>3, <1>5, PerformFine, EffectsStay
<1>7. ASSUME NEW res PROVE JobFine(c, undone(res))
  BY <1>1, <1>2 DEF JobFine, Go, Fields, Places
<1> QED BY <1>1, <1>4, <1>6, <1>7, ReplyFine, FailFine

LEMMA ReportFine ==
  ASSUME JobsFine, NEW c \in Drivers, Report(c)
  PROVE  JobsFine'
<1> DEFINE more == [Go(c, "undo") EXCEPT !.k = job[c].k + 1]
<1>1. cast' = cast /\ JobFine(c, job[c]) /\ job[c].pc = "report"
  BY DEF Report, Ask, Frame, setting, JobsFine
<1>2. cast = "rollback"
  BY <1>1 DEF JobFine, Places
<1>3. JobFine(c, more) /\ JobFine(c, Go(c, "done"))
  BY <1>1, <1>2 DEF JobFine, Go, Fields, Places
<1>4. PICK a : Reply(c, a, more) \/ Reply(c, a, Go(c, "done"))
  <2>1. [Go(c, "undo") EXCEPT !.k = @ + 1] = more
    BY <1>1 DEF Go, JobFine, Fields
  <2>2. PICK a \in Outcomes :
          Reply(c, a, IF job[c].k < Len(job[c].actions) THEN more ELSE Go(c, "done"))
    BY <2>1 DEF Report
  <2> QED BY <2>2
<1> QED BY <1>1, <1>3, <1>4, ReplyFine

LEMMA JobsInit == Init => JobsFine /\ EffectsFine
<1> SUFFICES ASSUME Init PROVE JobsFine /\ EffectsFine
  OBVIOUS
<1>1. EffectsFine
  <2>1. effects = <<>> /\ <<>> \in Seq({})
    BY DEF Init
  <2> QED BY <2>1 DEF EffectsFine
<1>2. cast \in {"loop", "parked", "rollback", "token"} /\ \A d \in Drivers : call[d] = None
  BY DEF Init
<1>3. ASSUME NEW d \in Drivers PROVE JobFine(d, job[d])
  <2>1. CASE cast = "parked"
    <3>1. job[d] = Idle("execute", "parked", Parked)
      BY <2>1 DEF Init
    <3>2. ActsOf("parked") = Parked /\ 1 \in DOMAIN Parked
      <4>1. ActsOf("parked") = Parked
        BY <2>1 DEF ActsOf
      <4> QED BY <2>1, <4>1, ActsStamped, PlaybookAssumption
    <3> QED BY <2>1, <3>1, <3>2 DEF JobFine, Idle, Fields, Places
  <2>2. CASE cast = "rollback"
    <3>1. job[d] = Idle("inspect", d, <<>>)
      BY <2>2 DEF Init
    <3> QED BY <2>2, <3>1 DEF JobFine, Idle, Fields, Places
  <2>3. CASE cast \in {"loop", "token"}
    <3>1. job[d] = Idle("recall", d, <<>>)
      BY <2>3 DEF Init
    <3> QED BY <2>3, <3>1 DEF JobFine, Idle, Fields, Places
  <2> QED BY <1>2, <2>1, <2>2, <2>3
<1>4. DOMAIN job = Drivers /\ DOMAIN call = Drivers
  BY DEF Init
<1> QED BY <1>1, <1>2, <1>3, <1>4 DEF JobsFine, CallFine

\* Every step keeps the names: of the requests under way and of the effects.
LEMMA NamesKept == JobsFine /\ EffectsFine /\ [Next]_vars => JobsFine' /\ EffectsFine'
<1> SUFFICES ASSUME JobsFine, EffectsFine, [Next]_vars PROVE JobsFine' /\ EffectsFine'
  OBVIOUS
<1>1. ASSUME NEW c \in Clients, Works(c) PROVE JobsFine' /\ EffectsFine'
  <2>1. c \in Drivers
    BY DriversAssumption DEF Clients
  <2>2. CASE Admit(c)
    BY <2>1, <2>2, AdmitFine, EffectsStay DEF Admit, setting, remotes
  <2>3. CASE Recall(c) \/ Signals(c)
    BY <2>1, <2>3, RecallFine, EffectsStay DEF Recall, Signals, Ask, Frame, setting, remotes
  <2>4. CASE Decide(c)
    BY <2>1, <2>4, DecideFine, EffectsStay DEF Decide, Ask, Frame, setting, remotes
  <2>5. CASE Check(c) \/ Mark(c)
    BY <2>1, <2>5, WriterFine, EffectsStay DEF Check, Mark, setting, remotes
  <2>6. CASE AppendOutcome(c)
    BY <2>1, <2>6, AppendFine, EffectsStay DEF AppendOutcome, Ask, Frame, setting
  <2>7. CASE SkipRun(c)
    BY <2>1, <2>7, RollbackMoves, EffectsStay DEF SkipRun, setting, remotes
  <2>8. CASE Inspect(c)
    BY <2>1, <2>8, InspectFine, EffectsStay DEF Inspect, Ask, Frame, setting, remotes
  <2>9. CASE Report(c)
    BY <2>1, <2>9, ReportFine, EffectsStay DEF Report, Ask, Frame, setting
  <2>10. CASE TokenCheck(c) \/ TokenMint(c) \/ TokenStore(c) \/ TokenDate(c) \/ TokenReturn(c)
    BY <2>10, StillFine, EffectsStay
    DEF TokenCheck, TokenMint, TokenStore, TokenDate, TokenReturn, Token, setting, remotes
  <2> QED
    BY <1>1, <2>1, <2>2, <2>3, <2>4, <2>5, <2>6, <2>7, <2>8, <2>9, <2>10,
       ExecuteFine, UndoFine DEF Works
<1>2. ASSUME NEW c \in Clients, RunAgain(c) \/ CallAgain(c) PROVE JobsFine' /\ EffectsFine'
  <2>1. c \in Drivers
    BY DriversAssumption DEF Clients
  <2> QED BY <1>2, <2>1, RollbackMoves, EffectsStay DEF RunAgain, CallAgain, setting, remotes
<1>3. ASSUME NEW l \in Layers, Cooldown(l) \/ Interval(l) PROVE JobsFine' /\ EffectsFine'
  BY <1>3, StillFine, EffectsStay DEF Cooldown, Interval, setting, remotes
<1>4. CASE Tick
  BY <1>4, StillFine, EffectsStay DEF Tick, setting, remotes
<1>5. CASE UNCHANGED vars
  BY <1>5, StillFine, EffectsStay DEF vars, setting, remotes
<1> QED BY <1>1, <1>2, <1>3, <1>4, <1>5 DEF Next

\* An action takes effect at most once at Praxis (EnsureActionDefaults, toWireAction,
\* actionID): however many goroutines resume a decision and however often each
\* request, stage or rollback is repeated, its name is the same.
THEOREM EffectsOnce == Spec => []EffectOnce
<1>1. EffectsFine => EffectOnce
  BY DEF EffectsFine, EffectOnce
<1> QED BY JobsInit, NamesKept, <1>1, PTL DEF Spec

-----------------------------------------------------------------------------
(* Compensation.  The compensator's loops are folds; what they hand on     *)
(* names every capability once, so that Praxis's effects can be counted.   *)

Meets == INSTANCE FoldFacts WITH Op <- LAMBDA c, x, e : Meet(x, e)
Visits == INSTANCE FoldFacts WITH Op <- LAMBDA c, x, e : Visit(x, e)
Plans == INSTANCE FoldFacts WITH Op <- LAMBDA c, x, e : Plan(x, e)

Distinct(S) == {s \in Seq(S) : \A i, k \in DOMAIN s : s[i] = s[k] => i = k}

LEMMA EmptyDistinct ==
  ASSUME NEW S
  PROVE  <<>> \in Distinct(S) /\ DOMAIN <<>> = {}
<1>1. <<>> \in Seq(S) /\ DOMAIN <<>> = {}
  OBVIOUS
<1> QED BY <1>1 DEF Distinct

LEMMA AppendFacts ==
  ASSUME NEW S, NEW s \in Seq(S), NEW x
  PROVE  /\ Len(Append(s, x)) = Len(s) + 1 /\ DOMAIN Append(s, x) = DOMAIN s \cup {Len(s) + 1}
         /\ Append(s, x)[Len(s) + 1] = x /\ \A i \in DOMAIN s : Append(s, x)[i] = s[i]
<1>1. s \in Seq(S \cup {x}) /\ x \in S \cup {x}
  OBVIOUS
<1> QED BY <1>1

LEMMA AppendDistinct ==
  ASSUME NEW S, NEW s \in Distinct(S), NEW x \in S, \A i \in DOMAIN s : s[i] # x
  PROVE  Append(s, x) \in Distinct(S)
<1> DEFINE t == Append(s, x)
<1>1. s \in Seq(S) /\ \A i, k \in DOMAIN s : s[i] = s[k] => i = k
  BY DEF Distinct
<1>2. /\ t \in Seq(S) /\ DOMAIN t = DOMAIN s \cup {Len(s) + 1} /\ t[Len(s) + 1] = x
      /\ \A i \in DOMAIN s : t[i] = s[i]
  BY <1>1
<1> HIDE DEF t
<1>3. \A i, k \in DOMAIN t : t[i] = t[k] => i = k
  BY <1>1, <1>2
<1> QED BY <1>2, <1>3 DEF Distinct, t

LEMMA MeetDistinct ==
  ASSUME NEW S, NEW caps \in Distinct(S), NEW e, e.cap \in S
  PROVE  Meet(caps, e) \in Distinct(S)
<1>1. e.cap \notin ToSet(caps) => \A i \in DOMAIN caps : caps[i] # e.cap
  BY DEF ToSet
<1> QED BY <1>1, AppendDistinct DEF Meet

LEMMA VisitDistinct ==
  ASSUME NEW S, NEW caps \in Distinct(S), NEW st, st.actions \in Seq(ToSet(st.actions)),
         \A k \in DOMAIN st.actions : st.actions[k].cap \in S
  PROVE  Visit(caps, st) \in Distinct(S)
<1> DEFINE acts == st.actions
           n == Len(acts)
           P == (0..n) \X Distinct(S)
<1>1. n \in Nat /\ DOMAIN acts = 1..n
  OBVIOUS
<1>2. Meets!Carries(0, P, acts, n)
  <2>1. ASSUME NEW i \in 1..n, NEW x, <<i - 1, x>> \in P PROVE <<i, Meet(x, acts[i])>> \in P
    <3>1. x \in Distinct(S) /\ i \in 0..n /\ acts[i].cap \in S
      BY <1>1, <2>1
    <3>2. Meet(x, acts[i]) \in Distinct(S)
      BY <3>1, MeetDistinct
    <3> QED BY <3>1, <3>2
  <2> HIDE DEF P, n, acts
  <2> QED BY <2>1 DEF Meets!Carries
<1>3. <<0, caps>> \in P
  BY <1>1
<1>4. <<n, Meets!Fold(0, caps, acts)>> \in P
  <2> HIDE DEF P, n, acts
  <2> QED BY <1>1, <1>2, <1>3, Meets!FoldKeeps
<1>5. Meets!Fold(0, caps, acts) = FoldLeft(Meet, caps, acts)
  BY DEF Meets!Fold, FoldLeft, MapThenFoldSet, Meets!FoldLeft, Meets!MapThenFoldSet, Meets!Max, Max
<1>6. FoldLeft(Meet, caps, acts) \in Distinct(S)
  <2> HIDE DEF acts
  <2> QED BY <1>4, <1>5
<1> QED BY <1>6 DEF Visit

\* Every capability a history has.
CapsOf(steps) == UNION {{st.actions[k].cap : k \in DOMAIN st.actions} : st \in ToSet(steps)}

LEMMA ActedDistinct ==
  ASSUME NEW h \in Histories
  PROVE  CapabilitiesActed(h.steps) \in Distinct(CapsOf(h.steps))
<1> DEFINE steps == h.steps
           n == Len(steps)
           S == CapsOf(steps)
           P == (0..n) \X Distinct(S)
<1>1. n \in Nat /\ DOMAIN steps = 1..n
  BY HistoriesAssumption
<1>2. Visits!Carries(0, P, steps, n)
  <2>1. ASSUME NEW i \in 1..n, NEW x, <<i - 1, x>> \in P PROVE <<i, Visit(x, steps[i])>> \in P
    <3>1. x \in Distinct(S) /\ i \in 0..n /\ i \in DOMAIN steps
      BY <1>1, <2>1
    <3>2. steps[i].actions \in Seq(ToSet(steps[i].actions))
      BY <3>1, HistoriesAssumption
    <3>3. \A k \in DOMAIN steps[i].actions : steps[i].actions[k].cap \in S
      BY <3>1 DEF CapsOf, ToSet
    <3>4. Visit(x, steps[i]) \in Distinct(S)
      <4> HIDE DEF S, steps
      <4> QED BY <3>1, <3>2, <3>3, VisitDistinct
    <3> QED BY <3>1, <3>4
  <2> HIDE DEF P, n, steps
  <2> QED BY <2>1 DEF Visits!Carries
<1>3. <<0, <<>>>> \in P
  BY <1>1, EmptyDistinct
<1>4. <<n, Visits!Fold(0, <<>>, steps)>> \in P
  <2> HIDE DEF P, n, steps
  <2> QED BY <1>1, <1>2, <1>3, Visits!FoldKeeps
<1>5. Visits!Fold(0, <<>>, steps) = FoldLeft(Visit, <<>>, steps)
  BY DEF Visits!Fold, FoldLeft, MapThenFoldSet, Visits!FoldLeft, Visits!MapThenFoldSet, Visits!Max, Max
<1>6. FoldLeft(Visit, <<>>, steps) \in Distinct(S)
  <2> HIDE DEF steps, S
  <2> QED BY <1>4, <1>5
<1> QED BY <1>6 DEF CapabilitiesActed

\* The plan keeps the order of what was acted, so it names nothing twice either.
LEMMA CompensatedDistinct ==
  ASSUME history \in Histories
  PROVE  \E S : Compensated \in Distinct(S)
<1> DEFINE acted == CapabilitiesActed(history.steps)
           n == Len(acted)
           S == CapsOf(history.steps)
           Within(i, s) == \A k \in DOMAIN s : \E m \in 1..i : s[k] = acted[m]
           P == {p \in (0..n) \X Distinct(S) : Within(p[1], p[2])}
<1>1. acted \in Distinct(S)
  BY ActedDistinct
<1>2. /\ n \in Nat /\ DOMAIN acted = 1..n /\ acted \in Seq(S)
      /\ \A i, k \in DOMAIN acted : acted[i] = acted[k] => i = k
  <2> HIDE DEF acted, S
  <2> QED BY <1>1 DEF Distinct
<1>3. Plans!Carries(0, P, acted, n)
  <2>1. ASSUME NEW i \in 1..n, NEW x, <<i - 1, x>> \in P PROVE <<i, Plan(x, acted[i])>> \in P
    <3> HIDE DEF acted, n, S
    <3>1. x \in Distinct(S) /\ Within(i - 1, x) /\ i \in 0..n /\ i \in 1..n /\ acted[i] \in S
      BY <1>2, <2>1
    <3>2. Within(i, x) /\ \A k \in DOMAIN x : x[k] # acted[i]
      BY <1>2, <3>1
    <3>3. Append(x, acted[i]) \in Distinct(S)
      BY <3>1, <3>2, AppendDistinct
    <3>4. Within(i, Append(x, acted[i]))
      <4>1. x \in Seq(S)
        BY <3>1 DEF Distinct
      <4>2. /\ DOMAIN Append(x, acted[i]) = DOMAIN x \cup {Len(x) + 1}
            /\ Append(x, acted[i])[Len(x) + 1] = acted[i]
            /\ \A k \in DOMAIN x : Append(x, acted[i])[k] = x[k]
        BY <4>1
      <4> QED BY <3>1, <3>2, <4>2
    <3>5. Plan(x, acted[i]) \in Distinct(S) /\ Within(i, Plan(x, acted[i]))
      <4> HIDE DEF Within
      <4> QED BY <3>1, <3>2, <3>3, <3>4 DEF Plan
    <3> HIDE DEF Within
    <3> QED BY <3>1, <3>5
  <2> HIDE DEF P, n, acted
  <2> QED BY <2>1 DEF Plans!Carries
<1>4. <<0, <<>>>> \in P
  <2> HIDE DEF acted, n, S
  <2> QED BY <1>2, EmptyDistinct
<1>5. <<n, Plans!Fold(0, <<>>, acted)>> \in P
  <2> HIDE DEF P, n, acted
  <2> QED BY <1>2, <1>3, <1>4, Plans!FoldKeeps
<1>6. Plans!Fold(0, <<>>, acted) = FoldLeft(Plan, <<>>, acted)
  BY DEF Plans!Fold, FoldLeft, MapThenFoldSet, Plans!FoldLeft, Plans!MapThenFoldSet, Plans!Max, Max
<1>7. FoldLeft(Plan, <<>>, acted) \in Distinct(S)
  <2> HIDE DEF acted, S, n
  <2> QED BY <1>5, <1>6
<1> QED BY <1>7 DEF Compensated

\* What the compensator knows at each place of its plan, when Praxis performed n actions.
Knows(j, n, plan) ==
  /\ j.pc = "inspect" => j.results = <<>>
  /\ j.pc \in {"undo", "report"} => j.actions = plan /\ j.k \in DOMAIN plan
  /\ j.pc = "undo" => n >= j.k - 1
  /\ j.pc = "report" => n >= j.k
  /\ j.pc = "done" /\ j.results # <<>> => n >= Len(plan)
InOrder ==
  /\ Len(effects) <= Len(Compensated)
  /\ \A i \in DOMAIN effects : effects[i].of = <<Run, Compensated[i]>>
RollbackInv ==
  /\ history \in Histories
  /\ cast = "rollback" =>
       InOrder /\ \A c \in Drivers : Knows(job[c], Len(effects), Compensated)

LEMMA EffectsCounted ==
  ASSUME EffectsFine
  PROVE  Len(effects) \in Nat /\ DOMAIN effects = 1..Len(effects)
BY DEF EffectsFine

LEMMA PlanCounted ==
  ASSUME history \in Histories
  PROVE  /\ Len(Compensated) \in Nat /\ DOMAIN Compensated = 1..Len(Compensated)
         /\ \A i, k \in DOMAIN Compensated : Compensated[i] = Compensated[k] => i = k
BY CompensatedDistinct DEF Distinct

\* What was known stays known when more is performed.
LEMMA KnowsMore ==
  ASSUME NEW plan, Len(plan) \in Nat, DOMAIN plan = 1..Len(plan),
         NEW j, NEW n \in Nat, NEW m \in Nat, m >= n, Knows(j, n, plan)
  PROVE  Knows(j, m, plan)
<1>1. j.pc \in {"undo", "report"} => j.k \in Int
  BY DEF Knows
<1> QED BY <1>1 DEF Knows

\* A step that changes the job of one goroutine, to one that knows what it should.
Moves(c, n) ==
  /\ job' = job \/ job' = [job EXCEPT ![c] = n]
  /\ UNCHANGED <<cast, history>>

LEMMA MoveKnows ==
  ASSUME RollbackInv, JobsFine, EffectsFine, EffectsFine', cast = "rollback",
         NEW c \in Drivers, NEW n, Moves(c, n), Knows(n, Len(effects'), Compensated), InOrder',
         Len(effects') >= Len(effects)
  PROVE  RollbackInv'
<1>1. Len(effects) \in Nat /\ Len(effects') \in Nat
  BY DEF EffectsFine
<1>2. history' = history /\ history \in Histories /\ Compensated' = Compensated
  BY DEF RollbackInv, Moves, Compensated
<1>3. ASSUME NEW d \in Drivers PROVE Knows(job'[d], Len(effects'), Compensated)
  <2>1. CASE job'[d] = job[d]
    <3>1. Knows(job[d], Len(effects), Compensated)
      BY DEF RollbackInv
    <3> QED BY <1>1, <1>2, <2>1, <3>1, PlanCounted, KnowsMore
  <2>2. job'[d] = job[d] \/ job'[d] = n
    BY DEF Moves, JobsFine
  <2> QED BY <2>1, <2>2
<1>4. \A d \in Drivers : Knows(job[d], Len(effects), Compensated)'
  BY <1>2, <1>3
<1> QED BY <1>2, <1>4 DEF RollbackInv

LEMMA OrderStays ==
  ASSUME InOrder, UNCHANGED <<history, effects>>
  PROVE  InOrder'
BY DEF InOrder, Compensated

LEMMA ReplyMoves ==
  ASSUME NEW c, NEW a, NEW n, Reply(c, a, n), Frame
  PROVE  Moves(c, n)
BY DEF Reply, Moves, Frame, setting

LEMMA MoveQuietly ==
  ASSUME RollbackInv, JobsFine, EffectsFine, cast = "rollback", effects' = effects,
         NEW c \in Drivers, NEW n, Moves(c, n), Knows(n, Len(effects), Compensated)
  PROVE  RollbackInv'
<1>1. EffectsFine'
  BY EffectsStay DEF Moves
<1>2. InOrder /\ Len(effects) \in Nat
  BY EffectsCounted DEF RollbackInv
<1>3. InOrder'
  BY <1>2, OrderStays DEF Moves
<1>4. Len(effects') >= Len(effects) /\ Knows(n, Len(effects'), Compensated)
  BY <1>2
<1> QED BY <1>1, <1>3, <1>4, MoveKnows

LEMMA InspectKnows ==
  ASSUME RollbackInv, JobsFine, EffectsFine, cast = "rollback", NEW c \in Drivers,
         Inspect(c) \/ SkipRun(c)
  PROVE  RollbackInv'
<1> DEFINE undo == [Go(c, "undo") EXCEPT !.actions = Compensated, !.k = 1, !.results = <<>>]
<1>1. job[c].pc = "inspect" /\ effects' = effects /\ UNCHANGED <<cast, history>>
  BY DEF Inspect, SkipRun, Ask, Frame, setting, remotes
<1>2. job[c].results = <<>> /\ DOMAIN job[c] = Fields
  BY <1>1 DEF RollbackInv, Knows, JobsFine, JobFine
<1>3. Knows(Go(c, "done"), Len(effects), Compensated) /\ Knows(Fail(c), Len(effects), Compensated)
  BY <1>2 DEF Knows, Go, Fail, Fields
<1>4. Compensated # <<>> => Knows(undo, Len(effects), Compensated)
  <2> SUFFICES ASSUME Compensated # <<>> PROVE Knows(undo, Len(effects), Compensated)
    OBVIOUS
  <2>1. undo.pc = "undo" /\ undo.actions = Compensated /\ undo.k = 1
    BY <1>2 DEF Go, Fields
  <2>2. 1 \in DOMAIN Compensated /\ Len(effects) >= 1 - 1
    <3>1. PICK S : Compensated \in Seq(S)
      BY CompensatedDistinct DEF RollbackInv, Distinct
    <3> QED BY <3>1, EffectsCounted
  <2> HIDE DEF undo
  <2> QED BY <2>1, <2>2 DEF Knows
<1>5. \E n : Moves(c, n) /\ Knows(n, Len(effects), Compensated)
  <2>1. CASE SkipRun(c)
    BY <1>3, <2>1 DEF SkipRun, Moves, setting
  <2>2. CASE Inspect(c)
    <3>1. PICK a, signals :
            Reply(c, a, IF Succeeds(a)
                        THEN CASE ~AnyRegression(signals) -> Go(c, "done")
                               [] AnyRegression(signals) /\ Compensated = <<>> -> Fail(c)
                               [] OTHER -> undo
                        ELSE Fail(c))
      BY <2>2 DEF Inspect
    <3>2. Frame
      BY <2>2 DEF Inspect, Ask
    <3>3. CASE ~Succeeds(a) \/ (AnyRegression(signals) /\ Compensated = <<>>)
      BY <1>3, <3>1, <3>2, <3>3, ReplyMoves
    <3>4. CASE Succeeds(a) /\ ~AnyRegression(signals)
      BY <1>3, <3>1, <3>2, <3>4, ReplyMoves
    <3>5. CASE Succeeds(a) /\ AnyRegression(signals) /\ Compensated # <<>>
      BY <1>4, <3>1, <3>2, <3>5, ReplyMoves
    <3> QED BY <3>3, <3>4, <3>5
  <2> QED BY <2>1, <2>2
<1> QED BY <1>1, <1>5, MoveQuietly

\* Praxis performs the k-th action of the plan after the k - 1 before it, or did so before.
LEMMA PerformInOrder ==
  ASSUME RollbackInv, EffectsFine, cast = "rollback", history' = history,
         NEW k \in DOMAIN Compensated, Len(effects) >= k - 1, NEW req, NEW status,
         req.key = <<"rollback", Run, Compensated[k]>>,
         effects' = Perform(req, <<Run, Compensated[k]>>, status)
  PROVE  InOrder' /\ Len(effects') >= Len(effects) /\ Len(effects') >= k
<1> DEFINE plan == Compensated
           n == Len(effects)
<1>1. /\ Len(plan) \in Nat /\ DOMAIN plan = 1..Len(plan) /\ plan' = plan
      /\ \A i, m \in DOMAIN plan : plan[i] = plan[m] => i = m
  BY PlanCounted DEF RollbackInv, Compensated
<1>2. n \in Nat /\ DOMAIN effects = 1..n /\ n <= Len(plan)
  BY EffectsCounted DEF RollbackInv, InOrder
<1>3. ASSUME NEW i \in DOMAIN effects
      PROVE  i \in DOMAIN plan /\ effects[i].of = <<Run, plan[i]>>
             /\ effects[i].key = <<"rollback", Run, plan[i]>>
  <2>1. effects[i].of = <<Run, plan[i]>>
    BY DEF RollbackInv, InOrder
  <2>2. effects[i].key = KeyOf(effects[i].of)
    BY DEF EffectsFine
  <2>3. KeyOf(<<Run, plan[i]>>) = <<"rollback", Run, plan[i]>>
    BY DEF KeyOf
  <2>4. i \in DOMAIN plan
    BY <1>1, <1>2
  <2> HIDE DEF plan
  <2> QED BY <2>1, <2>2, <2>3, <2>4
<1>4. CASE Performed(req) = {}
  <2> DEFINE e == [key |-> req.key, of |-> <<Run, plan[k]>>, status |-> status]
  <2>1. k \notin DOMAIN effects
    <3> HIDE DEF plan
    <3> QED BY <1>3, <1>4 DEF Performed, plan
  <2>2. n = k - 1 /\ k = n + 1
    <3> HIDE DEF plan
    <3> QED BY <1>1, <1>2, <2>1 DEF plan
  <2>3. effects' = Append(effects, e)
    BY <1>4 DEF Perform
  <2>4. PICK S : effects \in Seq(S)
    BY DEF EffectsFine
  <2>5. /\ DOMAIN effects' = DOMAIN effects \cup {Len(effects) + 1}
        /\ Len(effects') = Len(effects) + 1
        /\ \A i \in DOMAIN effects : effects'[i] = effects[i]
        /\ effects'[Len(effects) + 1] = e
    <3> HIDE DEF e
    <3>1. /\ DOMAIN Append(effects, e) = DOMAIN effects \cup {Len(effects) + 1}
          /\ Len(Append(effects, e)) = Len(effects) + 1
          /\ \A i \in DOMAIN effects : Append(effects, e)[i] = effects[i]
          /\ Append(effects, e)[Len(effects) + 1] = e
      BY <2>4, AppendFacts
    <3> QED BY <2>3, <3>1
  <2> HIDE DEF plan
  <2>6. /\ Len(effects') = k /\ DOMAIN effects' = DOMAIN effects \cup {k}
        /\ effects'[k].of = <<Run, plan[k]>>
        /\ \A i \in DOMAIN effects : effects'[i] = effects[i]
    <3>1. e.of = <<Run, plan[k]>>
      OBVIOUS
    <3> HIDE DEF e
    <3> QED BY <2>2, <2>5, <3>1
  <2>7. \A i \in DOMAIN effects' : effects'[i].of = <<Run, plan[i]>>
    BY <1>3, <2>6
  <2>8. k <= Len(plan) /\ k >= n
    BY <1>1, <2>2 DEF plan
  <2> QED BY <1>1, <2>6, <2>7, <2>8 DEF InOrder, plan
<1>5. CASE Performed(req) # {}
  <2>1. effects' = effects
    BY <1>5 DEF Perform
  <2>2. PICK i \in DOMAIN effects : effects[i].key = req.key
    BY <1>5 DEF Performed
  <2>3. i = k
    <3> HIDE DEF plan
    <3>1. plan[i] = plan[k]
      BY <1>3, <2>2 DEF plan
    <3> QED BY <1>1, <1>3, <2>2, <3>1 DEF plan
  <2>4. n >= k
    BY <1>2, <2>2, <2>3
  <2>5. InOrder'
    BY <2>1, OrderStays DEF RollbackInv
  <2> QED BY <1>2, <2>1, <2>4, <2>5
<1> QED BY <1>4, <1>5

LEMMA UndoKnows ==
  ASSUME RollbackInv, JobsFine, EffectsFine, cast = "rollback", NEW c \in Drivers, Undo(c)
  PROVE  RollbackInv'
<1> DEFINE j == job[c]
           undone(res) == [Go(c, "report") EXCEPT !.results = Append(@, res)]
<1>1. j.pc = "undo" /\ Frame /\ UNCHANGED <<cast, history>>
  BY DEF Undo, Ask, Frame, setting
<1>2. /\ j.actions = Compensated /\ j.k \in DOMAIN Compensated /\ Len(effects) >= j.k - 1
      /\ DOMAIN j = Fields /\ InOrder
  BY <1>1 DEF RollbackInv, Knows, JobsFine, JobFine
<1>3. PICK a \in Outcomes, status \in Statuses :
        /\ Serve(c, <<Run, j.actions[j.k]>>, a, status)
        /\ Reply(c, a, IF Succeeds(a) THEN undone(Result(c, a, status)) ELSE Fail(c))
  BY DEF Undo, UndoFailed
<1>4. call[c] # None => call[c].req.key = <<"rollback", Run, Compensated[j.k]>>
  <2>1. CallFine(j, call[c])
    BY DEF JobsFine
  <2>2. KeyOf(<<Run, Compensated[j.k]>>) = <<"rollback", Run, Compensated[j.k]>>
    BY DEF KeyOf
  <2> QED BY <1>1, <1>2, <2>1, <2>2 DEF CallFine, Target
<1>5. ASSUME call[c] # None, effects' = Perform(call[c].req, <<Run, Compensated[j.k]>>, status)
      PROVE  InOrder' /\ Len(effects') >= Len(effects) /\ Len(effects') >= j.k
  BY <1>1, <1>2, <1>4, <1>5, PerformInOrder
<1>6. \/ effects' = effects
      \/ call[c] # None /\ effects' = Perform(call[c].req, <<Run, Compensated[j.k]>>, status)
  BY <1>2, <1>3 DEF Serve
<1>7. Succeeds(a) =>
        call[c] # None /\ effects' = Perform(call[c].req, <<Run, Compensated[j.k]>>, status)
  BY <1>2, <1>3 DEF Succeeds, Serve, Reply, Served
<1>8. /\ InOrder' /\ Len(effects') >= Len(effects)
      /\ Succeeds(a) => Len(effects') >= j.k
  <2>1. CASE effects' = effects
    BY <1>1, <1>2, <1>5, <1>7, <2>1, OrderStays, EffectsCounted
  <2>2. CASE effects' # effects
    BY <1>5, <1>6, <2>2
  <2> QED BY <2>1, <2>2
<1>9. Knows(Fail(c), Len(effects'), Compensated)
  BY <1>2 DEF Knows, Fail, Go, Fields
<1>10. ASSUME NEW res, Len(effects') >= j.k
       PROVE  Knows(undone(res), Len(effects'), Compensated)
  BY <1>2, <1>10 DEF Knows, Go, Fields
<1>11. \E n : Moves(c, n) /\ Knows(n, Len(effects'), Compensated)
  <2>1. CASE Succeeds(a)
    BY <1>1, <1>3, <1>8, <1>10, <2>1, ReplyMoves
  <2>2. CASE ~Succeeds(a)
    BY <1>1, <1>3, <1>9, <2>2, ReplyMoves
  <2> QED BY <2>1, <2>2
<1>12. EffectsFine'
  BY UndoFine
<1> QED BY <1>8, <1>11, <1>12, MoveKnows

LEMMA ReportKnows ==
  ASSUME RollbackInv, JobsFine, EffectsFine, cast = "rollback", NEW c \in Drivers, Report(c)
  PROVE  RollbackInv'
<1> DEFINE j == job[c]
           more == [Go(c, "undo") EXCEPT !.k = @ + 1]
<1>1. j.pc = "report" /\ Frame /\ effects' = effects
  BY DEF Report, Ask
<1>2. /\ j.actions = Compensated /\ j.k \in DOMAIN Compensated /\ Len(effects) >= j.k
      /\ DOMAIN j = Fields
  BY <1>1 DEF RollbackInv, Knows, JobsFine, JobFine
<1>3. Len(Compensated) \in Nat /\ DOMAIN Compensated = 1..Len(Compensated) /\ Len(effects) \in Nat
  BY PlanCounted, EffectsCounted DEF RollbackInv
<1>4. j.k < Len(Compensated) => Knows(more, Len(effects), Compensated)
  <2>1. more.pc = "undo" /\ more.actions = Compensated /\ more.k = j.k + 1
    BY <1>2 DEF Go, Fields
  <2>2. j.k < Len(Compensated) => j.k + 1 \in DOMAIN Compensated /\ Len(effects) >= (j.k + 1) - 1
    BY <1>2, <1>3
  <2> HIDE DEF more
  <2> QED BY <2>1, <2>2 DEF Knows
<1>5. ~(j.k < Len(Compensated)) => Knows(Go(c, "done"), Len(effects), Compensated)
  <2>1. ~(j.k < Len(Compensated)) => Len(effects) >= Len(Compensated)
    BY <1>2, <1>3
  <2> QED BY <1>2, <2>1 DEF Knows, Go, Fields
<1>6. PICK a \in Outcomes : Reply(c, a, IF j.k < Len(Compensated) THEN more ELSE Go(c, "done"))
  BY <1>2 DEF Report
<1>7. \E n : Moves(c, n) /\ Knows(n, Len(effects), Compensated)
  <2>1. CASE j.k < Len(Compensated)
    BY <1>1, <1>4, <1>6, <2>1, ReplyMoves
  <2>2. CASE ~(j.k < Len(Compensated))
    BY <1>1, <1>5, <1>6, <2>2, ReplyMoves
  <2> QED BY <2>1, <2>2
<1> QED BY <1>1, <1>7, MoveQuietly

\* Between its calls the compensator waits; nothing but its steps moves it.
LEMMA RollbackStep ==
  ASSUME RollbackInv, JobsFine, EffectsFine, cast = "rollback", [Next]_vars
  PROVE  RollbackInv'
<1>1. \A d \in Drivers : Knows(job[d], Len(effects), Compensated)
  BY DEF RollbackInv
<1>2. ASSUME NEW c \in Clients, Works(c) PROVE RollbackInv'
  <2>1. c \in Drivers
    BY DriversAssumption DEF Clients
  <2>2. job[c].pc \in {"inspect", "undo", "report", "done", "failed"}
    BY <2>1 DEF JobsFine, JobFine, Places
  <2>3. CASE Admit(c)
    <3>1. Moves(c, job[c]) /\ effects' = effects
      BY <2>3 DEF Admit, Moves, setting, remotes
    <3> QED BY <1>1, <2>1, <3>1, MoveQuietly
  <2>4. CASE Inspect(c) \/ SkipRun(c)
    BY <2>1, <2>4, InspectKnows
  <2>5. CASE Undo(c)
    BY <2>1, <2>5, UndoKnows
  <2>6. CASE Report(c)
    BY <2>1, <2>6, ReportKnows
  <2>7. ~(Recall(c) \/ Signals(c) \/ Decide(c) \/ Execute(c) \/ Check(c) \/ AppendOutcome(c) \/ Mark(c))
    BY <2>2 DEF Recall, Signals, Decide, Execute, Check, AppendOutcome, Mark, Ask
  <2>8. ~(TokenCheck(c) \/ TokenMint(c) \/ TokenStore(c) \/ TokenDate(c) \/ TokenReturn(c))
    BY DEF TokenCheck, TokenMint, TokenStore, TokenDate, TokenReturn, Token
  <2> QED BY <1>2, <2>3, <2>4, <2>5, <2>6, <2>7, <2>8 DEF Works
<1>3. ASSUME NEW c \in Clients, RunAgain(c) \/ CallAgain(c) PROVE RollbackInv'
  <2>1. c \in Drivers
    BY DriversAssumption DEF Clients
  <2> DEFINE n == [Idle("inspect", c, <<>>) EXCEPT !.calls = job[c].calls + 1]
  <2>2. Moves(c, n) /\ effects' = effects
    BY <1>3 DEF RunAgain, CallAgain, Moves, setting, remotes
  <2>3. Knows(n, Len(effects), Compensated)
    BY DEF Knows, Idle
  <2> HIDE DEF n
  <2> QED BY <2>1, <2>2, <2>3, MoveQuietly
<1>4. ASSUME UNCHANGED <<cast, history, job, effects>> PROVE RollbackInv'
  <2>1. PICK c \in Drivers : TRUE
    BY DriversAssumption
  <2>2. Moves(c, job[c])
    BY <1>4 DEF Moves
  <2> QED BY <1>1, <1>4, <2>1, <2>2, MoveQuietly
<1>5. ASSUME NEW l \in Layers, Cooldown(l) \/ Interval(l) PROVE RollbackInv'
  BY <1>4, <1>5 DEF Cooldown, Interval, setting, remotes
<1>6. CASE Tick
  BY <1>4, <1>6 DEF Tick, setting, remotes
<1>7. CASE UNCHANGED vars
  BY <1>4, <1>7 DEF vars, setting, remotes
<1> QED BY <1>2, <1>3, <1>5, <1>6, <1>7 DEF Next

LEMMA SettingStays == [Next]_vars => UNCHANGED setting
<1> SUFFICES ASSUME [Next]_vars PROVE UNCHANGED setting
  OBVIOUS
<1>1. ASSUME NEW c, Works(c) PROVE UNCHANGED setting
  <2>1. CASE Admit(c) \/ Check(c) \/ Mark(c) \/ SkipRun(c)
    BY <2>1 DEF Admit, Check, Mark, SkipRun
  <2>2. CASE Recall(c) \/ Signals(c) \/ Decide(c) \/ Execute(c)
    BY <2>2 DEF Recall, Signals, Decide, Execute, Ask, Frame
  <2>3. CASE AppendOutcome(c) \/ Inspect(c) \/ Undo(c) \/ Report(c)
    BY <2>3 DEF AppendOutcome, Inspect, Undo, Report, Ask, Frame
  <2>4. CASE TokenCheck(c) \/ TokenMint(c) \/ TokenStore(c) \/ TokenDate(c) \/ TokenReturn(c)
    BY <2>4 DEF TokenCheck, TokenMint, TokenStore, TokenDate, TokenReturn, Token
  <2> QED BY <1>1, <2>1, <2>2, <2>3, <2>4 DEF Works
<1>2. ASSUME NEW c, RunAgain(c) \/ CallAgain(c) PROVE UNCHANGED setting
  BY <1>2 DEF RunAgain, CallAgain
<1>3. ASSUME NEW l, Cooldown(l) \/ Interval(l) PROVE UNCHANGED setting
  BY <1>3 DEF Cooldown, Interval
<1>4. CASE Tick \/ UNCHANGED vars
  BY <1>4 DEF Tick, vars
<1> QED BY <1>1, <1>2, <1>3, <1>4 DEF Next

\* Compensation keeps the order of the acted capabilities and leaves none out
\* (rollback.Run), for every history, table of compensations and number of calls.
THEOREM RollbackInOrder == Spec => []CompensatedInOrder
<1>1. Init => RollbackInv
  <2> SUFFICES ASSUME Init PROVE RollbackInv
    OBVIOUS
  <2>1. history \in Histories /\ effects = <<>>
    BY DEF Init
  <2>2. InOrder
    BY <2>1, PlanCounted DEF InOrder
  <2>3. ASSUME cast = "rollback", NEW d \in Drivers PROVE Knows(job[d], Len(effects), Compensated)
    <3>1. job[d] = Idle("inspect", d, <<>>)
      BY <2>3 DEF Init
    <3> QED BY <3>1 DEF Knows, Idle
  <2> QED BY <2>1, <2>2, <2>3 DEF RollbackInv
<1>2. JobsFine /\ EffectsFine /\ RollbackInv /\ [Next]_vars => RollbackInv'
  <2> SUFFICES ASSUME JobsFine, EffectsFine, RollbackInv, [Next]_vars PROVE RollbackInv'
    OBVIOUS
  <2>1. CASE cast = "rollback"
    BY <2>1, RollbackStep
  <2>2. CASE cast # "rollback"
    BY <2>2, SettingStays DEF RollbackInv, setting
  <2> QED BY <2>1, <2>2
<1>3. EffectsFine /\ RollbackInv => CompensatedInOrder
  <2> SUFFICES ASSUME EffectsFine, RollbackInv, cast = "rollback" PROVE CompensatedInOrder
    BY DEF CompensatedInOrder
  <2>1. Len(effects) \in Nat /\ Len(Compensated) \in Nat
    BY EffectsCounted, PlanCounted DEF RollbackInv
  <2>2. InOrder /\ \A d \in Drivers : Knows(job[d], Len(effects), Compensated)
    BY DEF RollbackInv
  <2>3. ASSUME NEW d \in Drivers, job[d].pc = "done", job[d].results # <<>>
        PROVE  Len(effects) = Len(Compensated)
    BY <2>1, <2>2, <2>3 DEF InOrder, Knows
  <2> QED BY <2>2, <2>3 DEF CompensatedInOrder, InOrder
<1> QED BY JobsInit, NamesKept, <1>1, <1>2, <1>3, PTL DEF Spec

-----------------------------------------------------------------------------
(* Learning.  What Mnemos holds of an action is what Praxis answered, and  *)
(* the writer's keys stand for events that Mnemos holds.                   *)

IdOf(c, k) == <<Who(c), k>>
KeyAt(c, k) == ActsOf(c)[k].key
Named(id, status) == [id |-> <<Run, Iteration, id>>, status |-> status]
Has(eff, key, status) == \E i \in DOMAIN eff : eff[i].key = key /\ eff[i].status = status
Noted(c, k, eff, evs) ==
  \E status : Has(eff, KeyAt(c, k), status) /\ Named(IdOf(c, k), status) \in evs

EventsKnown(eff, evs) ==
  \A e \in evs : \E c \in Drivers : \E k \in DOMAIN ActsOf(c) :
    e = Named(IdOf(c, k), e.status) /\ Has(eff, KeyAt(c, k), e.status)
SeenKnown(keys, evs) == \A w \in keys : \E e \in evs : e.id = <<Run, Iteration, w[2]>>
ResultFine(c, k, r, eff) == r.id # None => r.id = IdOf(c, k) /\ Has(eff, KeyAt(c, k), r.status)

\* What a goroutine knows at each place of its iteration.
Working == {"execute", "check", "append", "mark"}
Writing == {"check", "append", "mark"}
LearnFine(c, j, eff, evs) ==
  /\ \E S : j.results \in Seq(S)
  /\ j.pc \in {"recall", "signals", "decide"} => j.actions = <<>> /\ j.results = <<>>
  /\ j.pc \in Working =>
       /\ j.actions = ActsOf(c) /\ j.k \in DOMAIN ActsOf(c)
       /\ Len(j.results) = IF j.pc = "execute" THEN j.k - 1 ELSE Len(ActsOf(c))
       /\ \A k \in DOMAIN j.results : ResultFine(c, k, j.results[k], eff)
  /\ j.pc \in {"append", "mark"} => j.results[j.k].id # None
  /\ j.pc \in Writing => \A k \in 1..j.k - 1 : Noted(c, k, eff, evs)
  /\ j.pc = "mark" => Noted(c, j.k, eff, evs)
  /\ j.pc = "done" => \A k \in DOMAIN j.actions : j.actions = ActsOf(c) /\ Noted(c, k, eff, evs)
Asked(c) == call[c] # None => call[c].req = Request(c)

Learns == cast \in {"loop", "parked"}
LearnInv ==
  Learns =>
    /\ EventsKnown(effects, events) /\ SeenKnown(seen, events)
    /\ \A c \in Drivers : LearnFine(c, job[c], effects, events) /\ Asked(c)

\* Praxis and Mnemos forget nothing, so what is known stays known.
Grows(eff, evs, eff2, evs2) ==
  /\ \A i \in DOMAIN eff : i \in DOMAIN eff2 /\ eff2[i] = eff[i]
  /\ evs \subseteq evs2

LEMMA HasGrows ==
  ASSUME NEW eff, NEW evs, NEW eff2, NEW evs2, Grows(eff, evs, eff2, evs2)
  PROVE  /\ \A key, status : Has(eff, key, status) => Has(eff2, key, status)
         /\ \A c, k : Noted(c, k, eff, evs) => Noted(c, k, eff2, evs2)
         /\ \A c, k, r : ResultFine(c, k, r, eff) => ResultFine(c, k, r, eff2)
<1>1. \A key, status : Has(eff, key, status) => Has(eff2, key, status)
  BY DEF Grows, Has
<1>2. \A c, k : Noted(c, k, eff, evs) => Noted(c, k, eff2, evs2)
  BY <1>1 DEF Grows, Noted
<1>3. \A c, k, r : ResultFine(c, k, r, eff) => ResultFine(c, k, r, eff2)
  BY <1>1 DEF ResultFine
<1> QED BY <1>1, <1>2, <1>3

LEMMA LearnGrows ==
  ASSUME NEW eff, NEW evs, NEW eff2, NEW evs2, Grows(eff, evs, eff2, evs2),
         NEW c, NEW j, LearnFine(c, j, eff, evs)
  PROVE  LearnFine(c, j, eff2, evs2)
BY HasGrows DEF LearnFine

\* What a step of goroutine c has to show.
StepFine(c, n) ==
  /\ Grows(effects, events, effects', events')
  /\ EventsKnown(effects', events') /\ SeenKnown(seen', events')
  /\ LearnFine(c, n, effects', events')

LEMMA LearnMoves ==
  ASSUME LearnInv, JobsFine, Learns, cast' = cast, NEW c \in Drivers, NEW n, StepFine(c, n),
         Only(c), job'[c] = n, call'[c] # None => n = job[c] /\ call'[c].req = Request(c)
  PROVE  LearnInv'
<1>1. ASSUME NEW d \in Drivers
      PROVE  LearnFine(d, job'[d], effects', events') /\ Asked(d)'
  <2>1. CASE d = c
    <3>1. Asked(c)'
      BY DEF Asked, Request
    <3> QED BY <2>1, <3>1 DEF StepFine
  <2>2. CASE d # c
    <3>1. LearnFine(d, job[d], effects, events) /\ Asked(d)
      BY DEF LearnInv
    <3>2. job'[d] = job[d] /\ call'[d] = call[d]
      BY <2>2 DEF Only
    <3>3. LearnFine(d, job[d], effects', events')
      BY <3>1, LearnGrows DEF StepFine
    <3>4. Asked(d)'
      BY <3>1, <3>2 DEF Asked, Request
    <3> QED BY <3>2, <3>3, <3>4
  <2> QED BY <2>1, <2>2
<1>2. \A d \in Drivers : LearnFine(d, job[d], effects, events)' /\ Asked(d)'
  <2> SUFFICES ASSUME NEW d \in Drivers PROVE LearnFine(d, job[d], effects, events)'
    BY <1>1
  <2>1. LearnFine(d, job'[d], effects', events')
    BY <1>1
  <2> QED BY <2>1, NamesStay DEF LearnFine, ResultFine, Noted, KeyAt, IdOf, Who
<1>3. EventsKnown(effects, events)'
  <2>1. EventsKnown(effects', events')
    BY DEF StepFine
  <2> QED BY <2>1, NamesStay DEF EventsKnown, KeyAt, IdOf, Who
<1>4. SeenKnown(seen, events)'
  BY DEF StepFine, SeenKnown
<1> QED BY <1>2, <1>3, <1>4 DEF LearnInv

LEMMA LearnReply ==
  ASSUME LearnInv, JobsFine, Learns, cast' = cast, NEW c \in Drivers, NEW a, NEW n, Reply(c, a, n),
         StepFine(c, n)
  PROVE  LearnInv'
<1>1. Only(c)
  BY DEF Reply, Only, JobsFine
<1>2. CASE job'[c] = n /\ call'[c] = None
  BY <1>1, <1>2, LearnMoves
<1>3. CASE job'[c] = job[c] /\ call' = [call EXCEPT ![c].attempt = @ + 1] /\ call[c] # None
  <2>1. "req" \in DOMAIN call[c] /\ call[c].req = Request(c) /\ c \in DOMAIN call
    BY <1>3 DEF LearnInv, Asked, JobsFine, CallFine
  <2>2. call'[c] = [call[c] EXCEPT !.attempt = call[c].attempt + 1]
    BY <1>3, <2>1
  <2>3. call'[c].req = Request(c)
    BY <2>1, <2>2
  <2>4. StepFine(c, job[c])
    <3>1. LearnFine(c, job[c], effects, events)
      BY DEF LearnInv
    <3> QED BY <3>1, LearnGrows DEF StepFine
  <2> QED BY <1>1, <1>3, <2>3, <2>4, LearnMoves
<1>4. \/ job'[c] = n /\ call'[c] = None
      \/ job'[c] = job[c] /\ call' = [call EXCEPT ![c].attempt = @ + 1] /\ call[c] # None
  BY DEF Reply, JobsFine
<1> QED BY <1>2, <1>3, <1>4

\* A step that leaves Praxis, Mnemos and the writer's keys alone.
LEMMA QuietStep ==
  ASSUME LearnInv, Learns, NEW c \in Drivers, NEW n, LearnFine(c, n, effects, events),
         UNCHANGED <<effects, events, seen>>
  PROVE  StepFine(c, n)
BY DEF LearnInv, StepFine, Grows

LEMMA LearnFails ==
  ASSUME NEW c, JobFine(c, job[c]), NEW eff, NEW evs, LearnFine(c, job[c], eff, evs)
  PROVE  LearnFine(c, Fail(c), eff, evs)
<1>1. Fail(c).pc = "failed" /\ Fail(c).results = job[c].results
  BY DEF Fail, Go, JobFine, Fields
<1> QED BY <1>1 DEF LearnFine, Working, Writing

LEMMA RecallLearns ==
  ASSUME LearnInv, JobsFine, Learns, NEW c \in Drivers, Recall(c) \/ Signals(c)
  PROVE  LearnInv'
<1>1. /\ UNCHANGED <<cast, effects, events, seen>> /\ JobFine(c, job[c])
      /\ job[c].pc \in {"recall", "signals"} /\ LearnFine(c, job[c], effects, events)
  BY DEF Recall, Signals, Ask, Frame, setting, remotes, JobsFine, LearnInv
<1>2. \E a : \E pc \in {"signals", "decide"} : Reply(c, a, Then(c, a, pc))
  BY DEF Recall, Signals, Learns
<1>3. PICK a, pc : pc \in {"signals", "decide"} /\ Reply(c, a, Then(c, a, pc))
  BY <1>2
<1>4. LearnFine(c, Go(c, pc), effects, events)
  <2>1. /\ Go(c, pc).pc = pc /\ Go(c, pc).results = job[c].results
        /\ Go(c, pc).actions = job[c].actions
    BY <1>1 DEF Go, JobFine, Fields
  <2> QED BY <1>1, <1>3, <2>1 DEF LearnFine, Working, Writing
<1>5. LearnFine(c, Then(c, a, pc), effects, events)
  BY <1>1, <1>4, LearnFails DEF Then
<1> QED BY <1>1, <1>3, <1>5, QuietStep, LearnReply

LEMMA DecideLearns ==
  ASSUME LearnInv, JobsFine, Learns, NEW c \in Drivers, Decide(c)
  PROVE  LearnInv'
<1> DEFINE decided(id) == [Go(c, IF ActsOf(c) = <<>> THEN "done" ELSE "execute") EXCEPT
                             !.decision = id, !.actions = ActsOf(c)]
<1>1. /\ UNCHANGED <<cast, effects, events, seen>> /\ JobFine(c, job[c])
      /\ job[c].pc = "decide" /\ LearnFine(c, job[c], effects, events)
  BY DEF Decide, Ask, Frame, setting, remotes, JobsFine, LearnInv
<1>2. cast # "parked" /\ job[c].k = 1 /\ job[c].results = <<>>
  BY <1>1 DEF JobFine, LearnFine
<1>3. \/ \E a, id : Reply(c, a, decided(id))
      \/ \E a : Reply(c, a, Fail(c))
  BY <1>2 DEF Decide, ActsOf, PlaybookActions
<1>4. ASSUME NEW id PROVE LearnFine(c, decided(id), effects, events)
  <2> DEFINE acts == ActsOf(c)
             j == decided(id)
  <2>1. acts # <<>> => 1 \in DOMAIN acts
    BY ActsStamped
  <2>2. /\ j.pc = IF acts = <<>> THEN "done" ELSE "execute"
        /\ j.actions = acts /\ j.k = 1 /\ j.results = <<>>
    <3> HIDE DEF acts
    <3> QED BY <1>1, <1>2 DEF Go, JobFine, Fields, acts
  <2> HIDE DEF acts, j
  <2>3. Len(<<>>) = 1 - 1 /\ <<>> \in Seq({}) /\ DOMAIN <<>> = {}
    OBVIOUS
  <2>4. \E S : j.results \in Seq(S)
    BY <2>2, <2>3
  <2>5. CASE acts = <<>>
    BY <2>2, <2>3, <2>4, <2>5 DEF LearnFine, Working, Writing, j
  <2>6. CASE acts # <<>>
    <3>1. j.pc = "execute" /\ j.k \in DOMAIN acts /\ Len(j.results) = j.k - 1 /\ DOMAIN j.results = {}
      BY <2>1, <2>2, <2>3, <2>6
    <3> QED BY <2>2, <2>4, <3>1 DEF LearnFine, Working, Writing, acts, j
  <2> QED BY <2>5, <2>6
<1> QED BY <1>1, <1>3, <1>4, LearnFails, QuietStep, LearnReply

\* What Praxis answers is what it did under the request's key, now or before.
LEMMA PerformHas ==
  ASSUME EffectsFine, NEW req, NEW of, NEW status \in Results(req), NEW evs,
         effects' = Perform(req, of, status)
  PROVE  Grows(effects, evs, effects', evs) /\ Has(effects', req.key, status)
<1>1. CASE Performed(req) # {}
  <2>1. effects' = effects
    BY <1>1 DEF Perform
  <2>2. PICK i \in Performed(req) : status = effects[i].status
    BY <1>1 DEF Results
  <2> QED BY <2>1, <2>2 DEF Grows, Has, Performed
<1>2. CASE Performed(req) = {}
  <2> DEFINE e == [key |-> req.key, of |-> of, status |-> status]
  <2>1. PICK S : effects \in Seq(S)
    BY DEF EffectsFine
  <2>2. e.key = req.key /\ e.status = status
    OBVIOUS
  <2>3. effects' = Append(effects, e)
    BY <1>2 DEF Perform
  <2> HIDE DEF e
  <2>4. /\ DOMAIN Append(effects, e) = DOMAIN effects \cup {Len(effects) + 1}
        /\ Append(effects, e)[Len(effects) + 1] = e
        /\ \A i \in DOMAIN effects : Append(effects, e)[i] = effects[i]
    BY <2>1, AppendFacts
  <2> QED BY <2>2, <2>3, <2>4 DEF Grows, Has
<1> QED BY <1>1, <1>2

LEMMA ActedLearns ==
  ASSUME NEW c \in Drivers, JobFine(c, job[c]), job[c].pc = "execute", NEW eff, NEW evs,
         LearnFine(c, job[c], eff, evs), NEW r, ResultFine(c, job[c].k, r, eff)
  PROVE  LearnFine(c, Acted(c, r), eff, evs)
<1> DEFINE acts == ActsOf(c)
           k == job[c].k
           old == job[c].results
           res == Append(old, r)
           j == [job[c] EXCEPT !.results = res]
<1>1. /\ job[c].actions = acts /\ k \in DOMAIN acts /\ Len(old) = k - 1
      /\ \A i \in DOMAIN old : ResultFine(c, i, old[i], eff)
  BY DEF LearnFine, Working
<1>2. PICK S : old \in Seq(S)
  BY DEF LearnFine
<1>3. DOMAIN acts = 1..Len(acts) /\ Len(acts) \in Nat
  BY <1>1, ActsStamped
<1>4. /\ Len(res) = Len(old) + 1 /\ DOMAIN res = DOMAIN old \cup {Len(old) + 1}
      /\ res[Len(old) + 1] = r /\ \A i \in DOMAIN old : res[i] = old[i]
  BY <1>2, AppendFacts
<1>5. res \in Seq(S \cup {r})
  BY <1>2
<1>6. j.results = res /\ j.k = k /\ j.actions = acts /\ DOMAIN j = Fields /\ j.pc = "execute"
  BY <1>1 DEF JobFine, Fields
<1>7. \/ Acted(c, r) = [j EXCEPT !.pc = "failed"]
      \/ j.k < Len(j.actions) /\ Acted(c, r) = [j EXCEPT !.k = j.k + 1]
      \/ ~(j.k < Len(j.actions)) /\ Acted(c, r) = [j EXCEPT !.pc = "check", !.k = 1]
  BY DEF Acted
<1> HIDE DEF acts, k, old, res, j
<1>8. Len(old) + 1 = k
  BY <1>1, <1>3
<1>9. Len(res) = k /\ \A i \in DOMAIN res : ResultFine(c, i, res[i], eff)
  BY <1>1, <1>4, <1>8 DEF k
<1>10. \/ Acted(c, r) = [j EXCEPT !.pc = "failed"]
       \/ k < Len(acts) /\ Acted(c, r) = [j EXCEPT !.k = k + 1]
       \/ ~(k < Len(acts)) /\ Acted(c, r) = [j EXCEPT !.pc = "check", !.k = 1]
  BY <1>6, <1>7
<1>11. CASE Acted(c, r) = [j EXCEPT !.pc = "failed"]
  <2>1. Acted(c, r).pc = "failed" /\ Acted(c, r).results = res
    BY <1>6, <1>11 DEF Fields
  <2> QED BY <1>5, <2>1 DEF LearnFine, Working, Writing
<1>12. CASE k < Len(acts) /\ Acted(c, r) = [j EXCEPT !.k = k + 1]
  <2>1. /\ Acted(c, r).pc = "execute" /\ Acted(c, r).results = res
        /\ Acted(c, r).k = k + 1 /\ Acted(c, r).actions = acts
    BY <1>6, <1>12 DEF Fields
  <2>2. k + 1 \in DOMAIN acts /\ k = (k + 1) - 1
    BY <1>1, <1>3, <1>12
  <2> QED BY <1>5, <1>9, <2>1, <2>2 DEF LearnFine, Working, Writing, acts
<1>13. CASE ~(k < Len(acts)) /\ Acted(c, r) = [j EXCEPT !.pc = "check", !.k = 1]
  <2>1. /\ Acted(c, r).pc = "check" /\ Acted(c, r).results = res
        /\ Acted(c, r).k = 1 /\ Acted(c, r).actions = acts
    BY <1>6, <1>13 DEF Fields
  <2>2. k = Len(acts) /\ 1 \in DOMAIN acts
    BY <1>1, <1>3, <1>13
  <2> QED BY <1>5, <1>9, <2>1, <2>2 DEF LearnFine, Working, Writing, acts
<1> QED BY <1>10, <1>11, <1>12, <1>13

LEMMA ExecuteLearns ==
  ASSUME LearnInv, JobsFine, EffectsFine, Learns, NEW c \in Drivers, Execute(c)
  PROVE  LearnInv'
<1> DEFINE k == job[c].k
<1>1. /\ UNCHANGED <<cast, events, seen>> /\ JobFine(c, job[c]) /\ job[c].pc = "execute"
      /\ LearnFine(c, job[c], effects, events)
  BY DEF Execute, Ask, Frame, setting, JobsFine, LearnInv
<1>2. PICK a \in Outcomes, status \in Statuses :
        /\ Serve(c, <<job[c].source, k>>, a, status)
        /\ Reply(c, a, IF Succeeds(a) THEN Acted(c, Result(c, a, status)) ELSE Fail(c))
  BY DEF Execute
<1>3. call[c] # None => call[c].req.key = KeyAt(c, k) /\ call[c].req.id = IdOf(c, k)
  <2> SUFFICES ASSUME call[c] # None
               PROVE  call[c].req.key = KeyAt(c, k) /\ call[c].req.id = IdOf(c, k)
    OBVIOUS
  <2>1. call[c].req = Request(c)
    BY DEF LearnInv, Asked
  <2>2. job[c].actions = ActsOf(c) /\ job[c].actions = ActsOf(job[c].source) /\ k \in DOMAIN ActsOf(c)
    BY <1>1 DEF LearnFine, Working, JobFine
  <2>3. Request(c).key = ActsOf(c)[k].key /\ Request(c).id = ActsOf(c)[k].id
    BY <1>1, <2>2, ExecuteNamed DEF Learns
  <2>4. ActsOf(c)[k].id = IdOf(c, k)
    BY <2>2, ActsStamped DEF IdOf
  <2> QED BY <2>1, <2>3, <2>4 DEF KeyAt
<1>4. \/ effects' = effects
      \/ status \in Results(call[c].req)
         /\ effects' = Perform(call[c].req, <<job[c].source, k>>, status)
  BY <1>2 DEF Serve
<1>5. Grows(effects, events, effects', events')
  <2>1. CASE effects' = effects
    BY <1>1, <2>1 DEF Grows
  <2>2. CASE effects' # effects
    BY <1>1, <1>4, <2>2, PerformHas
  <2> QED BY <2>1, <2>2
<1>6. EventsKnown(effects', events') /\ SeenKnown(seen', events') /\ LearnFine(c, job[c], effects', events')
  BY <1>1, <1>5, HasGrows, LearnGrows DEF LearnInv, EventsKnown
<1>7. CASE Succeeds(a)
  <2> DEFINE r == Result(c, a, status)
  <2>1. /\ call[c] # None /\ status \in Results(call[c].req)
        /\ effects' = Perform(call[c].req, <<job[c].source, k>>, status)
    BY <1>2, <1>7 DEF Succeeds, Serve, Reply, Served
  <2>2. Has(effects', KeyAt(c, k), status)
    BY <1>3, <2>1, PerformHas
  <2>3. ResultFine(c, k, r, effects')
    BY <1>3, <2>1, <2>2 DEF ResultFine, Result, WireToResult
  <2>4. LearnFine(c, Acted(c, r), effects', events')
    BY <1>1, <1>6, <2>3, ActedLearns
  <2>5. StepFine(c, Acted(c, r))
    BY <1>5, <1>6, <2>4 DEF StepFine
  <2> QED BY <1>1, <1>2, <1>7, <2>5, LearnReply
<1>8. CASE ~Succeeds(a)
  <2>1. StepFine(c, Fail(c))
    BY <1>1, <1>5, <1>6, LearnFails DEF StepFine
  <2> QED BY <1>1, <1>2, <1>8, <2>1, LearnReply
<1> QED BY <1>7, <1>8

\* The result the writer is at, and the action it is the result of.
LEMMA AtResult ==
  ASSUME NEW c \in Drivers, NEW j, NEW eff, NEW evs, LearnFine(c, j, eff, evs), j.pc \in Writing
  PROVE  /\ j.actions = ActsOf(c) /\ j.k \in DOMAIN ActsOf(c) /\ Len(j.results) = Len(ActsOf(c))
         /\ DOMAIN j.results = DOMAIN ActsOf(c)
         /\ DOMAIN ActsOf(c) = 1..Len(ActsOf(c)) /\ Len(ActsOf(c)) \in Nat
         /\ j.results[j.k].id # None =>
              j.results[j.k].id = IdOf(c, j.k) /\ Has(eff, KeyAt(c, j.k), j.results[j.k].status)
<1>1. PICK S : j.results \in Seq(S)
  BY DEF LearnFine
<1>2. /\ j.actions = ActsOf(c) /\ j.k \in DOMAIN ActsOf(c) /\ Len(j.results) = Len(ActsOf(c))
      /\ \A k \in DOMAIN j.results : ResultFine(c, k, j.results[k], eff)
  BY DEF LearnFine, Working, Writing
<1>3. DOMAIN ActsOf(c) = 1..Len(ActsOf(c)) /\ Len(ActsOf(c)) \in Nat
  BY ActsStamped
<1>4. DOMAIN j.results = DOMAIN ActsOf(c)
  BY <1>1, <1>2, <1>3
<1> QED BY <1>2, <1>3, <1>4 DEF ResultFine

\* An event of an action's ID is the record of that action, whoever wrote it.
LEMMA EventNotes ==
  ASSUME NEW eff, NEW evs, EventsKnown(eff, evs), NEW c \in Drivers, NEW k, NEW e \in evs,
         e.id = <<Run, Iteration, IdOf(c, k)>>
  PROVE  Noted(c, k, eff, evs)
<1>1. PICK d, m : e = Named(IdOf(d, m), e.status) /\ Has(eff, KeyAt(d, m), e.status)
  BY DEF EventsKnown
<1>2. IdOf(d, m) = IdOf(c, k)
  <2>1. e.id = <<Run, Iteration, IdOf(d, m)>>
    BY <1>1 DEF Named
  <2> QED BY <2>1
<1>3. Who(d) = Who(c) /\ m = k
  BY <1>2 DEF IdOf
<1>4. KeyAt(d, m) = KeyAt(c, k)
  BY <1>3 DEF KeyAt, ActsOf, Who
<1> QED BY <1>1, <1>2, <1>4 DEF Noted

LEMMA WrittenLearns ==
  ASSUME NEW c \in Drivers, JobFine(c, job[c]), job[c].pc \in {"check", "mark"}, NEW eff, NEW evs,
         LearnFine(c, job[c], eff, evs), Noted(c, job[c].k, eff, evs)
  PROVE  LearnFine(c, Written(c), eff, evs)
<1> DEFINE acts == ActsOf(c)
           k == job[c].k
<1>1. /\ job[c].actions = acts /\ k \in DOMAIN acts /\ Len(job[c].results) = Len(acts)
      /\ DOMAIN acts = 1..Len(acts) /\ Len(acts) \in Nat
  BY AtResult DEF Writing
<1>2. \A i \in 1..k : Noted(c, i, eff, evs)
  BY <1>1 DEF LearnFine, Writing
<1>3. DOMAIN job[c] = Fields
  BY DEF JobFine
<1>4. CASE k < Len(acts)
  <2> DEFINE j == [job[c] EXCEPT !.pc = "check", !.k = @ + 1, !.tries = 1]
  <2>1. Written(c) = j
    BY <1>1, <1>4 DEF Written
  <2>2. /\ j.pc = "check" /\ j.k = k + 1 /\ j.actions = job[c].actions
        /\ j.results = job[c].results
    BY <1>3 DEF Fields
  <2>3. k + 1 \in DOMAIN acts /\ (k + 1) - 1 = k
    BY <1>1, <1>4
  <2> HIDE DEF j, acts, k
  <2> QED BY <1>1, <1>2, <2>1, <2>2, <2>3 DEF LearnFine, Working, Writing, acts
<1>5. CASE ~(k < Len(acts))
  <2>1. /\ Written(c).pc = "done" /\ Written(c).actions = acts
        /\ Written(c).results = job[c].results
    BY <1>1, <1>3, <1>5 DEF Written, Go, Fields
  <2>2. k = Len(acts)
    BY <1>1, <1>5
  <2> HIDE DEF acts, k
  <2> QED BY <1>1, <1>2, <2>1, <2>2 DEF LearnFine, Working, Writing, acts
<1> QED BY <1>4, <1>5

LEMMA CheckLearns ==
  ASSUME LearnInv, JobsFine, Learns, NEW c \in Drivers, Check(c)
  PROVE  LearnInv'
<1> DEFINE k == job[c].k
           id == job[c].results[k].id
<1>1. /\ UNCHANGED <<cast, call, effects, events, seen>> /\ job[c].pc = "check"
      /\ JobFine(c, job[c]) /\ LearnFine(c, job[c], effects, events)
      /\ EventsKnown(effects, events) /\ SeenKnown(seen, events)
  BY DEF Check, setting, remotes, JobsFine, LearnInv
<1>2. Only(c) /\ call'[c] = None
  BY <1>1 DEF Check, Only, JobsFine, CallFine, LayerOf
<1>3. id # None => id = IdOf(c, k)
  BY <1>1, AtResult DEF Writing
<1>4. PICK n : /\ job'[c] = n
               /\ n = CASE id = None -> Fail(c)
                       [] id # None /\ WriterKey(Event(c)) \in seen -> Written(c)
                       [] OTHER -> Go(c, "append")
  BY DEF Check, Checked, Event, JobsFine
<1>5. LearnFine(c, n, effects, events)
  <2>1. CASE id = None
    <3>1. n = Fail(c)
      BY <1>4, <2>1
    <3> QED BY <1>1, <3>1, LearnFails
  <2>2. CASE id # None /\ WriterKey(Event(c)) \in seen
    <3>1. WriterKey(Event(c))[2] = id
      BY DEF WriterKey, Event
    <3>2. PICK e \in events : e.id = <<Run, Iteration, id>>
      BY <1>1, <2>2, <3>1 DEF SeenKnown
    <3>3. Noted(c, k, effects, events)
      BY <1>1, <1>3, <2>2, <3>2, EventNotes
    <3>4. n = Written(c)
      BY <1>4, <2>2
    <3> QED BY <1>1, <3>3, <3>4, WrittenLearns
  <2>3. CASE id # None /\ WriterKey(Event(c)) \notin seen
    <3>1. /\ Go(c, "append").pc = "append" /\ Go(c, "append").results = job[c].results
          /\ Go(c, "append").k = k /\ Go(c, "append").actions = job[c].actions
      BY <1>1 DEF Go, JobFine, Fields
    <3>2. n = Go(c, "append")
      BY <1>4, <2>3
    <3> QED BY <1>1, <2>3, <3>1, <3>2 DEF LearnFine, Working, Writing
  <2> QED BY <2>1, <2>2, <2>3
<1> QED BY <1>1, <1>2, <1>4, <1>5, QuietStep, LearnMoves

LEMMA MarkLearns ==
  ASSUME LearnInv, JobsFine, Learns, NEW c \in Drivers, Mark(c)
  PROVE  LearnInv'
<1> DEFINE k == job[c].k
           id == job[c].results[k].id
<1>1. /\ UNCHANGED <<cast, call, effects, events>> /\ job[c].pc = "mark"
      /\ JobFine(c, job[c]) /\ LearnFine(c, job[c], effects, events)
      /\ EventsKnown(effects, events) /\ SeenKnown(seen, events)
  BY DEF Mark, setting, remotes, JobsFine, LearnInv
<1>2. Only(c) /\ call'[c] = None /\ job'[c] = Written(c)
  BY <1>1 DEF Mark, Only, JobsFine, CallFine, LayerOf
<1>3. id = IdOf(c, k) /\ Noted(c, k, effects, events)
  BY <1>1, AtResult DEF Writing, LearnFine
<1>4. SeenKnown(seen', events)
  <2>1. PICK status : Named(IdOf(c, k), status) \in events
    BY <1>3 DEF Noted
  <2>2. Named(IdOf(c, k), status).id = <<Run, Iteration, id>>
    BY <1>3 DEF Named
  <2>3. WriterKey(Event(c))[2] = id /\ seen' = seen \cup {WriterKey(Event(c))}
    BY DEF Mark, WriterKey, Event
  <2> QED BY <1>1, <2>1, <2>2, <2>3 DEF SeenKnown
<1>5. LearnFine(c, Written(c), effects, events)
  BY <1>1, <1>3, WrittenLearns
<1>6. StepFine(c, Written(c))
  BY <1>1, <1>4, <1>5 DEF StepFine, Grows
<1> QED BY <1>1, <1>2, <1>6, LearnMoves

LEMMA AppendLearns ==
  ASSUME LearnInv, JobsFine, Learns, NEW c \in Drivers, AppendOutcome(c)
  PROVE  LearnInv'
<1> DEFINE k == job[c].k
           r == job[c].results[k]
           mark == Go(c, "mark")
<1>1. /\ UNCHANGED <<cast, effects, seen>> /\ job[c].pc = "append"
      /\ JobFine(c, job[c]) /\ LearnFine(c, job[c], effects, events)
      /\ EventsKnown(effects, events) /\ SeenKnown(seen, events)
  BY DEF AppendOutcome, Ask, Frame, setting, JobsFine, LearnInv
<1>2. PICK a \in Outcomes :
        /\ events' = IF a \in Served /\ call[c] # None THEN Stored(call[c].req) ELSE events
        /\ Reply(c, a, CASE Succeeds(a) -> mark
                         [] ~Succeeds(a) /\ RetriesWrite(c, a) -> Tried(c)
                         [] OTHER -> Fail(c))
  BY DEF AppendOutcome
<1>3. r.id = IdOf(c, k) /\ Has(effects, KeyAt(c, k), r.status) /\ k \in DOMAIN ActsOf(c)
  BY <1>1, AtResult DEF Writing, LearnFine
<1>4. call[c] # None => OutcomeEventID(call[c].req) = <<Run, Iteration, IdOf(c, k)>>
                        /\ call[c].req.status = r.status
  <2>1. call[c] # None => call[c].req = Request(c)
    BY DEF LearnInv, Asked
  <2>2. OutcomeEventID(Request(c)) = <<Run, Iteration, r.id>> /\ Request(c).status = r.status
    BY <1>1 DEF Request, OutcomeEventID
  <2> QED BY <1>3, <2>1, <2>2
<1>5. \/ events' = events
      \/ events' = events \cup {Named(IdOf(c, k), r.status)}
  BY <1>2, <1>4 DEF Stored, Named
<1>6. Grows(effects, events, effects', events')
  BY <1>1, <1>5 DEF Grows
<1>7. EventsKnown(effects', events')
  <2>1. LET e == Named(IdOf(c, k), r.status) IN
        e = Named(IdOf(c, k), e.status) /\ Has(effects, KeyAt(c, k), e.status)
    BY <1>3 DEF Named
  <2> QED BY <1>1, <1>3, <1>5, <2>1 DEF EventsKnown
<1>8. SeenKnown(seen', events') /\ LearnFine(c, job[c], effects', events')
  BY <1>1, <1>5, <1>6, LearnGrows DEF SeenKnown
<1>9. CASE Succeeds(a)
  <2>1. call[c] # None /\ events' = Stored(call[c].req)
    BY <1>2, <1>9 DEF Succeeds, Reply, Served
  <2>2. \E e \in events' : e.id = <<Run, Iteration, IdOf(c, k)>>
    <3> DEFINE ev == call[c].req
               new == [id |-> OutcomeEventID(ev), status |-> ev.status]
    <3>1. events' = IF \E e \in events : e.id = OutcomeEventID(ev) THEN events ELSE events \cup {new}
      BY <2>1 DEF Stored
    <3>2. new.id = OutcomeEventID(ev) /\ OutcomeEventID(ev) = <<Run, Iteration, IdOf(c, k)>>
      BY <1>4, <2>1
    <3> HIDE DEF new, ev
    <3> QED BY <3>1, <3>2
  <2>3. Noted(c, k, effects', events')
    BY <1>7, <2>2, EventNotes
  <2>4. /\ mark.pc = "mark" /\ mark.results = job[c].results
        /\ mark.k = k /\ mark.actions = job[c].actions
    BY <1>1 DEF Go, JobFine, Fields
  <2>5. LearnFine(c, mark, effects', events')
    <3> HIDE DEF mark
    <3> QED BY <1>1, <1>8, <2>3, <2>4 DEF LearnFine, Working, Writing
  <2> QED BY <1>1, <1>2, <1>6, <1>7, <1>8, <1>9, <2>5, LearnReply DEF StepFine
<1>10. CASE ~Succeeds(a) /\ RetriesWrite(c, a)
  <2>1. /\ Tried(c).pc = "append" /\ Tried(c).results = job[c].results
        /\ Tried(c).k = k /\ Tried(c).actions = job[c].actions
    BY <1>1 DEF Tried, JobFine, Fields
  <2>2. LearnFine(c, Tried(c), effects', events')
    BY <1>1, <1>8, <2>1 DEF LearnFine, Working, Writing
  <2> QED BY <1>1, <1>2, <1>6, <1>7, <1>8, <1>10, <2>2, LearnReply DEF StepFine
<1>11. CASE ~Succeeds(a) /\ ~RetriesWrite(c, a)
  <2>1. LearnFine(c, Fail(c), effects', events')
    BY <1>1, <1>8, LearnFails
  <2> QED BY <1>1, <1>2, <1>6, <1>7, <1>8, <1>11, <2>1, LearnReply DEF StepFine
<1> QED BY <1>9, <1>10, <1>11

LEMMA LearnStep ==
  ASSUME LearnInv, JobsFine, EffectsFine, Learns, [Next]_vars
  PROVE  LearnInv'
<1>1. cast' = cast
  BY SettingStays DEF setting
<1>2. ASSUME NEW c \in Clients, Works(c) PROVE LearnInv'
  <2>1. c \in Drivers
    BY DriversAssumption DEF Clients
  <2>2. job[c].pc \in Places /\ "inspect" \notin Places /\ "undo" \notin Places /\ "report" \notin Places
    BY <2>1 DEF JobsFine, JobFine, Places, Learns
  <2>3. CASE Admit(c)
    <3>1. UNCHANGED <<job, effects, events, seen>> /\ Only(c) /\ call'[c].req = Request(c)
      BY <2>1, <2>3 DEF Admit, remotes, Only, JobsFine
    <3>2. StepFine(c, job[c])
      BY <2>1, <3>1, QuietStep DEF LearnInv
    <3> QED BY <1>1, <2>1, <3>1, <3>2, LearnMoves
  <2>4. ~(SkipRun(c) \/ Inspect(c) \/ Undo(c) \/ Report(c))
    BY <2>2 DEF SkipRun, Inspect, Undo, Report, Ask
  <2>5. ~(TokenCheck(c) \/ TokenMint(c) \/ TokenStore(c) \/ TokenDate(c) \/ TokenReturn(c))
    BY DEF TokenCheck, TokenMint, TokenStore, TokenDate, TokenReturn, Token, Learns
  <2> QED BY <1>2, <2>1, <2>3, <2>4, <2>5, RecallLearns, DecideLearns, ExecuteLearns,
             CheckLearns, AppendLearns, MarkLearns DEF Works
<1>3. ~(\E c \in Clients : RunAgain(c) \/ CallAgain(c))
  BY DEF RunAgain, CallAgain, Learns
<1>4. ASSUME UNCHANGED <<job, call, effects, events, seen>> PROVE LearnInv'
  <2>1. PICK c \in Drivers : TRUE
    BY DriversAssumption
  <2>2. StepFine(c, job[c]) /\ Asked(c)
    BY <1>4, QuietStep DEF LearnInv
  <2> QED BY <1>1, <1>4, <2>2, LearnMoves DEF Only, Asked
<1>5. ASSUME NEW l \in Layers, Cooldown(l) \/ Interval(l) PROVE LearnInv'
  BY <1>4, <1>5 DEF Cooldown, Interval, remotes
<1>6. CASE Tick
  BY <1>4, <1>6 DEF Tick, remotes
<1>7. CASE UNCHANGED vars
  BY <1>4, <1>7 DEF vars, remotes
<1> QED BY <1>2, <1>3, <1>5, <1>6, <1>7 DEF Next

LEMMA LearnInit == Init => LearnInv
<1> SUFFICES ASSUME Init, Learns PROVE LearnInv
  BY DEF LearnInv
<1>1. seen = {} /\ events = {} /\ \A c \in Drivers : call[c] = None
  BY DEF Init
<1>2. ASSUME NEW c \in Drivers PROVE LearnFine(c, job[c], effects, events)
  <2>1. Len(<<>>) = 1 - 1 /\ <<>> \in Seq({}) /\ DOMAIN <<>> = {}
    OBVIOUS
  <2>2. CASE cast = "parked"
    <3>1. job[c] = Idle("execute", "parked", Parked)
      BY <2>2 DEF Init
    <3>2. ActsOf(c) = Parked
      BY <2>2 DEF ActsOf
    <3>3. 1 \in DOMAIN Parked
      BY <2>2, <3>2, ActsStamped, PlaybookAssumption
    <3>4. /\ job[c].pc = "execute" /\ job[c].actions = ActsOf(c) /\ job[c].k = 1
          /\ job[c].results = <<>>
      BY <3>1, <3>2 DEF Idle
    <3> QED BY <2>1, <3>2, <3>3, <3>4 DEF LearnFine, Working, Writing
  <2>3. CASE cast = "loop"
    <3>1. job[c] = Idle("recall", c, <<>>)
      BY <2>3 DEF Init
    <3>2. job[c].pc = "recall" /\ job[c].actions = <<>> /\ job[c].results = <<>>
      BY <3>1 DEF Idle
    <3> QED BY <2>1, <3>2 DEF LearnFine, Working, Writing
  <2> QED BY <2>2, <2>3 DEF Learns
<1> QED BY <1>1, <1>2 DEF LearnInv, EventsKnown, SeenKnown, Asked

\* Every action of a decision is performed and recorded, under its key and its ID
\* and with its status, before the loop goes on (api.Execute, outcome.Write):
\* whatever was retried, lost, answered by nothing or written by another.
THEOREM LoopsClose == Spec => []LoopClosed
<1>1. JobsFine /\ EffectsFine /\ LearnInv /\ [Next]_vars => LearnInv'
  <2> SUFFICES ASSUME JobsFine, EffectsFine, LearnInv, [Next]_vars PROVE LearnInv'
    OBVIOUS
  <2>1. CASE Learns
    BY <2>1, LearnStep
  <2>2. CASE ~Learns
    BY <2>2, SettingStays DEF LearnInv, Learns, setting
  <2> QED BY <2>1, <2>2
<1>2. LearnInv => LoopClosed
  <2> SUFFICES ASSUME LearnInv, Learns, NEW c \in Drivers, job[c].pc = "done",
                      NEW k \in DOMAIN job[c].actions
               PROVE  \E i \in DOMAIN effects :
                        /\ effects[i].key = job[c].actions[k].key
                        /\ [id |-> <<Run, Iteration, job[c].actions[k].id>>,
                            status |-> effects[i].status] \in events
    BY DEF LoopClosed, Learns
  <2>1. job[c].actions = ActsOf(c) /\ Noted(c, k, effects, events)
    BY DEF LearnInv, LearnFine
  <2>2. job[c].actions[k].key = KeyAt(c, k) /\ job[c].actions[k].id = IdOf(c, k)
    BY <2>1, ActsStamped DEF KeyAt, IdOf
  <2> QED BY <2>1, <2>2 DEF Noted, Has, Named
<1> QED BY JobsInit, NamesKept, LearnInit, <1>1, <1>2, PTL DEF Spec
=============================================================================
