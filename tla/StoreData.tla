----------------------------- MODULE StoreData ------------------------------
(***************************************************************************)
(* The records the repositories keep (internal/domain) and the few table   *)
(* operations that the three backends share.                               *)
(*                                                                         *)
(* A run is [id, itype, caller, tenant, status, iteration, err, pending,   *)
(* started, updated, completed, steps]; payload, goal, session and scope   *)
(* are only carried along and stay with itype.  A step is [iteration,      *)
(* stage, layer, ref, out, err, started, completed].  A table is a         *)
(* function from its present keys to rows.                                 *)
(*                                                                         *)
(* Times are counted in half seconds, the coarsest grain at which the text *)
(* of RFC 3339 and the time it stands for are ordered differently.         *)
(***************************************************************************)
EXTENDS Naturals, Sequences, SequencesExt, FiniteSets, RunStatus

CONSTANT None

Put(table, key, row) ==
  [k \in DOMAIN table \cup {key} |-> IF k = key THEN row ELSE table[k]]
Without(table, keys) == [k \in DOMAIN table \ keys |-> table[k]]
Lookup(table, key) == IF key \in DOMAIN table THEN table[key] ELSE None

\* A result list cut at limit; 0 is no limit.
Limited(seq, limit) == IF limit > 0 /\ Len(seq) > limit THEN SubSeq(seq, 1, limit) ELSE seq

\* The rows in an order, a set of pairs, that tells any two of them apart.
InOrder(rows, order) ==
  [n \in 1..Cardinality(rows) |->
     CHOOSE r \in rows : Cardinality({q \in rows : <<q, r>> \in order}) = n - 1]
Ordered(rows, Before(_, _)) == InOrder(rows, {p \in rows \X rows : Before(p[1], p[2])})

\* A stable sort: elements that neither is before keep their order.
Sorted(seq, Before(_, _)) ==
  LET Precedes(i, j) == Before(seq[i], seq[j]) \/ (~Before(seq[j], seq[i]) /\ i < j)
      place == Ordered(DOMAIN seq, Precedes)
  IN  [n \in DOMAIN seq |-> seq[place[n]]]

Earlier(a, b) == a < b
Later(a, b) == b < a

\* The elements that pass a test, in their order, found by their places.
Kept(seq, Test(_)) ==
  LET place == Ordered({i \in DOMAIN seq : Test(seq[i])}, Earlier)
  IN  [n \in DOMAIN place |-> seq[place[n]]]

\* The alphabetical order of the names of intent types.
Alphabet == <<"explain", "remediate">>
NameBefore(a, b) == \E i, j \in DOMAIN Alphabet : i < j /\ Alphabet[i] = a /\ Alphabet[j] = b

NoTenant == [org |-> <<>>, team |-> <<>>, user |-> <<>>]
IsZero(t) == t = NoTenant

\* The text a tenant is compared by in memory; a name is a sequence of letters.
Bar == <<"|">>
TenantKey(t) == IF IsZero(t) THEN <<>> ELSE t.org \o Bar \o t.team \o Bar \o t.user
\* Their keys tell these tenants apart, as they do where no name has a bar in it.
ToldApart(tenants) == \A t, u \in tenants : TenantKey(t) = TenantKey(u) => t = u

\* A schema is [required, requiredAs, properties, propertiesAs], each part with
\* the Go kind it has; encodeJSON and decodeJSON leave lists and maps of any.
AnyList == "[]any"
AnyMap == "map[string]any"
ThroughJSON(schema) == [schema EXCEPT !.requiredAs = AnyList, !.propertiesAs = AnyMap]

Validate(run) ==
  /\ run.status \in Status
  /\ run.status \in Terminal => run.completed # None

AppendStep(run, step) ==
  [run EXCEPT !.steps = Append(@, step), !.updated = step.completed]

CompleteRun(run, status, at) ==
  [run EXCEPT !.status = status, !.updated = at, !.completed = at]

\* A filter is a function from the fields it names to the values it wants.
MatchesFields(row, filter) ==
  \A field \in DOMAIN filter \ {"tenant"} : row[field] = filter[field]
=============================================================================
