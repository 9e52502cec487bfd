----------------------------- MODULE MCRunStore -----------------------------
(* Model values for checking RunStore with TLC.                            *)
EXTENDS RunStore

CONSTANTS r1, r2, p1, p2

\* Two tenants of one key: a name has the bar in it that parts the names.
Acme == [org |-> <<"acme">>, team |-> <<"ops", "|", "ann">>, user |-> <<>>]
Twin == [org |-> <<"acme", "|", "ops">>, team |-> <<"ann">>, user |-> <<>>]
MCTenants == {NoTenant, Acme, Twin}
MCTenantOf == [r \in {r1, r2} |-> IF r = r1 THEN NoTenant ELSE Acme]

MCRequests == {[decision |-> "d1", reason |-> ""], [decision |-> "d2", reason |-> "deploy gate"]}

\* No filter, and one on each kind of field.
MCFilters == {<<>>, [status |-> "completed"], [id |-> r1], [tenant |-> Acme], [tenant |-> Twin],
              [tenant |-> NoTenant]}

MCQueries ==
  [run : {None, r1}, kind : {None, "outcome_written"}, since : {None, 2, 3}, until : {None, 3, 4},
   limit : {0, 1}]

\* The built-in types, and what a host may make of "explain" on a restart.
Hot == [Reg!Builtins[1] EXCEPT !.description = "", !.policy.maxIterations = 2,
          !.schema = [@ EXCEPT !.required = {"window"}, !.properties = [window |-> "integer"]]]
\* The same with its required keys in a []string, its properties in a map of maps.
Typed == [Hot EXCEPT !.schema.requiredAs = "[]string",
                     !.schema.propertiesAs = "map[string]map[string]string"]
Unbounded == [Reg!Builtins[2] EXCEPT !.policy.maxIterations = 0]
MCTypeDefs == {Reg!Builtins[1], Reg!Builtins[2], Hot, Typed, Unbounded}

MCIntents ==
  {[type |-> t, payload |-> p] :
     t \in {"", "explain", "remediate", "unknown"},
     p \in {<<>>, [subject |-> "string"], [subject |-> "int"],
            [window |-> "whole"], [window |-> "float"]}}

\* Kept, which finds elements by their places, is the library's SelectSeq.
ASSUME KeptSelects ==
  \A n \in 0..4 : \A seq \in [1..n -> 0..2] : \A S \in SUBSET (0..2) :
    Kept(seq, LAMBDA x : x \in S) = SelectSeq(seq, LAMBDA x : x \in S)
=============================================================================
