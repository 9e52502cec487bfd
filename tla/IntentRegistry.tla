--------------------------- MODULE IntentRegistry ---------------------------
(***************************************************************************)
(* internal/intent: the types an intent may have, the payloads they accept *)
(* and the policy they give a run.  A schema's properties map a key to the *)
(* name of its type; a payload maps keys to the Go kind of their values.   *)
(***************************************************************************)
EXTENDS StoreData

\* checkType: the kinds each type name takes.  "whole" is a float64 without
\* a fraction, what JSON makes of an integer.
Accepts ==
  [string |-> {"string"}, number |-> {"int", "whole", "float"}, integer |-> {"int", "whole"},
   boolean |-> {"bool"}, object |-> {"map"}, array |-> {"slice"}]
CheckType(want, kind) == want \in DOMAIN Accepts => kind \in Accepts[want]

HasRequired(payload, schema) == schema.required \ {""} \subseteq DOMAIN payload
HasTypes(payload, schema) ==
  \A key \in DOMAIN schema.properties \cap DOMAIN payload :
    schema.properties[key] # "" => CheckType(schema.properties[key], payload[key])
\* A part of another Go kind, a []string say, is passed over.
ValidateAgainstSchema(payload, schema) ==
  /\ schema.requiredAs = AnyList => HasRequired(payload, schema)
  /\ schema.propertiesAs = AnyMap => HasTypes(payload, schema)

\* Registry.Register: what reaches the repository, None when it is refused.
Registration(t, now) ==
  IF t.name = "" \/ t.policy.maxIterations <= 0 THEN None
  ELSE [t EXCEPT !.registered = IF @ = None THEN now ELSE @]

\* Registry.Validate: the type the intent is run under, None when refused.
ValidateIntent(intent, found) ==
  IF intent.type = "" \/ found = None THEN None
  ELSE IF ValidateAgainstSchema(intent.payload, found.schema) THEN found ELSE None

\* PreparePolicy: what the caller set wins over the type's policy.
PreparePolicy(t, goal, now) ==
  [maxIterations |-> IF goal.maxIterations <= 0 THEN t.policy.maxIterations ELSE goal.maxIterations,
   deadline |-> IF goal.deadline = None /\ t.policy.defaultDeadline > 0
                  THEN now + t.policy.defaultDeadline ELSE goal.deadline]

\* Builtins; a deadline of 30 s and one of 5 min, in half seconds.
SubjectSchema ==
  [required |-> {"subject"}, requiredAs |-> AnyList,
   properties |-> [subject |-> "string"], propertiesAs |-> AnyMap]
Builtins ==
  << [name |-> "explain", description |-> "read-only loop", schema |-> SubjectSchema,
      policy |-> [maxIterations |-> 1, defaultDeadline |-> 60, readOnly |-> TRUE, requireApproval |-> FALSE],
      registered |-> None],
     [name |-> "remediate", description |-> "full loop", schema |-> SubjectSchema,
      policy |-> [maxIterations |-> 3, defaultDeadline |-> 600, readOnly |-> FALSE, requireApproval |-> TRUE],
      registered |-> None] >>
=============================================================================
