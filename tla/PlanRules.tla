----------------------------- MODULE PlanRules -----------------------------
(***************************************************************************)
(* The rules of the GenerateTaskPlan service: bt_planning/service_logic.py *)
(* with plan_parser.py and dry_run_plan.py, as operators.                  *)
(*                                                                         *)
(* A JSON object is a record from its keys to its values.  Blank stands    *)
(* for a string of spaces and for a value of another type: the rules treat *)
(* the two alike, as they do a list that is empty and what is no list, and *)
(* a step that is no object and one without fields.                        *)
(***************************************************************************)
EXTENDS Naturals, Sequences

Blank == ""

AllowedStepKinds  == {"robot_skill", "human_step", "vlm_gate"}
AllowedStepFields == {"kind", "name", "object", "objects"}
ForbiddenFields   ==
  { "raw_xml", "xml", "action", "condition", "explanation", "free_text",
    "fallback", "parallel", "human_fallback" }

\* A task name is a word, with or without spaces around it.
Stripped(name) == [name EXCEPT !.padded = FALSE]

\* What json.loads makes of a text that a request brings or a topic carries.
Texts == {"empty", "spaces", "malformed", "array", "object"}

\* _loads_json_object with required=True, and with required=False.
LoadsRequired(text) == text = "object"
LoadsOptional(text) == text \in {"empty", "spaces", "object"}

-----------------------------------------------------------------------------
(* plan_parser.py.  A reply is the text of the model: how it is wrapped,   *)
(* the keys of its object besides task_name and steps, at any depth, and   *)
(* the two.                                                                *)

\* One JSON object, alone or in one fence, and nothing around it.
\* The other wrappings are "xml", "prose", "other_fence", "array" and "blank".
IsJsonObject(reply) == reply.wrapping \in {"none", "fence", "json_fence"}

AllKeys(reply) ==
  reply.keys \cup UNION { DOMAIN reply.steps[i] : i \in 1..Len(reply.steps) }

HasSignature(step) ==
  /\ {"kind", "name"} \subseteq DOMAIN step
  /\ step.kind # Blank
  /\ step.name # Blank

StepParses(step) ==
  /\ DOMAIN step \subseteq AllowedStepFields
  /\ HasSignature(step)
  /\ step.kind \in AllowedStepKinds
  /\ "object" \in DOMAIN step => step.object # Blank
  /\ "objects" \in DOMAIN step =>
       step.objects # <<>> /\ \A i \in 1..Len(step.objects) : step.objects[i] # Blank

ParsesLinearIr(reply) ==
  /\ IsJsonObject(reply)
  /\ AllKeys(reply) \cap ForbiddenFields = {}
  /\ reply.task.word # Blank
  /\ reply.steps # <<>>
  /\ \A i \in 1..Len(reply.steps) : StepParses(reply.steps[i])

-----------------------------------------------------------------------------
(* dry_run_plan.py.  registry.vocabulary gives the names that the registry *)
(* lists for each kind.                                                    *)

CanonicalStepValid(step, vocabulary) ==
  /\ HasSignature(step)
  /\ "type" \notin DOMAIN step
  /\ step.kind \in DOMAIN vocabulary
  /\ step.name \in vocabulary[step.kind]

\* make_canonical_plan raises otherwise.
HasCanonicalPlan(registry) ==
  /\ registry.canonical = "list"
  /\ registry.steps # <<>>
  /\ \A i \in 1..Len(registry.steps) :
       CanonicalStepValid(registry.steps[i], registry.vocabulary)

CanonicalPlan(task, registry) ==
  [wrapping |-> "none", keys |-> {}, task |-> task, steps |-> registry.steps]

-----------------------------------------------------------------------------
(* service_logic.py *)

Signatures(steps) == [i \in 1..Len(steps) |-> <<steps[i].kind, steps[i].name>>]

AllSigned(steps) == \A i \in 1..Len(steps) : HasSignature(steps[i])

\* Mutant: the steps may be fewer than the canonical ones.
MeetsConstraintsByPrefix(plan, task, registry) ==
  /\ plan.task = task
  /\ \/ registry.canonical = "absent"
     \/ /\ registry.canonical = "list"
        /\ AllSigned(plan.steps) /\ AllSigned(registry.steps)
        /\ Len(plan.steps) <= Len(registry.steps)
        /\ \A i \in 1..Len(plan.steps) : Signatures(plan.steps)[i] = Signatures(registry.steps)[i]

\* _check_preliminary_plan_constraints raises otherwise.
MeetsConstraints(plan, task, registry) ==
  /\ plan.task = task
  /\ \/ registry.canonical = "absent"
     \/ /\ registry.canonical = "list"
        /\ AllSigned(plan.steps) /\ AllSigned(registry.steps)
        /\ Signatures(plan.steps) = Signatures(registry.steps)

\* node.py:574: the facts of the request or, when it brings none, the stored ones.
FactsFor(request, stored) == IF request.facts = "empty" THEN stored ELSE request.facts

\* What is checked before a plan is made.
RequestLoads(request, stored) ==
  /\ request.task.word # Blank
  /\ LoadsRequired(request.registry.text)
  /\ LoadsOptional(FactsFor(request, stored))

\* The plan is parsed, dumped, parsed again and held against the registry.
PlanAccepted(request, plan) ==
  /\ ParsesLinearIr(plan)
  /\ MeetsConstraints(plan, Stripped(request.task), request.registry)

\* The request is answered without the model.
DryRunAccepted(request) ==
  /\ HasCanonicalPlan(request.registry)
  /\ PlanAccepted(request, CanonicalPlan(Stripped(request.task), request.registry))

=============================================================================
