--------------------------- MODULE MCModelAccess ---------------------------
(* A small instance: the ways in which run.sh starts the node, and for the *)
(* contents of a plan a single call with each request and reply.           *)
EXTENDS ModelAccessProperties

Step(kind, name) == [kind |-> kind, name |-> name]
Gate == Step("vlm_gate", "ready")
Pour == Step("human_step", "pour")

Tea       == [word |-> "tea", padded |-> FALSE]
PaddedTea == [word |-> "tea", padded |-> TRUE]

Registry ==
  [ text |-> "object", canonical |-> "list", steps |-> <<Gate, Pour>>,
    vocabulary |-> [ robot_skill |-> {}, human_step |-> {"pour"}, vlm_gate |-> {"ready"} ] ]

Request == [task |-> PaddedTea, registry |-> Registry, facts |-> "empty"]
Reply   == [wrapping |-> "none", keys |-> {}, task |-> Tea, steps |-> <<Gate, Pour>>]

WithSteps(steps) == [Request EXCEPT !.registry.steps = steps]

Requests ==
  { Request,
    [Request EXCEPT !.task.word = Blank],
    [Request EXCEPT !.registry.text = "malformed"],
    [Request EXCEPT !.registry.canonical = "absent"],
    [Request EXCEPT !.registry.canonical = "not_list", !.registry.steps = <<>>],
    [Request EXCEPT !.facts = "spaces"],
    [Request EXCEPT !.facts = "array"],
    WithSteps(<<>>),
    WithSteps(<<Gate, Step("human_step", "unlisted")>>),
    WithSteps(<<Gate, [kind |-> "human_step", name |-> "pour", type |-> "x"]>>),
    WithSteps(<<Gate, [kind |-> "human_step", name |-> "pour", note |-> "x"]>>),
    WithSteps(<<[name |-> "ready"]>>) }

Replies ==
  { Reply,
    [Reply EXCEPT !.wrapping = "json_fence"],
    [Reply EXCEPT !.wrapping = "prose"],
    [Reply EXCEPT !.keys = {"explanation"}],
    [Reply EXCEPT !.task = PaddedTea],
    [Reply EXCEPT !.steps = <<Gate>>],
    [Reply EXCEPT !.steps = <<Pour, Gate>>],
    [Reply EXCEPT !.steps = <<Gate, [kind |-> "human_step", name |-> "pour", object |-> "cup"]>>],
    [Reply EXCEPT !.steps = <<Gate, [kind |-> "human_step", name |-> "pour", xml |-> "x"]>>],
    [Reply EXCEPT !.steps = <<Gate, Step("loop", "pour")>>],
    [Reply EXCEPT !.steps = <<Gate, Step("human_step", Blank)>>],
    [Reply EXCEPT !.steps = <<>>] }

Local ==
  [ backend |-> "local", disabled |-> FALSE, lazy |-> TRUE, dryRun |-> FALSE,
    both |-> FALSE, reasoning |-> TRUE,
    plans |-> Plans, requests |-> {Request}, replies |-> {Reply} ]

Contents ==
  [Local EXCEPT !.plans = {"p1"}, !.requests = Requests, !.replies = Replies]

SmallConfigs ==
  { Local,
    [Local EXCEPT !.lazy = FALSE, !.both = TRUE],
    [Local EXCEPT !.disabled = TRUE],
    [Local EXCEPT !.backend = "socket", !.reasoning = FALSE],
    [Local EXCEPT !.backend = "http"],
    Contents,
    [Contents EXCEPT !.dryRun = TRUE] }

=============================================================================
