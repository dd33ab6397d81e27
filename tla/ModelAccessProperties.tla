----------------------- MODULE ModelAccessProperties -----------------------
(***************************************************************************)
(* What the clients of the model may count on.                             *)
(***************************************************************************)
EXTENDS ModelAccess

Places ==
  { "idle", "scene", "lock", "ensure", "check", "load", "loaded", "generate",
    "connect", "queued", "models", "chat", "reply", "answered" }
Outcomes == { "none", "bad request", "no scene", "error", "bad plan", "accepted" }

\* What has been asked and what may be answered.
Asked == cfg.requests \cup {Unasked}
Made  == cfg.replies \cup {NoPlan}
         \cup { CanonicalPlan(Stripped(r.task), r.registry) : r \in cfg.requests }

\* Every client is at one of its places, and holds and counts what it can.
TypeOK ==
  /\ cfg \in Configs
  /\ node \in {"starting", "up", "failed"}
  /\ frames \subseteq {"front", "wrist"}
  /\ facts \in Texts
  /\ pc \in [Clients -> Places]
  /\ request \in [Plans -> Asked]
  /\ outcome \in [Plans -> Outcomes]
  /\ plan \in [Plans -> Made]
  /\ lock \in [owner : Clients \cup {NoOne}, depth : Int]
  /\ loads \in Nat
  /\ tried \in [Clients -> Seq(Nat)]
  /\ server \in {"down", "listening", "stopping"}
  /\ queue \in Seq(Clients)

-----------------------------------------------------------------------------
(* Safety *)

\* The GPU runs one generation at a time, in the node as in the model server,
\* however the worker and the plan callbacks come and fail (node.py:512, 544;
\* model_server.py:66, 92, 152).
GenerationExclusive ==
  \A c, d \in Clients : pc[c] = "generate" /\ pc[d] = "generate" => c = d

Nested == {"check", "load", "loaded"}
Inside == {"ensure", "generate"} \cup Nested

\* inference_lock is held by the client that is inside its with-statements, as
\* often as it has entered them, and by nobody once that client has left, also
\* through an exception (node.py:326, 512, 544).
LockMatchesHolder ==
  cfg.backend = "local" =>
    /\ lock.owner = NoOne <=> lock.depth = 0
    /\ \A c \in Clients :
         /\ lock.owner = c <=> pc[c] \in Inside
         /\ lock.owner = c => lock.depth = (IF pc[c] \in Nested THEN 2 ELSE 1)

\* Whoever comes first loads the weights, once, however many come while the load
\* goes on and whatever way an earlier load failed; they are never loaded when
\* that is forbidden or when the model lives elsewhere (node.py:117-119, 316-328,
\* 512, 544; README.md:50).
WeightsLoadedOnce ==
  /\ loads <= 1
  /\ cfg.disabled \/ cfg.backend # "local" => loads = 0

\* Generation that ran out of GPU memory is repeated with fewer tokens or not
\* at all (model.py:74-91).
RetriesShrink ==
  \A c \in Clients : \A i \in 1..Len(tried[c]) - 1 : tried[c][i + 1] < tried[c][i]

\* Nobody waits for nothing: who waits for inference_lock waits for a client that
\* is inside and can always go on, the second acquisition inside never waits, and
\* who has connected to model_server waits in the queue of a server that is not
\* gone.  A server that ends leaves nobody behind (node.py:326, 512, 544;
\* model_client.py:33-47; model_server.py:146-152).
NoWaitIsLost ==
  \A c \in Clients :
    /\ pc[c] = "lock" => CanLock(c) \/ \E d \in Clients : CanLock(d) /\ pc[d] \in Inside
    /\ pc[c] = "ensure" => CanLock(c)
    /\ pc[c] = "queued" => server # "down" /\ \E i \in 1..Len(queue) : queue[i] = c

\* A plan is refused for what the request says, never because of the scene facts
\* that a topic had brought meanwhile (node.py:344-357, 574; service_logic.py:95-97).
RefusedForItsOwnFault ==
  \A p \in Plans : outcome[p] = "bad request" =>
    \/ request[p].task.word = Blank
    \/ request[p].registry.text # "object"
    \/ request[p].facts \in {"malformed", "array"}

\* An accepted plan is for the task that was asked for, has steps of the known
\* kinds only and, when the registry has a canonical sequence, follows it step
\* by step: nothing is reordered, added or removed (bt_planning/README.md:14;
\* service_logic.py:58-77, 107-109).
AcceptedPlanFits ==
  \A p \in Plans : outcome[p] = "accepted" =>
    LET steps    == plan[p].steps
        registry == request[p].registry
    IN  /\ plan[p].task = [word |-> request[p].task.word, padded |-> FALSE]
        /\ steps # <<>>
        /\ \A i \in 1..Len(steps) :
             /\ DOMAIN steps[i] \subseteq AllowedStepFields
             /\ steps[i].kind \in AllowedStepKinds
        /\ registry.canonical # "absent" =>
             /\ Len(steps) = Len(registry.steps)
             /\ \A i \in 1..Len(steps) :
                  /\ steps[i].kind = registry.steps[i].kind
                  /\ steps[i].name = registry.steps[i].name

-----------------------------------------------------------------------------
(* Refinement: each of the three ways to reach the model is a model        *)
(* service.  Whoever waits for a scene, the lock, the weights, a           *)
(* connection or the model's name waits; generation and completion serve.  *)

StageAt ==
  [ idle |-> "idle", scene |-> "waiting", lock |-> "waiting", ensure |-> "waiting",
    check |-> "waiting", loaded |-> "waiting",
    load |-> "waiting", connect |-> "waiting", queued |-> "waiting", models |-> "waiting",
    generate |-> "served", chat |-> "served", reply |-> "replied", answered |-> "answered" ]

AnswerFor(o) ==
  CASE o \in {"bad request", "bad plan"} -> "refused"
    [] o \in {"no scene", "error"}       -> "failed"
    [] OTHER                             -> o

Stage   == [c \in Clients |-> StageAt[pc[c]]]
Answers == [p \in Plans |-> AnswerFor(outcome[p])]

Service == INSTANCE ModelService WITH
  Calls      <- Plans,
  Poller     <- Worker,
  oneAtATime <- cfg.backend # "http",
  oneProcess <- cfg.backend = "socket",
  dryRun     <- cfg.dryRun,
  stage      <- Stage,
  answer     <- Answers

\* However the worker and the plan calls come, fail, and are cut off by a server
\* that stops or crashes, they see a model service: one at a time is served where
\* the model is one's own, the error of one is no other's, and a plan is accepted
\* for a reply to that very call (node.py:504-556, 569-591; model_server.py:66-110).
ImplementsService == Service!Spec

-----------------------------------------------------------------------------
(* Liveness *)

\* A plan call is answered: it does not wait forever for a scene, for the lock,
\* for the model to load or fail to, for a server that stops or crashes, or for
\* an HTTP server (node.py:471-483, 527-556, 569-591).
PlanIsAnswered ==
  \A p \in Plans : pc[p] # "idle" ~> pc[p] = "answered"

\* The worker comes back from every evaluation, with a verdict or an error, so
\* that a gate that is open is looked at again (node.py:601-608).
EvaluationReturns == pc[Worker] # "idle" ~> pc[Worker] = "idle"

=============================================================================
