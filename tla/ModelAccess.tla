---------------------------- MODULE ModelAccess ----------------------------
(***************************************************************************)
(* How the vision-language model is reached: by the worker of the verifier *)
(* node, one evaluation after another, and by its GenerateTaskPlan         *)
(* callbacks, in the threads of the executor.  The model is in the node    *)
(* ("local", loaded on first use under inference_lock), behind the         *)
(* single-threaded model_server ("socket"), or behind an HTTP server       *)
(* ("http").                                                               *)
(*                                                                         *)
(* The worker's request and what becomes of its verdict are in Verifier;   *)
(* here it evaluates whenever it likes.  A frame is there or not.          *)
(***************************************************************************)
EXTENDS Integers, Sequences, FiniteSets, PlanRules

CONSTANTS Plans,         \* calls of the plan service, each made once (a bound)
          Threads,       \* threads of the MultiThreadedExecutor
          Configs,       \* configurations of the node and what it is asked, see below
          MaxTokens,     \* max_new_tokens
          PlannerTokens  \* planner_max_new_tokens

Worker  == "worker"
Clients == Plans \cup {Worker}
NoOne   == "no one"

ASSUME ModelAccessAssumption ==
  /\ Worker \notin Plans /\ NoOne \notin Clients
  /\ Threads \in Nat \ {0}
  /\ MaxTokens \in Nat \ {0} /\ PlannerTokens \in Nat \ {0}
  /\ \A c \in Configs :
       /\ c.backend \in {"local", "socket", "http"}
       /\ {c.disabled, c.lazy, c.dryRun, c.both, c.reasoning} \subseteq BOOLEAN
       /\ c.plans \subseteq Plans
       /\ \A r \in c.requests :
            /\ r.task \in [word : STRING, padded : BOOLEAN]
            /\ r.facts \in Texts
            /\ Len(r.registry.steps) \in Nat
       /\ \A reply \in c.replies : Len(reply.steps) \in Nat

VARIABLES
  cfg,      \* the configuration: backend, disabled, lazy, dryRun, both, reasoning,
            \* plans (the calls made), requests and replies (what they may hold)
  node,     \* "starting", "up" or "failed"
  frames,   \* cameras with a decoded frame
  facts,    \* latest_scene_facts_json, as a member of Texts
  pc,       \* where each client is
  request,  \* the request of each plan call
  outcome,  \* how each plan call was answered
  plan,     \* the plan of each accepted call
  lock,     \* inference_lock, an RLock: its owner and how often it is held
  loads,    \* times the weights were loaded into the node
  tried,    \* token limits that each client's present inference has tried
  server,   \* model_server: "down", "listening" or "stopping"
  queue     \* connections it has not accepted

planVars   == <<request, outcome, plan>>
localVars  == <<lock, loads>>
serverVars == <<server, queue>>
vars == <<cfg, node, frames, facts, pc, planVars, localVars, tried, serverVars>>

Unasked == [asked |-> FALSE]
NoPlan  == [made |-> FALSE]

Init ==
  /\ cfg \in Configs
  /\ node = "starting"
  /\ frames = {}
  /\ facts = "empty"
  /\ pc = [c \in Clients |-> "idle"]
  /\ request = [p \in Plans |-> Unasked]
  /\ outcome = [p \in Plans |-> "none"]
  /\ plan = [p \in Plans |-> NoPlan]
  /\ lock = [owner |-> NoOne, depth |-> 0]
  /\ loads = 0
  /\ tried = [c \in Clients |-> <<>>]
  /\ server \in {"down", "listening"}
  /\ queue = <<>>

VlmLoaded == loads > 0

\* __init__: the model is loaded at once unless that is put off, forbidden or
\* not this process's task; if it fails the node does not come up.
Construct ==
  /\ node = "starting"
  /\ IF cfg.backend = "local" /\ ~cfg.lazy /\ ~cfg.disabled
     THEN \/ node' = "up" /\ loads' = loads + 1
          \/ node' = "failed" /\ UNCHANGED loads
     ELSE node' = "up" /\ UNCHANGED loads
  /\ UNCHANGED <<cfg, frames, facts, pc, planVars, lock, tried, serverVars>>

-----------------------------------------------------------------------------
(* Callbacks.  Each takes a thread; a plan call keeps it until answered.   *)

InProgress == { p \in Plans : pc[p] \notin {"idle", "answered"} }
ThreadFree == Cardinality(InProgress) < Threads

OnImage(camera) ==
  /\ node = "up" /\ ThreadFree
  /\ frames' = frames \cup {camera}
  /\ UNCHANGED <<cfg, node, facts, pc, planVars, localVars, tried, serverVars>>

\* Mutant: what is no JSON object is stored as null.
OnSceneFactsOrNull(text) ==
  /\ node = "up" /\ ThreadFree
  /\ facts' = IF text = "object" THEN text ELSE "null"
  /\ UNCHANGED <<cfg, node, frames, pc, planVars, localVars, tried, serverVars>>

\* Mutant: the message is stored as it came.
OnAnySceneFacts(text) ==
  /\ node = "up" /\ ThreadFree
  /\ facts' = text
  /\ UNCHANGED <<cfg, node, frames, pc, planVars, localVars, tried, serverVars>>

\* Only a JSON object is stored.
OnSceneFacts(text) ==
  /\ node = "up" /\ ThreadFree
  /\ text = "object"
  /\ facts' = text
  /\ UNCHANGED <<cfg, node, frames, pc, planVars, localVars, tried, serverVars>>

SceneAvailable == IF cfg.both THEN frames # {} ELSE "front" \in frames

\* What a client does with a scene.
FirstStep ==
  [local |-> "lock", socket |-> "connect", http |-> "models"][cfg.backend]

\* _on_generate_plan and build_generate_plan_response up to the model call.
StartPlan(p) ==
  /\ node = "up" /\ ThreadFree
  /\ p \in cfg.plans /\ pc[p] = "idle"
  /\ \E r \in cfg.requests :
       /\ request' = [request EXCEPT ![p] = r]
       /\ \/ /\ ~RequestLoads(r, facts)
             /\ outcome' = [outcome EXCEPT ![p] = "bad request"]
             /\ pc' = [pc EXCEPT ![p] = "answered"]
             /\ UNCHANGED plan
          \/ /\ RequestLoads(r, facts) /\ cfg.dryRun /\ DryRunAccepted(r)
             /\ outcome' = [outcome EXCEPT ![p] = "accepted"]
             /\ plan' = [plan EXCEPT ![p] = CanonicalPlan(Stripped(r.task), r.registry)]
             /\ pc' = [pc EXCEPT ![p] = "answered"]
          \/ /\ RequestLoads(r, facts) /\ cfg.dryRun /\ ~DryRunAccepted(r)
             /\ outcome' = [outcome EXCEPT ![p] = "bad plan"]
             /\ pc' = [pc EXCEPT ![p] = "answered"]
             /\ UNCHANGED plan
          \/ /\ RequestLoads(r, facts) /\ ~cfg.dryRun
             /\ pc' = [pc EXCEPT ![p] = "scene"]
             /\ UNCHANGED <<outcome, plan>>
  /\ UNCHANGED <<cfg, node, frames, facts, localVars, tried, serverVars>>

\* _wait_for_scene finds one in one of its polls ...
FindScene(p) ==
  /\ pc[p] = "scene" /\ SceneAvailable
  /\ pc' = [pc EXCEPT ![p] = FirstStep]
  /\ UNCHANGED <<cfg, node, frames, facts, planVars, localVars, tried, serverVars>>

\* ... or gives up after ten seconds.
GiveUpOnScene(p) ==
  /\ pc[p] = "scene" /\ ~SceneAvailable
  /\ pc' = [pc EXCEPT ![p] = "answered"]
  /\ outcome' = [outcome EXCEPT ![p] = "no scene"]
  /\ UNCHANGED <<cfg, node, frames, facts, request, plan, localVars, tried, serverVars>>

\* _run_vlm; without a scene it returns at once and nothing happens here.
Evaluate ==
  /\ node = "up"
  /\ pc[Worker] = "idle" /\ SceneAvailable
  /\ pc' = [pc EXCEPT ![Worker] = FirstStep]
  /\ UNCHANGED <<cfg, node, frames, facts, planVars, localVars, tried, serverVars>>

-----------------------------------------------------------------------------
(* How an inference ends, for a set of clients.                            *)

\* The worker publishes a verdict either way; a plan call has a reply to
\* parse, or is answered with the error.
Succeed(c) ==
  /\ pc' = [pc EXCEPT ![c] = IF c = Worker THEN "idle" ELSE "reply"]
  /\ UNCHANGED outcome

Fail(failed) ==
  /\ pc' = [c \in Clients |-> IF c \notin failed THEN pc[c]
                              ELSE IF c = Worker THEN "idle" ELSE "answered"]
  /\ outcome' = [p \in Plans |-> IF p \in failed THEN "error" ELSE outcome[p]]

Answer(p) ==
  /\ pc[p] = "reply"
  /\ pc' = [pc EXCEPT ![p] = "answered"]
  /\ \E reply \in cfg.replies :
       \/ /\ PlanAccepted(request[p], reply)
          /\ outcome' = [outcome EXCEPT ![p] = "accepted"]
          /\ plan' = [plan EXCEPT ![p] = reply]
       \/ /\ ~PlanAccepted(request[p], reply)
          /\ outcome' = [outcome EXCEPT ![p] = "bad plan"]
          /\ UNCHANGED plan
  /\ UNCHANGED <<cfg, node, frames, facts, request, localVars, tried, serverVars>>

-----------------------------------------------------------------------------
(* The model in the node, under inference_lock.                            *)

\* Mutant: no lock at all.
NoLock(c) == c \in Clients

\* Mutant: a plain Lock, which its owner cannot take again.
CanLockOnce(c) == lock.owner = NoOne

CanLock(c) == lock.owner \in {NoOne, c}

Unlocked == [owner |-> NoOne, depth |-> 0]

Lock(c) ==
  /\ pc[c] = "lock" /\ CanLock(c)
  /\ lock' = [owner |-> c, depth |-> lock.depth + 1]
  /\ pc' = [pc EXCEPT ![c] = "ensure"]
  /\ UNCHANGED <<cfg, node, frames, facts, planVars, loads, tried, serverVars>>

\* An exception leaves every with-statement on its way.
RefuseToLoad(c) ==
  /\ pc[c] = "ensure" /\ cfg.disabled
  /\ Fail({c})
  /\ lock' = Unlocked
  /\ UNCHANGED <<cfg, node, frames, facts, request, plan, loads, tried, serverVars>>

\* The token limits that run_text_inference tries, the next one after the
\* previous ran out of GPU memory.
RetryLimit == 256
Lesser(m, n) == IF m < n THEN m ELSE n

TokenAttempts(tokens) ==
  IF tokens <= RetryLimit THEN <<tokens>> ELSE <<tokens, RetryLimit>>

GenerationLimit(c) ==
  IF c # Worker THEN PlannerTokens
  ELSE IF cfg.reasoning THEN MaxTokens ELSE Lesser(MaxTokens, 4)

Attempts(c) == TokenAttempts(GenerationLimit(c))

\* run_text_inference up to the first call of model.generate.
BeginGeneration(c) ==
  /\ tried' = [tried EXCEPT ![c] = <<Attempts(c)[1]>>]
  /\ pc' = [pc EXCEPT ![c] = "generate"]

\* _ensure_vlm_loaded, the check outside its own with-statement ...
UseLoaded(c) ==
  /\ pc[c] = "ensure" /\ ~cfg.disabled /\ VlmLoaded
  /\ BeginGeneration(c)
  /\ UNCHANGED <<cfg, node, frames, facts, planVars, localVars, serverVars>>

\* ... the with-statement, nested in that of the caller ...
LockAgain(c) ==
  /\ pc[c] = "ensure" /\ ~cfg.disabled /\ ~VlmLoaded
  /\ CanLock(c)
  /\ lock' = [owner |-> c, depth |-> lock.depth + 1]
  /\ pc' = [pc EXCEPT ![c] = "check"]
  /\ UNCHANGED <<cfg, node, frames, facts, planVars, loads, tried, serverVars>>

\* ... the same check inside it.  No other client has loaded since the first
\* one, for the caller holds the lock already ...
CheckAgain(c) ==
  /\ pc[c] = "check"
  /\ pc' = [pc EXCEPT ![c] = IF VlmLoaded THEN "loaded" ELSE "load"]
  /\ UNCHANGED <<cfg, node, frames, facts, planVars, localVars, tried, serverVars>>

\* ... and the load, which takes minutes ...
LoadReturns(c) ==
  /\ pc[c] = "load"
  /\ loads' = loads + 1
  /\ pc' = [pc EXCEPT ![c] = "loaded"]
  /\ UNCHANGED <<cfg, node, frames, facts, planVars, lock, tried, serverVars>>

\* Mutant: only the inner with-statement is left.
LoadFailsHolding(c) ==
  /\ pc[c] = "load"
  /\ Fail({c})
  /\ lock' = [owner |-> c, depth |-> lock.depth - 1]
  /\ UNCHANGED <<cfg, node, frames, facts, request, plan, loads, tried, serverVars>>

\* ... or fails: a dependency is missing, or the weights cannot be read.
LoadFails(c) ==
  /\ pc[c] = "load"
  /\ Fail({c})
  /\ lock' = Unlocked
  /\ UNCHANGED <<cfg, node, frames, facts, request, plan, loads, tried, serverVars>>

\* The inner with-statement is left, and generation begins.
LeaveEnsure(c) ==
  /\ pc[c] = "loaded"
  /\ lock' = [owner |-> c, depth |-> lock.depth - 1]
  /\ BeginGeneration(c)
  /\ UNCHANGED <<cfg, node, frames, facts, planVars, loads, serverVars>>

-----------------------------------------------------------------------------
(* One inference, in the node or in model_server.                          *)

\* The end of run_text_inference and of the caller's with-statement.
EndGeneration(c) ==
  /\ tried' = [tried EXCEPT ![c] = <<>>]
  /\ lock' = IF cfg.backend = "local" THEN Unlocked ELSE lock

GenerateReturns(c) ==
  /\ pc[c] = "generate"
  /\ Succeed(c)
  /\ EndGeneration(c)
  /\ UNCHANGED <<cfg, node, frames, facts, request, plan, loads, serverVars>>

RetryAfterOom(c) ==
  /\ pc[c] = "generate"
  /\ Len(tried[c]) < Len(Attempts(c))
  /\ tried' = [tried EXCEPT ![c] = Append(tried[c], Attempts(c)[Len(tried[c]) + 1])]
  /\ UNCHANGED <<cfg, node, frames, facts, pc, planVars, localVars, serverVars>>

\* Any exception of run_text_inference: the scene cannot be saved, the inputs
\* cannot be prepared, memory ran out for the last time, or freeing the GPU's
\* memory fails in the end, with a reply already there.
GenerateFails(c) ==
  /\ pc[c] = "generate"
  /\ Fail({c})
  /\ EndGeneration(c)
  /\ UNCHANGED <<cfg, node, frames, facts, request, plan, loads, serverVars>>

-----------------------------------------------------------------------------
(* model_server, its clients and its life.  It loads the model before it   *)
(* listens, and serves one connection after another.                       *)

Connect(c) ==
  /\ pc[c] = "connect" /\ server # "down"
  /\ queue' = Append(queue, c)
  /\ pc' = [pc EXCEPT ![c] = "queued"]
  /\ UNCHANGED <<cfg, node, frames, facts, planVars, localVars, tried, server>>

\* There is no socket, or nobody listens on it.
ConnectFails(c) ==
  /\ pc[c] = "connect" /\ server = "down"
  /\ Fail({c})
  /\ UNCHANGED <<cfg, node, frames, facts, request, plan, localVars, tried, serverVars>>

Serving == { c \in Clients : pc[c] = "generate" }

Accept ==
  /\ cfg.backend = "socket" /\ server = "listening"
  /\ Serving = {} /\ queue # <<>>
  /\ BeginGeneration(Head(queue))
  /\ queue' = Tail(queue)
  /\ UNCHANGED <<cfg, node, frames, facts, planVars, localVars, server>>

ServerStarts ==
  /\ cfg.backend = "socket" /\ server = "down"
  /\ server' = "listening"
  /\ UNCHANGED <<cfg, node, frames, facts, pc, planVars, localVars, tried, queue>>

\* SIGTERM or SIGINT: a thread calls server.shutdown().
ServerSignal ==
  /\ cfg.backend = "socket" /\ server = "listening"
  /\ server' = "stopping"
  /\ UNCHANGED <<cfg, node, frames, facts, pc, planVars, localVars, tried, queue>>

\* Mutant: the connections that wait are forgotten, not closed.
ServerGoneSilently(lost) ==
  /\ server' = "down"
  /\ queue' = <<>>
  /\ Fail(lost \ { c \in Clients : pc[c] = "queued" })
  /\ tried' = [c \in Clients |-> IF c \in lost THEN <<>> ELSE tried[c]]

\* The system closes the connections of a process that ends: recv returns
\* nothing or raises, and json.loads raises on what is there.
ServerGone(lost) ==
  /\ server' = "down"
  /\ queue' = <<>>
  /\ Fail(lost)
  /\ tried' = [c \in Clients |-> IF c \in lost THEN <<>> ELSE tried[c]]

Waiting == { c \in Clients : pc[c] = "queued" }

\* serve_forever returns once the connection being served is done.
ServerStops ==
  /\ cfg.backend = "socket" /\ server = "stopping" /\ Serving = {}
  /\ ServerGone(Waiting)
  /\ UNCHANGED <<cfg, node, frames, facts, request, plan, localVars>>

ServerCrashes ==
  /\ cfg.backend = "socket" /\ server # "down"
  /\ ServerGone(Waiting \cup Serving)
  /\ UNCHANGED <<cfg, node, frames, facts, request, plan, localVars>>

-----------------------------------------------------------------------------
(* An HTTP server: the model's name, then the completion; each call has a  *)
(* timeout.                                                                *)

AskModels(c) ==
  /\ pc[c] = "models"
  /\ pc' = [pc EXCEPT ![c] = "chat"]
  /\ UNCHANGED <<cfg, node, frames, facts, planVars, localVars, tried, serverVars>>

ChatReturns(c) ==
  /\ pc[c] = "chat"
  /\ Succeed(c)
  /\ UNCHANGED <<cfg, node, frames, facts, request, plan, localVars, tried, serverVars>>

HttpFails(c) ==
  /\ pc[c] \in {"models", "chat"}
  /\ Fail({c})
  /\ UNCHANGED <<cfg, node, frames, facts, request, plan, localVars, tried, serverVars>>

-----------------------------------------------------------------------------

\* What a client does by itself once it has started, but for waiting for the lock.
ClientStep(c) ==
  \/ RefuseToLoad(c) \/ UseLoaded(c) \/ LockAgain(c)
  \/ CheckAgain(c) \/ LoadReturns(c) \/ LoadFails(c) \/ LeaveEnsure(c)
  \/ GenerateReturns(c) \/ RetryAfterOom(c) \/ GenerateFails(c)
  \/ Connect(c) \/ ConnectFails(c)
  \/ AskModels(c) \/ ChatReturns(c) \/ HttpFails(c)

PlanStep(p) == FindScene(p) \/ GiveUpOnScene(p) \/ Answer(p)

ServerStep == Accept \/ ServerStops

\* A node that failed stays so.
Failed == node = "failed" /\ UNCHANGED vars

Next ==
  \/ Construct
  \/ \E camera \in {"front", "wrist"} : OnImage(camera)
  \/ \E text \in Texts : OnSceneFacts(text)
  \/ Evaluate
  \/ \E p \in Plans : StartPlan(p) \/ PlanStep(p)
  \/ \E c \in Clients : Lock(c) \/ ClientStep(c)
  \/ ServerStep \/ ServerStarts \/ ServerSignal \/ ServerCrashes
  \/ Failed

Spec == Init /\ [][Next]_vars

(***************************************************************************)
(* Fairness.  Threads that have started go on, generation ends (it is      *)
(* bounded by max_new_tokens), HTTP calls have timeouts, and a server that *)
(* is up accepts.  The worker leaves the lock alone for its check period   *)
(* between two evaluations, so a thread that waits for the lock gets it in *)
(* the end.  After a verdict on a request replaced meanwhile it comes back *)
(* without the pause (node.py:612): if requests never stop being replaced, *)
(* the strong fairness of Lock is a little more than the code says.        *)
(* Nothing obliges cameras, callers, or a server to start.                 *)
(***************************************************************************)
Fairness ==
  /\ \A c \in Clients : WF_vars(ClientStep(c)) /\ SF_vars(Lock(c))
  /\ \A p \in Plans : WF_vars(PlanStep(p))
  /\ WF_vars(ServerStep)

FairSpec == Spec /\ Fairness

=============================================================================
