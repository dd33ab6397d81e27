------------------------- MODULE VerifierProperties -------------------------
(***************************************************************************)
(* What the verifier of Verifier.tla must, and must never, do; and, at the *)
(* end, what documents and tests say of it that the code does not do.      *)
(***************************************************************************)
EXTENDS Verifier

Stages == {"none", "store", "ack", "wake", "done", "raised"}

WorkerPlaces == {"top", "read", "idle", "scene", "infer", "check", "publish",
                 "close", "pause", "clear", "exit", "dead"}

Publications ==
  [ msg : Msgs, status : Statuses,
    semantic : SemanticStatuses, control : ControlActions ]

\* The variables of the node, its threads and the ghosts have their types.
TypeOK ==
  /\ frames \subseteq Cameras
  /\ taken \in 0..MaxReq
  /\ cb \in [Msgs -> Stages]
  /\ parsed \in [Msgs -> Requests \cup {NoReq}]
  /\ req \in Requests \cup {NoReq}
  /\ reqId \in 0..MaxReq
  /\ wake \in BOOLEAN
  /\ wpc \in WorkerPlaces
  /\ wreq \in Requests \cup {NoReq}
  /\ wid \in 0..MaxReq
  /\ wout \in Outcome
  /\ main \in {"spinning", "ended", "stopped", "woken", "destroyed", "over"}
  /\ ok \in BOOLEAN
  /\ verdict \in Publications \cup {NoMessage}
  /\ accepted \in [Ids -> 0..MaxReq]
  /\ acked \subseteq Msgs
  /\ answered \in [Ids -> Statuses \cup {"none"}]
  /\ late \in Nat

-----------------------------------------------------------------------------
(* Safety.                                                                 *)

\* A handler that has stored its request and has yet to set the event.
WakeUpcoming == \E m \in Msgs : cb[m] \in {"ack", "wake"}

\* No lost wakeup.  While the worker waits although there is a request it
\* has not read (it found none, or it read an older one), the event is set
\* or a handler is about to set it: the request is never left to a timeout,
\* in whatever order handlers store, acknowledge and set, and the worker
\* clears (node.py:383-389, 597-599, 636-644).  Once the node cannot
\* publish any more the handler may end early, and the worker ends too.
NoLostWakeup ==
  \/ wpc = "idle" /\ req # NoReq
  \/ wpc = "pause" /\ reqId # wid
  => wake \/ WakeUpcoming \/ ~CanPublish

\* Only SUCCESS closes the gate, and only its own: when no request is active
\* though requests were accepted, a SUCCESS verdict on the newest of them
\* has been published.  A late verdict on a replaced request never cancels
\* the request that replaced it (node.py:632-635).
GateClosedBySuccess ==
  req = NoReq /\ reqId > 0 => answered[reqId] = "SUCCESS"

\* A SUCCESS verdict is the worker's last word on a request: it publishes
\* nothing more about it (node.py:632-635, 595).
SuccessIsFinal ==
  [][wpc = "publish" /\ wpc' # "publish" => answered[wid] # "SUCCESS"]_vars

\* SUCCESS, on which the Behavior Tree moves on, is published only when the
\* model said SUCCESS on a scene, or the request accepts neither RUNNING nor
\* FAILURE, so that fit_status has nothing else to fall back on
\* (prompt.py:184-198).  That exception is more than the documents allow:
\* VLM_SERVER_REQUIREMENTS.md:77 has SUCCESS mean that the requested condition
\* is fully satisfied.
SuccessIsJudged ==
  wpc = "close" =>
    \/ wout.judged /\ wout.status = "SUCCESS"
    \/ wreq.allowed \subseteq {"SUCCESS", "WAIT_HUMAN"}

\* WAIT_HUMAN from the model, for a request that does not accept it, is
\* published as RUNNING and leaves the request active: the worker goes on to
\* wait (VLM_SERVER_REQUIREMENTS.md:83-85 and 103).
MappedWaitHumanKeepsGate ==
  [][ /\ wpc = "publish" /\ wpc' \in {"close", "pause"}
      /\ wout.status = "WAIT_HUMAN" /\ "WAIT_HUMAN" \notin wreq.allowed
      => verdict'.status = "RUNNING" /\ wpc' = "pause" ]_vars

\* Once the stop event is set the worker publishes at most one more verdict,
\* the one it was working on (node.py:594, 646-651).
AtMostOneVerdictAfterStop == late <= 1

\* An acknowledgement is a promise: the acknowledged request is the active
\* one, or a request stored later has replaced it, or SUCCESS was published
\* for it.  So a request sent after the acknowledgement of another one always
\* replaces it, although the handlers are reentrant and may store in any
\* order (node.py:378-389).
AcknowledgedIsHonoured ==
  \A m \in acked : \E i \in 1..reqId :
    /\ accepted[i] = m
    /\ i < reqId \/ req # NoReq \/ answered[i] = "SUCCESS"

-----------------------------------------------------------------------------
(* Refinement: the node implements the gate.  The gate is closed from the  *)
(* publication of SUCCESS on, before the worker clears self.req.           *)

Gate == INSTANCE SceneGate WITH
  Max    <- MaxReq,
  newest <- reqId,
  open   <- IF req = NoReq \/ (wpc = "close" /\ reqId = wid) THEN 0 ELSE reqId,
  answer <- answered

\* Every step of the threads is a step of the gate or leaves it unchanged.
\* The gate is the one of node.py:637-641, which only SUCCESS closes; the
\* documents have another one, see DocFinalVerdictClosesGate.
ImplementsGate == Gate!Spec

-----------------------------------------------------------------------------
(* Liveness, under FairSpec.                                               *)

\* Every accepted request gets a verdict, unless a newer one replaces it or
\* the node is stopped: as long as no earlier request had a pause that ends
\* the worker, failing inferences, missing scenes and replaced requests do
\* not keep it from being looked at (node.py:594-644).
NewestIsJudged ==
  \A i \in Ids :
    (/\ reqId = i /\ req # NoReq
     /\ \A j \in 1..(i - 1) : Pause(parsed[accepted[j]]) = "fits") ~>
      (answered[i] # "none" \/ reqId # i \/ main # "spinning")

\* After a verdict that leaves the gate open, FAILURE included, the worker
\* looks at the scene again for the same request, unless a newer one replaces
\* it or the node is stopped: a correction by a human is seen, as the comment at
\* node.py:638-640 wants it.  For a pause that Event.wait can take; whether
\* FAILURE should leave the gate open is DocFinalVerdictClosesGate's question.
OpenGateIsReevaluated ==
  \A i \in Ids :
    (wpc = "pause" /\ wid = i /\ Pause(wreq) = "fits") ~>
      ((wpc = "scene" /\ wid = i) \/ reqId # i \/ main # "spinning")

\* Stopping the node ends the worker (node.py:646-651).
StopEndsWorker == (main # "spinning") ~> (wpc \in {"exit", "dead"})

-----------------------------------------------------------------------------
(* What is said of the program and does not hold of it.                    *)

\* VLM_SERVER_REQUIREMENTS.md:90: the RUNNING acknowledgement is published
\* immediately, so no verdict on a request precedes it.
DocAckPrecedesVerdict ==
  \A i \in Ids : answered[i] # "none" => accepted[i] \in acked

\* node.py:637-641: the same attempt is re-evaluated until SUCCESS, so the
\* worker does not end while the node runs.
DocWorkerKeepsEvaluating == main = "spinning" => wpc # "dead"

\* VLM_SERVER_REQUIREMENTS.md:97 and 102: only non-final statuses are evaluated
\* again; SUCCESS, FAILURE and an allowed WAIT_HUMAN clear the active request.
\* So the worker never composes a scene for a request that has had one of them
\* (a published WAIT_HUMAN is one that the request allows).
DocFinalVerdictClosesGate ==
  wpc = "scene" => answered[wid] \in {"none", "RUNNING"}

\* tests/test_vlm_status_protocol.py:104-119: a WAIT_HUMAN of the model that the
\* request does not allow is published as RUNNING, with the control action
\* REQUEST_HUMAN.  That is what build_result_payload does with WAIT_HUMAN; the
\* worker has coerced it to RUNNING before (node.py:616).
DocMappedWaitHumanAsksHuman ==
  [][ /\ wpc = "publish" /\ wpc' \in {"close", "pause"}
      /\ wout.status = "WAIT_HUMAN" /\ "WAIT_HUMAN" \notin wreq.allowed
      => verdict'.control = "REQUEST_HUMAN" ]_vars

-----------------------------------------------------------------------------
(* How far that goes.  These hold, and are proved in VerifierProofs.       *)

\* What a verdict is about and what it may say: it carries the message of the
\* request that the worker read, and a status which that request accepts, or
\* RUNNING for a WAIT_HUMAN that it does not (node.py:602-632).
VerdictAnswersItsRequest ==
  [][ wpc = "publish" /\ wpc' \in {"close", "pause"} =>
        LET r == parsed[accepted[wid]]
        IN  /\ verdict'.msg = r.msg
            /\ \/ verdict'.status \in r.allowed
               \/ wout.status = "WAIT_HUMAN" /\ verdict'.status = "RUNNING" ]_vars

\* A verdict may precede the acknowledgement of its request, but not replace it:
\* the handler is about to publish it, or nothing can be published any more
\* (node.py:383-389).
AcknowledgementComes ==
  \A i \in 1..reqId :
    accepted[i] \in acked \/ cb[accepted[i]] = "ack" \/ ~CanPublish

\* While the node runs, nothing but a pause that Event.wait cannot take ends the
\* worker: the check period of a request that it accepted, or the node's own
\* for a request without one (node.py:594-644).  No exception of an inference
\* and no replaced request does.
OnlyOverlongPeriodEndsWorker ==
  main = "spinning" /\ wpc = "dead" =>
    \E i \in 1..reqId : Pause(parsed[accepted[i]]) = "overlong"

=============================================================================
