------------------------------ MODULE Verifier ------------------------------
(***************************************************************************)
(* The live verifier: class VlmNode of vlm_live/node.py, run by            *)
(* vlm_live/cli.py.  Three kinds of threads share the node:                *)
(*                                                                         *)
(*   - executor threads run the topic callbacks.  The callback group is    *)
(*     reentrant, so the handlers of several requests may be in progress   *)
(*     at once; each step of a handler is an action of its own;            *)
(*   - the worker thread runs _evaluation_loop, one action per access to   *)
(*     the shared state;                                                   *)
(*   - the main thread spins the executor, then destroys the node.         *)
(*                                                                         *)
(* A critical section under self.lock is one action.  What the model says  *)
(* about an image is any verdict at all; wording and logging are left out. *)
(***************************************************************************)
EXTENDS Naturals, VlmProtocol

CONSTANTS
  MaxReq,       \* bound: messages that the request topic delivers in a run
  RawRequests,  \* the messages considered
  CameraView,   \* the parameter vlm_camera_view
  NodePeriod,   \* the parameter check_period_seconds: can Event.wait take it?
  Cameras       \* the cameras whose driver publishes frames

ASSUME VerifierAssumption ==
  /\ MaxReq \in Nat \ {0}
  /\ RawRequests \subseteq RawRequest
  /\ CameraView \in {"front", "both"}
  /\ NodePeriod \in {"fits", "overlong"}
  /\ Cameras \subseteq {"front", "wrist"}

VARIABLES
  frames,    \* cameras with a decoded frame in self.frames
  taken,     \* number of request messages taken from the topic
  cb,        \* where the _on_req handler of each message is
  parsed,    \* the request that handler has parsed
  req,       \* self.req
  reqId,     \* self.req_id
  wake,      \* self.wake
  wpc,       \* where the worker is in _evaluation_loop
  wreq,      \* its local request
  wid,       \* its local request_id
  wout,      \* its local result of _run_vlm
  main,      \* where the main thread is
  ok,        \* rclpy.ok(): the ROS context is valid
  verdict,   \* ghost: the verdict published in this round of the loop
  accepted,  \* ghost: accepted[i] is the message that got req_id i
  acked,     \* ghost: messages whose RUNNING acknowledgement was published
  answered,  \* ghost: answered[i] is the last verdict published for req_id i
  late       \* ghost: number of verdicts published after stop was set

handlerVars == <<taken, cb, parsed>>
requestVars == <<req, reqId>>
workerVars  == <<wpc, wreq, wid, wout>>
mainVars    == <<main, ok>>
ghostVars   == <<verdict, accepted, acked, answered, late>>
vars == <<frames, handlerVars, requestVars, wake, workerVars, mainVars, ghostVars>>

Msgs == 1..MaxReq
Ids  == 1..MaxReq

NoReq == [msg |-> 0, allowed |-> {}, period |-> "none"]

Requests == Request(Msgs)

\* The pause between two evaluations of a request: its own period, else the
\* node's, as declared or set by the user.
Pause(r) == IF r.period = "node" THEN NodePeriod ELSE r.period

NoMessage ==
  [msg |-> 0, status |-> "none", semantic |-> "none", control |-> "none"]

\* A verdict on the result topic.
Message(r, status) ==
  LET payload == BuildResultPayload(status, r.allowed)
  IN  [ msg      |-> r.msg,
        status   |-> payload.status,
        semantic |-> payload.semantic,
        control  |-> payload.control ]

Stop == main \in {"stopped", "woken", "destroyed", "over"}

\* rclpy refuses to publish once the context is shut down or the node
\* destroyed: publish raises.
CanPublish == ok /\ main \notin {"destroyed", "over"}

Init ==
  /\ frames = {}
  /\ taken = 0
  /\ cb = [m \in Msgs |-> "none"]
  /\ parsed = [m \in Msgs |-> NoReq]
  /\ req = NoReq
  /\ reqId = 0
  /\ wake = FALSE
  /\ wpc = "top"
  /\ wreq = NoReq
  /\ wid = 0
  /\ wout = NoVerdict
  /\ main = "spinning"
  /\ ok = TRUE
  /\ verdict = NoMessage
  /\ accepted = [i \in Ids |-> 0]
  /\ acked = {}
  /\ answered = [i \in Ids |-> "none"]
  /\ late = 0

-----------------------------------------------------------------------------
(* Executor threads.  Messages are taken in topic order, and only while    *)
(* the main thread spins; a handler that has started runs on by itself.    *)

\* A frame that cannot be decoded changes nothing; a later frame replaces
\* the earlier one, so only its presence matters here.
OnImage(camera) ==
  /\ main = "spinning"
  /\ camera \notin frames
  /\ frames' = frames \cup {camera}
  /\ UNCHANGED <<handlerVars, requestVars, wake, workerVars, mainVars, ghostVars>>

TakeMessage(stage, r) ==
  /\ main = "spinning"
  /\ taken < MaxReq
  /\ taken' = taken + 1
  /\ cb' = [cb EXCEPT ![taken + 1] = stage]
  /\ parsed' = [parsed EXCEPT ![taken + 1] = r]
  /\ UNCHANGED <<frames, requestVars, wake, workerVars, mainVars, ghostVars>>

TakeRequest(raw) ==
  /\ ParseAccepts(raw)
  /\ TakeMessage("store", ParseRequest(taken + 1, raw))

\* parse_request returned None: the handler returns.
DropRequest(raw) ==
  /\ ~ParseAccepts(raw) /\ ~ParseRaises(raw)
  /\ TakeMessage("done", NoReq)

\* parse_request raised; the executor keeps the exception for spin().
FailRequest(raw) ==
  /\ ParseRaises(raw)
  /\ TakeMessage("raised", NoReq)

StoreRequest(m) ==
  /\ cb[m] = "store"
  /\ req' = parsed[m]
  /\ reqId' = reqId + 1
  /\ accepted' = [accepted EXCEPT ![reqId + 1] = m]
  /\ cb' = [cb EXCEPT ![m] = "ack"]
  /\ UNCHANGED <<frames, taken, parsed, wake, workerVars, mainVars,
                 verdict, acked, answered, late>>

\* Mutant: the acknowledgement may be published before the request is stored.
AckRequestEarly(m) ==
  /\ cb[m] \in {"store", "ack"}
  /\ CanPublish
  /\ acked' = acked \cup {m}
  /\ cb' = IF cb[m] = "ack" THEN [cb EXCEPT ![m] = "wake"] ELSE cb
  /\ UNCHANGED <<frames, taken, parsed, requestVars, wake, workerVars, mainVars,
                 verdict, accepted, answered, late>>

\* The RUNNING acknowledgement, on the result topic.
AckRequest(m) ==
  /\ cb[m] = "ack"
  /\ CanPublish
  /\ acked' = acked \cup {m}
  /\ cb' = [cb EXCEPT ![m] = "wake"]
  /\ UNCHANGED <<frames, taken, parsed, requestVars, wake, workerVars, mainVars,
                 verdict, accepted, answered, late>>

\* publish raises: the handler ends before wake.set().
AckFails(m) ==
  /\ cb[m] = "ack"
  /\ ~CanPublish
  /\ cb' = [cb EXCEPT ![m] = "done"]
  /\ UNCHANGED <<frames, taken, parsed, requestVars, wake, workerVars, mainVars, ghostVars>>

WakeWorker(m) ==
  /\ cb[m] = "wake"
  /\ wake' = TRUE
  /\ cb' = [cb EXCEPT ![m] = "done"]
  /\ UNCHANGED <<frames, taken, parsed, requestVars, workerVars, mainVars, ghostVars>>

-----------------------------------------------------------------------------
(* The worker thread.                                                      *)

\* A local of the loop body is dead at the loop head; the model forgets it,
\* and the ghost of this round with it.
BackToTop ==
  /\ wpc' = "top"
  /\ wreq' = NoReq
  /\ wid' = 0
  /\ wout' = NoVerdict
  /\ verdict' = NoMessage

\* Mutant: the loop does not look at the stop event.
LoopTopUnchecked ==
  /\ wpc = "top"
  /\ wpc' = "read"
  /\ UNCHANGED <<frames, handlerVars, requestVars, wake, wreq, wid, wout, mainVars, ghostVars>>

LoopTop ==
  /\ wpc = "top"
  /\ wpc' = IF ok /\ ~Stop THEN "read" ELSE "exit"
  /\ UNCHANGED <<frames, handlerVars, requestVars, wake, wreq, wid, wout, mainVars, ghostVars>>

ReadNothing ==
  /\ wpc = "read"
  /\ req = NoReq
  /\ wpc' = "idle"
  /\ UNCHANGED <<frames, handlerVars, requestVars, wake, wreq, wid, wout, mainVars, ghostVars>>

ReadRequest ==
  /\ wpc = "read"
  /\ req # NoReq
  /\ wpc' = "scene"
  /\ wreq' = req
  /\ wid' = reqId
  /\ UNCHANGED <<frames, handlerVars, requestVars, wake, wout, mainVars, ghostVars>>

\* Event.wait returns because the event is set ...
WaitWoken ==
  /\ wpc \in {"idle", "pause"}
  /\ wake
  /\ wpc' = "clear"
  /\ UNCHANGED <<frames, handlerVars, requestVars, wake, wreq, wid, wout, mainVars, ghostVars>>

\* Mutant: the pause between two evaluations has no timeout.
WaitTimesOutWhenIdle ==
  /\ wpc = "idle"
  /\ ~wake
  /\ wpc' = "clear"
  /\ UNCHANGED <<frames, handlerVars, requestVars, wake, wreq, wid, wout, mainVars, ghostVars>>

\* ... or because its timeout has passed: 0.5 s, or the check period.
WaitTimesOut ==
  /\ wpc = "idle" \/ (wpc = "pause" /\ Pause(wreq) = "fits")
  /\ ~wake
  /\ wpc' = "clear"
  /\ UNCHANGED <<frames, handlerVars, requestVars, wake, wreq, wid, wout, mainVars, ghostVars>>

\* A timeout above threading.TIMEOUT_MAX raises OverflowError, outside the
\* loop's try block: the worker thread ends.
WaitOverflows ==
  /\ wpc = "pause"
  /\ Pause(wreq) = "overlong"
  /\ ~wake
  /\ wpc' = "dead"
  /\ UNCHANGED <<frames, handlerVars, requestVars, wake, wreq, wid, wout, mainVars, ghostVars>>

ClearWake ==
  /\ wpc = "clear"
  /\ wake' = FALSE
  /\ BackToTop
  /\ UNCHANGED <<frames, handlerVars, requestVars, mainVars, accepted, acked, answered, late>>

\* compose needs one of the two frames, compose_front the front frame.
SceneAvailable == IF CameraView = "both" THEN frames # {} ELSE "front" \in frames

ComposeScene ==
  /\ wpc = "scene"
  /\ wpc' = IF SceneAvailable THEN "infer" ELSE "check"
  /\ wout' = NoVerdict
  /\ UNCHANGED <<frames, handlerVars, requestVars, wake, wreq, wid, mainVars, ghostVars>>

\* Of the reason only that of a FAILURE is read again.
InferenceReturns ==
  /\ wpc = "infer"
  /\ wout' \in {o \in Outcome : o.judged /\ (o.uncertain => o.status = "FAILURE")}
  /\ wpc' = "check"
  /\ UNCHANGED <<frames, handlerVars, requestVars, wake, wreq, wid, mainVars, ghostVars>>

\* Mutant: an exception of _run_vlm ends the worker.
InferenceFailsUncaught ==
  /\ wpc = "infer"
  /\ wpc' = "dead"
  /\ UNCHANGED <<frames, handlerVars, requestVars, wake, wreq, wid, wout, mainVars, ghostVars>>

\* Any exception of _run_vlm becomes RUNNING with an error message.
InferenceFails ==
  /\ wpc = "infer"
  /\ wout' = NoVerdict
  /\ wpc' = "check"
  /\ UNCHANGED <<frames, handlerVars, requestVars, wake, wreq, wid, mainVars, ghostVars>>

\* The id _get_active_request returns.
ActiveId == IF req = NoReq THEN 0 ELSE reqId

StillActive ==
  /\ wpc = "check"
  /\ ActiveId = wid
  /\ wpc' = "publish"
  /\ UNCHANGED <<frames, handlerVars, requestVars, wake, wreq, wid, wout, mainVars, ghostVars>>

Superseded ==
  /\ wpc = "check"
  /\ ActiveId # wid
  /\ BackToTop
  /\ UNCHANGED <<frames, handlerVars, requestVars, wake, mainVars, accepted, acked, answered, late>>

\* Mutant: the event is cleared before the pause instead of after it.
PublishVerdictClearing ==
  /\ wpc = "publish"
  /\ CanPublish
  /\ LET status == PublishedStatus(wout, wreq.allowed)
     IN  /\ verdict' = Message(wreq, status)
         /\ answered' = [answered EXCEPT ![wid] = status]
         /\ wpc' = IF IsTerminalGateStatus(status) THEN "close" ELSE "pause"
  /\ wake' = FALSE
  /\ late' = IF Stop THEN late + 1 ELSE late
  /\ UNCHANGED <<frames, handlerVars, requestVars, wreq, wid, wout, mainVars, accepted, acked>>

\* Mutant: the verdict is published as one of the request active by now.
PublishVerdictForActive ==
  /\ wpc = "publish"
  /\ CanPublish
  /\ LET status == PublishedStatus(wout, wreq.allowed)
     IN  /\ verdict' = Message(IF req # NoReq THEN req ELSE wreq, status)
         /\ answered' = [answered EXCEPT ![wid] = status]
         /\ wpc' = IF IsTerminalGateStatus(status) THEN "close" ELSE "pause"
  /\ late' = IF Stop THEN late + 1 ELSE late
  /\ UNCHANGED <<frames, handlerVars, requestVars, wake, wreq, wid, wout, mainVars,
                 accepted, acked>>

PublishVerdict ==
  /\ wpc = "publish"
  /\ CanPublish
  /\ LET status == PublishedStatus(wout, wreq.allowed)
     IN  /\ verdict' = Message(wreq, status)
         /\ answered' = [answered EXCEPT ![wid] = status]
         /\ wpc' = IF IsTerminalGateStatus(status) THEN "close" ELSE "pause"
  /\ late' = IF Stop THEN late + 1 ELSE late
  /\ UNCHANGED <<frames, handlerVars, requestVars, wake, wreq, wid, wout, mainVars,
                 accepted, acked>>

\* publish raises, outside the try block: the worker thread ends.
PublishFails ==
  /\ wpc = "publish"
  /\ ~CanPublish
  /\ wpc' = "dead"
  /\ UNCHANGED <<frames, handlerVars, requestVars, wake, wreq, wid, wout, mainVars, ghostVars>>

\* Mutant: SUCCESS clears whatever request is active.
CloseGateUnchecked ==
  /\ wpc = "close"
  /\ req' = NoReq
  /\ wpc' = "clear"
  /\ UNCHANGED <<frames, handlerVars, reqId, wake, wreq, wid, wout, mainVars, ghostVars>>

CloseGate ==
  /\ wpc = "close"
  /\ req' = IF reqId = wid THEN NoReq ELSE req
  /\ wpc' = "clear"
  /\ UNCHANGED <<frames, handlerVars, reqId, wake, wreq, wid, wout, mainVars, ghostVars>>

-----------------------------------------------------------------------------
(* The main thread: executor.spin(), then destroy_node and shutdown.       *)

\* SIGINT: rclpy shuts the context down and spin() returns or raises.
Interrupt ==
  /\ main = "spinning"
  /\ main' = "ended"
  /\ ok' = FALSE
  /\ UNCHANGED <<frames, handlerVars, requestVars, wake, workerVars, ghostVars>>

\* spin() re-raises the exception of a handler.
SpinRaises ==
  /\ main = "spinning"
  /\ \E m \in Msgs : cb[m] = "raised"
  /\ main' = "ended"
  /\ UNCHANGED <<frames, handlerVars, requestVars, wake, workerVars, ok, ghostVars>>

SetStop ==
  /\ main = "ended"
  /\ main' = "stopped"
  /\ UNCHANGED <<frames, handlerVars, requestVars, wake, workerVars, ok, ghostVars>>

WakeToStop ==
  /\ main = "stopped"
  /\ main' = "woken"
  /\ wake' = TRUE
  /\ UNCHANGED <<frames, handlerVars, requestVars, workerVars, ok, ghostVars>>

\* join returns when the worker has ended or after two seconds, whatever
\* the worker is doing then.
DestroyNode ==
  /\ main = "woken"
  /\ main' = "destroyed"
  /\ UNCHANGED <<frames, handlerVars, requestVars, wake, workerVars, ok, ghostVars>>

ShutDown ==
  /\ main = "destroyed"
  /\ main' = "over"
  /\ ok' = FALSE
  /\ UNCHANGED <<frames, handlerVars, requestVars, wake, workerVars, ghostVars>>

-----------------------------------------------------------------------------

Handler(m) == StoreRequest(m) \/ AckRequest(m) \/ AckFails(m) \/ WakeWorker(m)

Take(raw) == TakeRequest(raw) \/ DropRequest(raw) \/ FailRequest(raw)

Wait == WaitWoken \/ WaitTimesOut \/ WaitOverflows

Inference == InferenceReturns \/ InferenceFails

Worker ==
  \/ LoopTop \/ ReadNothing \/ ReadRequest
  \/ Wait \/ ClearWake
  \/ ComposeScene \/ Inference
  \/ StillActive \/ Superseded
  \/ PublishVerdict \/ PublishFails \/ CloseGate

Main == Interrupt \/ SpinRaises \/ SetStop \/ WakeToStop \/ DestroyNode \/ ShutDown

Next ==
  \/ \E camera \in Cameras : OnImage(camera)
  \/ \E raw \in RawRequests : Take(raw)
  \/ \E m \in Msgs : Handler(m)
  \/ Worker
  \/ Main

Spec == Init /\ [][Next]_vars

(***************************************************************************)
(* Fairness.  A handler that has started, the worker and a shutdown in     *)
(* progress are threads that the operating system schedules; a wait with a *)
(* finite timeout ends.  That inference returns is an assumption about the *)
(* model server: the HTTP client has a timeout, the Unix-socket client has *)
(* none.  Nothing obliges cameras, clients or a user to act.               *)
(***************************************************************************)
Fairness ==
  /\ \A m \in Msgs : WF_vars(Handler(m))
  /\ WF_vars(Worker)
  /\ WF_vars(SpinRaises \/ SetStop \/ WakeToStop \/ DestroyNode \/ ShutDown)

FairSpec == Spec /\ Fairness

=============================================================================
