--------------------------- MODULE VerifierProofs ---------------------------
(***************************************************************************)
(* Proofs, for every number of requests and every set of messages, of the  *)
(* safety properties of VerifierProperties and of the refinement of        *)
(* SceneGate.  The argument is in README.md, section "Proofs".             *)
(***************************************************************************)
EXTENDS VerifierProperties, FiniteSets, FiniteSetTheorems, TLAPS

-----------------------------------------------------------------------------
(* The rules of VlmProtocol.                                               *)

LEMMA NormalizedIsSupported ==
  ASSUME NEW isList, NEW tokens
  PROVE  NormalizeStatuses(isList, tokens) \in (SUBSET Statuses) \ {{}}
BY DEF NormalizeStatuses, Statuses

LEMMA ParsedIsRequest ==
  ASSUME NEW m \in Msgs, NEW raw \in RawRequest
  PROVE  ParseRequest(m, raw) \in Requests /\ ParseRequest(m, raw) # NoReq
<1>1. CheckPeriod(raw) \in {"fits", "overlong", "node"}
  BY DEF CheckPeriod
<1>2. m # 0
  BY VerifierAssumption DEF Msgs
<1>3. QED
  BY <1>1, <1>2, NormalizedIsSupported DEF ParseRequest, Requests, Request, NoReq

LEMMA NoReqIsNoRequest == NoReq \notin Requests
BY VerifierAssumption DEF NoReq, Requests, Request, Msgs

LEMMA PublishedStatusType ==
  ASSUME NEW o \in Outcome, NEW allowed \in (SUBSET Statuses) \ {{}}
  PROVE  PublishedStatus(o, allowed) \in Statuses
BY DEF PublishedStatus, FitStatus, DowngradeUncertain, CoerceStatus, Outcome, Statuses

LEMMA NoVerdictType == NoVerdict \in Outcome
BY DEF NoVerdict, Outcome, Statuses

LEMMA MessageType ==
  ASSUME NEW r \in Requests, NEW status \in Statuses
  PROVE  Message(r, status) \in Publications
<1>1. SemanticContract(status).semantic \in SemanticStatuses
  BY DEF SemanticContract, SemanticStatuses, Statuses
<1>2. SemanticContract(status).control \in ControlActions
  BY DEF SemanticContract, ControlActions, Statuses
<1>3. CoerceStatus(status, r.allowed) \in Statuses
  BY DEF CoerceStatus, Statuses
<1>4. r.msg \in Msgs
  BY DEF Requests, Request
<1>5. QED
  BY <1>1, <1>2, <1>3, <1>4 DEF Message, BuildResultPayload, Publications

-----------------------------------------------------------------------------
(* Types.  That req_id stays within the number of messages needs a count:  *)
(* req_id is the number of messages stored so far.                         *)

Stored == {m \in Msgs : cb[m] \in {"ack", "wake"} \/ (cb[m] = "done" /\ parsed[m] # NoReq)}

HandlerInv ==
  /\ \A m \in Msgs : m > taken => cb[m] = "none"
  /\ \A m \in Msgs : cb[m] \in {"store", "ack", "wake"} => parsed[m] \in Requests
  /\ reqId = Cardinality(Stored)

Evaluating == {"scene", "infer", "check", "publish", "close", "pause"}

WorkerInv ==
  /\ wid <= reqId
  /\ wpc \in Evaluating => wreq \in Requests /\ wid > 0
  /\ req \in Requests => reqId > 0

TypeInv == TypeOK /\ HandlerInv /\ WorkerInv

LEMMA TypeInit == Init => TypeInv
<1> SUFFICES ASSUME Init PROVE TypeInv
  OBVIOUS
<1>1. TypeOK
  <2>1. frames \subseteq Cameras /\ taken \in 0..MaxReq
    BY VerifierAssumption DEF Init
  <2>2. cb \in [Msgs -> Stages] /\ parsed \in [Msgs -> Requests \cup {NoReq}]
    BY DEF Init, Stages
  <2>3. req \in Requests \cup {NoReq} /\ reqId \in 0..MaxReq
    BY VerifierAssumption DEF Init
  <2>4. /\ wpc \in WorkerPlaces /\ wreq \in Requests \cup {NoReq} /\ wid \in 0..MaxReq
        /\ wout \in Outcome
    BY VerifierAssumption, NoVerdictType DEF Init, WorkerPlaces
  <2>5. /\ accepted \in [Ids -> 0..MaxReq] /\ acked \subseteq Msgs
        /\ answered \in [Ids -> Statuses \cup {"none"}] /\ late \in Nat
    BY VerifierAssumption DEF Init
  <2>6. QED
    BY <2>1, <2>2, <2>3, <2>4, <2>5 DEF Init, TypeOK
<1>2. Stored = {}
  BY DEF Init, Stored
<1>3. HandlerInv
  BY <1>2, FS_EmptySet DEF Init, HandlerInv
<1>4. WorkerInv
  BY NoReqIsNoRequest DEF Init, WorkerInv, Evaluating
<1>5. QED
  BY <1>1, <1>3, <1>4 DEF TypeInv

\* A count of messages stays within their number.
LEMMA StoredCount ==
  ASSUME NEW S \in SUBSET Msgs
  PROVE  IsFiniteSet(S) /\ Cardinality(S) \in 0..MaxReq
<1>1. IsFiniteSet(Msgs) /\ Cardinality(Msgs) = MaxReq
  BY FS_Interval, VerifierAssumption DEF Msgs
<1>2. IsFiniteSet(S) /\ Cardinality(S) <= MaxReq
  BY <1>1, FS_Subset
<1>3. Cardinality(S) \in Nat
  BY <1>2, FS_CardinalityType
<1>4. QED
  BY <1>2, <1>3, VerifierAssumption

LEMMA TypeStep == TypeInv /\ [Next]_vars => TypeInv'
<1> SUFFICES ASSUME TypeInv, [Next]_vars PROVE TypeInv'
  OBVIOUS
<1> USE DEF TypeInv
<1> USE DEF handlerVars, requestVars, workerVars, mainVars, ghostVars
<1>a. ASSUME NEW camera \in Cameras, OnImage(camera) PROVE TypeInv'
  BY <1>a, VerifierAssumption DEF OnImage, TypeOK, HandlerInv, Stored, WorkerInv
<1>b. ASSUME NEW stage \in {"store", "done", "raised"}, NEW r \in Requests \cup {NoReq},
             stage = "store" => r \in Requests, stage # "store" => r = NoReq,
             TakeMessage(stage, r)
      PROVE  TypeInv'
  <2>1. taken + 1 \in Msgs /\ cb[taken + 1] = "none"
    BY <1>b, VerifierAssumption DEF TakeMessage, TypeOK, HandlerInv, Msgs
  <2>2. TypeOK'
    BY <1>b, <2>1 DEF TakeMessage, TypeOK, Stages, Msgs
  <2>3. Stored' = Stored
    BY <1>b, <2>1 DEF TakeMessage, TypeOK, Stored
  <2>4. \A m \in Msgs : m > taken' => cb'[m] = "none"
    BY <1>b, <2>1 DEF TakeMessage, TypeOK, HandlerInv, Msgs
  <2>5. \A m \in Msgs : cb'[m] \in {"store", "ack", "wake"} => parsed'[m] \in Requests
    BY <1>b, <2>1 DEF TakeMessage, TypeOK, HandlerInv
  <2>6. QED
    BY <1>b, <2>2, <2>3, <2>4, <2>5 DEF TakeMessage, HandlerInv, WorkerInv
<1>c. ASSUME NEW raw \in RawRequests, Take(raw) PROVE TypeInv'
  <2>0. raw \in RawRequest
    BY VerifierAssumption
  <2>1. CASE TakeRequest(raw)
    <3>1. taken + 1 \in Msgs
      BY <2>1, VerifierAssumption DEF TakeRequest, TakeMessage, TypeOK, Msgs
    <3>2. ParseRequest(taken + 1, raw) \in Requests
      BY <2>0, <3>1, ParsedIsRequest
    <3>3. QED
      BY <2>1, <3>2, <1>b DEF TakeRequest
  <2>2. CASE DropRequest(raw)
    BY <2>2, <1>b DEF DropRequest
  <2>3. CASE FailRequest(raw)
    BY <2>3, <1>b DEF FailRequest
  <2>4. QED
    BY <1>c, <2>1, <2>2, <2>3 DEF Take
<1>d. ASSUME NEW m \in Msgs, Handler(m) PROVE TypeInv'
  <2>1. CASE StoreRequest(m)
    <3>1. parsed[m] \in Requests
      BY <2>1 DEF StoreRequest, HandlerInv
    <3>2. Stored' = Stored \cup {m} /\ m \notin Stored
      BY <2>1, <3>1 DEF StoreRequest, Stored, TypeOK
    <3>3. Cardinality(Stored') = reqId + 1
      <4>1. IsFiniteSet(Stored) /\ Cardinality(Stored) \in Nat
        BY StoredCount DEF Stored
      <4>2. QED
        BY <3>2, <4>1, FS_AddElement DEF HandlerInv
    <3>4. reqId + 1 \in 0..MaxReq
      <4>1. Stored' \in SUBSET Msgs
        BY DEF Stored
      <4>2. QED
        BY <3>3, <4>1, StoredCount
    <3>5. TypeOK'
      BY <2>1, <3>1, <3>4 DEF StoreRequest, TypeOK, Stages, Msgs, Ids
    <3>6. HandlerInv'
      BY <2>1, <3>1, <3>3 DEF StoreRequest, HandlerInv, TypeOK
    <3>7. WorkerInv'
      BY <2>1, <3>1 DEF StoreRequest, WorkerInv, TypeOK
    <3>8. QED
      BY <3>5, <3>6, <3>7
  <2>2. CASE AckRequest(m)
    <3>1. TypeOK'
      BY <2>2 DEF AckRequest, TypeOK, Stages
    <3>2. Stored' = Stored
      BY <2>2 DEF AckRequest, Stored, TypeOK
    <3>3. QED
      BY <2>2, <3>1, <3>2 DEF AckRequest, HandlerInv, WorkerInv, TypeOK
  <2>3. CASE AckFails(m)
    <3>1. parsed[m] # NoReq
      BY <2>3, NoReqIsNoRequest DEF AckFails, HandlerInv
    <3>2. TypeOK'
      BY <2>3 DEF AckFails, TypeOK, Stages
    <3>3. Stored' = Stored
      BY <2>3, <3>1 DEF AckFails, Stored, TypeOK
    <3>4. QED
      BY <2>3, <3>2, <3>3 DEF AckFails, HandlerInv, WorkerInv, TypeOK
  <2>4. CASE WakeWorker(m)
    <3>1. parsed[m] # NoReq
      BY <2>4, NoReqIsNoRequest DEF WakeWorker, HandlerInv
    <3>2. TypeOK'
      BY <2>4 DEF WakeWorker, TypeOK, Stages
    <3>3. Stored' = Stored
      BY <2>4, <3>1 DEF WakeWorker, Stored, TypeOK
    <3>4. QED
      BY <2>4, <3>2, <3>3 DEF WakeWorker, HandlerInv, WorkerInv, TypeOK
  <2>5. QED
    BY <1>d, <2>1, <2>2, <2>3, <2>4 DEF Handler
<1>e. ASSUME Worker PROVE TypeInv'
  <2>1. CASE LoopTop
    BY <2>1 DEF LoopTop, TypeOK, WorkerPlaces, HandlerInv, Stored, WorkerInv, Evaluating
  <2>2. CASE ReadNothing
    BY <2>2 DEF ReadNothing, TypeOK, WorkerPlaces, HandlerInv, Stored, WorkerInv, Evaluating
  <2>3. CASE ReadRequest
    BY <2>3 DEF ReadRequest, TypeOK, WorkerPlaces, HandlerInv, Stored, WorkerInv, Evaluating
  <2>4. CASE Wait
    BY <2>4 DEF Wait, WaitWoken, WaitTimesOut, WaitOverflows, TypeOK, WorkerPlaces,
                HandlerInv, Stored, WorkerInv, Evaluating
  <2>5. CASE ClearWake \/ Superseded
    <3>1. wake' \in BOOLEAN
      BY <2>5 DEF ClearWake, Superseded, TypeOK
    <3>2. /\ BackToTop
          /\ UNCHANGED <<frames, handlerVars, requestVars, mainVars, accepted, acked,
                         answered, late>>
      BY <2>5 DEF ClearWake, Superseded
    <3>3. QED
      BY <3>1, <3>2, VerifierAssumption, NoVerdictType
      DEF BackToTop, TypeOK, WorkerPlaces, HandlerInv, Stored, WorkerInv, Evaluating
  <2>6. CASE ComposeScene
    BY <2>6, NoVerdictType DEF ComposeScene, TypeOK, WorkerPlaces,
                HandlerInv, Stored, WorkerInv, Evaluating
  <2>7. CASE Inference
    BY <2>7, NoVerdictType
    DEF Inference, InferenceReturns, InferenceFails, TypeOK, WorkerPlaces, HandlerInv, Stored, WorkerInv, Evaluating
  <2>8. CASE StillActive \/ PublishFails \/ CloseGate
    BY <2>8, NoReqIsNoRequest
    DEF StillActive, PublishFails, CloseGate, TypeOK, WorkerPlaces,
        HandlerInv, Stored, WorkerInv, Evaluating
  <2>9. CASE PublishVerdict
    <3> DEFINE status == PublishedStatus(wout, wreq.allowed)
    <3>1. wreq \in Requests
      BY <2>9 DEF PublishVerdict, WorkerInv, Evaluating
    <3>2. status \in Statuses
      BY <3>1, PublishedStatusType DEF TypeOK, Requests, Request
    <3>3. Message(wreq, status) \in Publications
      BY <3>1, <3>2, MessageType
    <3>a. /\ verdict' = Message(wreq, status)
          /\ answered' = [answered EXCEPT ![wid] = status]
          /\ wpc' \in {"close", "pause"}
          /\ late' \in {late, late + 1}
      BY <2>9 DEF PublishVerdict
    <3> HIDE DEF status
    <3>b. answered' \in [Ids -> Statuses \cup {"none"}]
      BY <3>a, <3>2 DEF TypeOK
    <3>c. wpc' \in WorkerPlaces /\ late' \in Nat /\ verdict' \in Publications \cup {NoMessage}
      BY <3>a, <3>3 DEF TypeOK, WorkerPlaces
    <3>d. UNCHANGED <<frames, taken, cb, parsed, req, reqId, wake, wreq, wid, wout, main, ok,
                      accepted, acked>>
      BY <2>9 DEF PublishVerdict
    <3>4. TypeOK'
      BY <3>b, <3>c, <3>d DEF TypeOK
    <3>5. QED
      BY <2>9, <3>4 DEF PublishVerdict, HandlerInv, Stored, WorkerInv, Evaluating
  <2>10. QED
    BY <1>e, <2>1, <2>2, <2>3, <2>4, <2>5, <2>6, <2>7, <2>8, <2>9 DEF Worker
<1>f. ASSUME Main PROVE TypeInv'
  BY <1>f DEF Main, Interrupt, SpinRaises, SetStop, WakeToStop, DestroyNode, ShutDown,
              TypeOK, HandlerInv, Stored, WorkerInv
<1>g. CASE UNCHANGED vars
  BY <1>g DEF vars, TypeOK, HandlerInv, Stored, WorkerInv
<1>h. QED
  BY <1>a, <1>c, <1>d, <1>e, <1>f, <1>g DEF Next

LEMMA TypeInvHolds == Spec => []TypeInv
BY TypeInit, TypeStep, PTL DEF Spec

\* Every variable keeps its type, whatever the number of requests; in
\* particular req_id counts the stored messages.
THEOREM TypeCorrect == Spec => []TypeOK
BY TypeInvHolds, PTL DEF TypeInv

-----------------------------------------------------------------------------
(* Wakeups.  The condition is needed from the publication on: it is there  *)
(* that the worker no longer looks whether its request is the newest one.  *)

Unread ==
  \/ wpc = "idle" /\ req # NoReq
  \/ wpc \in {"publish", "pause"} /\ reqId # wid

WakeInv == Unread => wake \/ WakeUpcoming \/ ~CanPublish

LEMMA WakeStep == TypeInv /\ WakeInv /\ [Next]_vars => WakeInv'
<1> SUFFICES ASSUME TypeInv, WakeInv, [Next]_vars PROVE WakeInv'
  OBVIOUS
<1> USE DEF handlerVars, requestVars, workerVars, mainVars, ghostVars
<1>1. ASSUME NEW camera \in Cameras, OnImage(camera) PROVE WakeInv'
  BY <1>1 DEF OnImage, WakeInv, Unread, WakeUpcoming, CanPublish
<1>2. ASSUME NEW raw \in RawRequests, Take(raw) PROVE WakeInv'
  <2>1. /\ taken + 1 \in Msgs /\ cb[taken + 1] = "none"
        /\ \E stage \in Stages : cb' = [cb EXCEPT ![taken + 1] = stage]
    BY <1>2, VerifierAssumption
    DEF Take, TakeRequest, DropRequest, FailRequest, TakeMessage, Stages,
        TypeInv, TypeOK, HandlerInv, Msgs
  <2>2. WakeUpcoming => WakeUpcoming'
    BY <2>1 DEF WakeUpcoming, TypeInv, TypeOK
  <2>3. UNCHANGED <<requestVars, wake, workerVars, mainVars>>
    BY <1>2 DEF Take, TakeRequest, DropRequest, FailRequest, TakeMessage
  <2>4. QED
    BY <2>2, <2>3 DEF WakeInv, Unread, CanPublish
<1>3. ASSUME NEW m \in Msgs, Handler(m) PROVE WakeInv'
  <2>1. CASE StoreRequest(m)
    BY <2>1 DEF StoreRequest, WakeInv, WakeUpcoming, TypeInv, TypeOK
  <2>2. CASE AckRequest(m)
    <3>1. WakeUpcoming'
      BY <2>2 DEF AckRequest, WakeUpcoming, TypeInv, TypeOK
    <3>2. QED
      BY <3>1 DEF WakeInv
  <2>3. CASE AckFails(m)
    BY <2>3 DEF AckFails, WakeInv, CanPublish
  <2>4. CASE WakeWorker(m)
    BY <2>4 DEF WakeWorker, WakeInv
  <2>5. QED
    BY <1>3, <2>1, <2>2, <2>3, <2>4 DEF Handler
<1>4. ASSUME Worker PROVE WakeInv'
  <2>1. UNCHANGED <<cb, main, ok>>
    BY <1>4 DEF Worker, LoopTop, ReadNothing, ReadRequest, Wait, WaitWoken, WaitTimesOut,
                WaitOverflows, ClearWake, ComposeScene, Inference, InferenceReturns,
                InferenceFails, StillActive, Superseded, PublishVerdict, PublishFails, CloseGate
  <2>2. CASE PublishVerdict
    <3>1. UNCHANGED <<req, reqId, wid, wake>> /\ wpc = "publish" /\ wpc' \in {"close", "pause"}
      BY <2>2 DEF PublishVerdict
    <3>2. QED
      BY <2>1, <3>1 DEF WakeInv, Unread, WakeUpcoming, CanPublish
  <2>3. CASE StillActive
    BY <2>3 DEF StillActive, ActiveId, WakeInv, Unread, TypeInv, WorkerInv, Evaluating
  <2>4. CASE ReadNothing
    BY <2>4 DEF ReadNothing, WakeInv, Unread
  <2>5. CASE \/ LoopTop \/ ReadRequest \/ Wait \/ ClearWake \/ ComposeScene \/ Inference
             \/ Superseded \/ PublishFails \/ CloseGate
    <3>1. wpc' \notin {"idle", "publish", "pause"}
      BY <2>5 DEF LoopTop, ReadRequest, Wait, WaitWoken, WaitTimesOut, WaitOverflows, ClearWake,
                  BackToTop, ComposeScene, Inference, InferenceReturns, InferenceFails,
                  Superseded, PublishFails, CloseGate
    <3>2. QED
      BY <3>1 DEF WakeInv, Unread
  <2>6. QED
    BY <1>4, <2>2, <2>3, <2>4, <2>5 DEF Worker
<1>5. ASSUME Main PROVE WakeInv'
  <2>1. UNCHANGED <<cb, req, reqId, wpc, wid>> /\ (wake' \/ UNCHANGED wake)
    BY <1>5 DEF Main, Interrupt, SpinRaises, SetStop, WakeToStop, DestroyNode, ShutDown
  <2>2. ~CanPublish => ~CanPublish'
    BY <1>5 DEF Main, Interrupt, SpinRaises, SetStop, WakeToStop, DestroyNode, ShutDown,
                CanPublish
  <2>3. QED
    BY <2>1, <2>2 DEF WakeInv, Unread, WakeUpcoming
<1>6. CASE UNCHANGED vars
  BY <1>6 DEF vars, WakeInv, Unread, WakeUpcoming, CanPublish
<1>7. QED
  BY <1>1, <1>2, <1>3, <1>4, <1>5, <1>6 DEF Next

\* The worker never waits past a request it has not read unless its event is
\* set or a handler is about to set it: no interleaving loses a wakeup.
THEOREM NoLostWakeupHolds == Spec => []NoLostWakeup
<1>1. Init => WakeInv
  BY DEF Init, WakeInv, Unread
<1>2. WakeInv => NoLostWakeup
  BY DEF WakeInv, Unread, NoLostWakeup
<1>3. QED
  BY <1>1, <1>2, WakeStep, TypeInvHolds, PTL DEF Spec

-----------------------------------------------------------------------------
(* The gate.                                                               *)

\* What the verdicts published so far say of the request being evaluated,
\* and of the active one.
GateInv ==
  /\ \A i \in Ids : i > reqId => answered[i] = "none"
  /\ wpc \in {"scene", "infer", "check", "publish"} =>
       /\ answered[wid] # "SUCCESS"
       /\ \A i \in Ids : i > wid => answered[i] = "none"
  /\ wpc = "close" => answered[wid] = "SUCCESS"
  /\ req # NoReq /\ answered[reqId] = "SUCCESS" => wpc = "close" /\ wid = reqId
  /\ req = NoReq /\ reqId > 0 => answered[reqId] = "SUCCESS"

LEMMA GateInit == Init => GateInv
BY DEF Init, GateInv, Ids

\* Apart from three steps of the worker and the storing of a request, no step
\* touches what the gate consists of.
LEMMA GateUntouched ==
  ASSUME TypeInv, [Next]_vars,
         ~(\E m \in Msgs : StoreRequest(m)), ~ReadRequest, ~PublishVerdict, ~CloseGate
  PROVE  /\ UNCHANGED <<req, reqId, answered>>
         /\ \/ UNCHANGED <<wpc, wid>>
            \/ UNCHANGED wid /\ {wpc, wpc'} \subseteq {"scene", "infer", "check", "publish"}
            \/ wpc # "close" /\ wpc' \notin {"scene", "infer", "check", "publish", "close"}
<1> USE DEF handlerVars, requestVars, workerVars, mainVars, ghostVars
<1>1. ASSUME NEW camera \in Cameras, OnImage(camera)
      PROVE  UNCHANGED <<req, reqId, answered, wpc, wid>>
  BY <1>1 DEF OnImage
<1>2. ASSUME NEW raw \in RawRequests, Take(raw)
      PROVE  UNCHANGED <<req, reqId, answered, wpc, wid>>
  BY <1>2 DEF Take, TakeRequest, DropRequest, FailRequest, TakeMessage
<1>3. ASSUME NEW m \in Msgs, Handler(m)
      PROVE  UNCHANGED <<req, reqId, answered, wpc, wid>>
  BY <1>3 DEF Handler, AckRequest, AckFails, WakeWorker
<1>4. ASSUME Main
      PROVE  UNCHANGED <<req, reqId, answered, wpc, wid>>
  BY <1>4 DEF Main, Interrupt, SpinRaises, SetStop, WakeToStop, DestroyNode, ShutDown
<1>5. ASSUME Worker
      PROVE  UNCHANGED <<req, reqId, answered>>
  BY <1>5 DEF Worker, LoopTop, ReadNothing, Wait, WaitWoken, WaitTimesOut, WaitOverflows,
              ClearWake, ComposeScene, Inference, InferenceReturns, InferenceFails,
              StillActive, Superseded, PublishFails
<1>6. ASSUME Worker
      PROVE  \/ UNCHANGED wid /\ {wpc, wpc'} \subseteq {"scene", "infer", "check", "publish"}
             \/ wpc # "close" /\ wpc' \notin {"scene", "infer", "check", "publish", "close"}
  <2>1. CASE ComposeScene \/ Inference \/ StillActive
    BY <2>1 DEF ComposeScene, Inference, InferenceReturns, InferenceFails, StillActive
  <2>2. CASE LoopTop \/ ReadNothing \/ Wait \/ ClearWake \/ Superseded \/ PublishFails
    BY <2>2 DEF LoopTop, ReadNothing, Wait, WaitWoken, WaitTimesOut, WaitOverflows,
                ClearWake, Superseded, BackToTop, PublishFails
  <2>3. QED
    BY <1>6, <2>1, <2>2 DEF Worker
<1>7. CASE UNCHANGED vars
  BY <1>7 DEF vars
<1>8. QED
  BY <1>1, <1>2, <1>3, <1>4, <1>5, <1>6, <1>7 DEF Next

LEMMA GateStep == TypeInv /\ GateInv /\ [Next]_vars => GateInv'
<1> SUFFICES ASSUME TypeInv, GateInv, [Next]_vars PROVE GateInv'
  OBVIOUS
<1> USE DEF handlerVars, requestVars, workerVars, mainVars, ghostVars
<1>t. reqId \in 0..MaxReq /\ wid \in 0..reqId /\ MaxReq \in Nat
  BY VerifierAssumption DEF TypeInv, TypeOK, WorkerInv
<1>1. ASSUME NEW m \in Msgs, StoreRequest(m) PROVE GateInv'
  <2>1. /\ req' # NoReq /\ reqId' = reqId + 1 /\ reqId' \in Ids
        /\ UNCHANGED <<answered, wpc, wid>>
    <3>1. req' # NoReq
      BY <1>1, NoReqIsNoRequest DEF StoreRequest, TypeInv, HandlerInv
    <3>2. reqId' \in 0..MaxReq
      BY TypeStep DEF TypeInv, TypeOK
    <3>3. QED
      BY <1>1, <1>t, <3>1, <3>2 DEF StoreRequest, Ids
  <2>2. answered[reqId'] = "none"
    BY <1>t, <2>1 DEF GateInv
  <2>3. QED
    BY <1>t, <2>1, <2>2 DEF GateInv, Ids
<1>2. CASE ReadRequest
  <2>1. /\ wpc = "read" /\ req # NoReq /\ wpc' = "scene" /\ wid' = reqId
        /\ UNCHANGED <<req, reqId, answered>>
    BY <1>2 DEF ReadRequest
  <2>2. QED
    BY <1>t, <2>1 DEF GateInv
<1>3. CASE PublishVerdict
  <2> DEFINE status == PublishedStatus(wout, wreq.allowed)
  <2>1. /\ wpc = "publish" /\ wpc' = IF status = "SUCCESS" THEN "close" ELSE "pause"
        /\ answered' = [answered EXCEPT ![wid] = status]
        /\ UNCHANGED <<req, reqId, wid>>
    BY <1>3 DEF PublishVerdict, IsTerminalGateStatus
  <2> HIDE DEF status
  <2>2. wid \in Ids /\ wid <= reqId
    BY <1>t, <2>1 DEF TypeInv, WorkerInv, Evaluating, Ids
  <2>3. answered'[wid] = status /\ \A i \in Ids : i # wid => answered'[i] = answered[i]
    BY <2>1, <2>2 DEF TypeInv, TypeOK
  <2>4. reqId \in Ids
    BY <1>t, <2>2 DEF Ids
  <2>5. \A i \in Ids : i > reqId => answered'[i] = "none"
    BY <1>t, <2>2, <2>3 DEF GateInv, Ids
  <2>6. req # NoReq /\ answered'[reqId] = "SUCCESS" => wpc' = "close" /\ wid = reqId
    BY <2>1, <2>3, <2>4 DEF GateInv
  <2>7. req = NoReq /\ reqId > 0 => answered'[reqId] = "SUCCESS"
    BY <2>1, <2>3, <2>4 DEF GateInv
  <2>8. QED
    BY <2>1, <2>3, <2>5, <2>6, <2>7 DEF GateInv
<1>4. CASE CloseGate
  <2>1. /\ wpc = "close" /\ req' = (IF reqId = wid THEN NoReq ELSE req) /\ wpc' = "clear"
        /\ UNCHANGED <<reqId, wid, answered>>
    BY <1>4 DEF CloseGate
  <2>2. QED
    BY <2>1 DEF GateInv
<1>5. CASE ~(\E m \in Msgs : StoreRequest(m)) /\ ~ReadRequest /\ ~PublishVerdict /\ ~CloseGate
  BY <1>5, GateUntouched DEF GateInv
<1>6. QED
  BY <1>1, <1>2, <1>3, <1>4, <1>5

LEMMA GateInvHolds == Spec => []GateInv
BY GateInit, GateStep, TypeInvHolds, PTL DEF Spec

\* When no request is active, SUCCESS was published for the newest one: a late
\* verdict on an older request never cancels the one that replaced it.
THEOREM GateClosedBySuccessHolds == Spec => []GateClosedBySuccess
BY GateInvHolds, PTL DEF GateInv, GateClosedBySuccess

\* The worker publishes nothing more about a request after SUCCESS.
THEOREM SuccessIsFinalHolds == Spec => SuccessIsFinal
<1>1. GateInv /\ [Next]_vars => [wpc = "publish" /\ wpc' # "publish" => answered[wid] # "SUCCESS"]_vars
  BY DEF GateInv
<1>2. QED
  BY <1>1, GateInvHolds, PTL DEF Spec, SuccessIsFinal

-----------------------------------------------------------------------------
(* Acknowledgements.                                                       *)

\* A handler that is past the lock, or was, has its message among the
\* accepted ones.
IsAccepted(m) == \E i \in 1..reqId : accepted[i] = m

AckInv == \A m \in Msgs : cb[m] \in {"ack", "wake"} \/ m \in acked => IsAccepted(m)

LEMMA AckStep == TypeInv /\ AckInv /\ [Next]_vars => AckInv'
<1> SUFFICES ASSUME TypeInv, AckInv, [Next]_vars PROVE AckInv'
  OBVIOUS
<1> USE DEF handlerVars, requestVars, workerVars, mainVars, ghostVars
<1>1. ASSUME NEW m \in Msgs, StoreRequest(m) PROVE AckInv'
  <2>1. reqId \in Nat /\ reqId' = reqId + 1 /\ reqId' \in Ids
    BY <1>1, TypeStep, VerifierAssumption DEF StoreRequest, TypeInv, TypeOK, Ids
  <2>2. /\ accepted' = [accepted EXCEPT ![reqId + 1] = m]
        /\ cb' = [cb EXCEPT ![m] = "ack"] /\ acked' = acked
    BY <1>1 DEF StoreRequest
  <2>3. IsAccepted(m)'
    BY <2>1, <2>2 DEF IsAccepted, TypeInv, TypeOK
  <2>4. \A n \in Msgs : IsAccepted(n) => IsAccepted(n)'
    BY <2>1, <2>2 DEF IsAccepted, TypeInv, TypeOK
  <2>5. QED
    BY <2>2, <2>3, <2>4 DEF AckInv, TypeInv, TypeOK
<1>2. ASSUME NEW m \in Msgs, AckRequest(m) \/ AckFails(m) \/ WakeWorker(m) PROVE AckInv'
  BY <1>2 DEF AckRequest, AckFails, WakeWorker, AckInv, IsAccepted, TypeInv, TypeOK
<1>3. ASSUME NEW raw \in RawRequests, Take(raw) PROVE AckInv'
  <2>1. /\ taken + 1 \in Msgs /\ UNCHANGED <<requestVars, accepted, acked>>
        /\ \E stage \in {"store", "done", "raised"} : cb' = [cb EXCEPT ![taken + 1] = stage]
    BY <1>3, VerifierAssumption
    DEF Take, TakeRequest, DropRequest, FailRequest, TakeMessage, TypeInv, TypeOK, Msgs
  <2>2. QED
    BY <2>1 DEF AckInv, IsAccepted, TypeInv, TypeOK
<1>4. ASSUME NEW camera \in Cameras, OnImage(camera) PROVE UNCHANGED <<cb, reqId, accepted, acked>>
  BY <1>4 DEF OnImage
<1>5. ASSUME Main PROVE UNCHANGED <<cb, reqId, accepted, acked>>
  BY <1>5 DEF Main, Interrupt, SpinRaises, SetStop, WakeToStop, DestroyNode, ShutDown
<1>6. ASSUME Worker PROVE UNCHANGED <<cb, reqId, accepted, acked>>
  BY <1>6 DEF Worker, LoopTop, ReadNothing, ReadRequest, Wait, WaitWoken, WaitTimesOut,
              WaitOverflows, ClearWake, ComposeScene, Inference, InferenceReturns,
              InferenceFails, StillActive, Superseded, PublishVerdict, PublishFails, CloseGate
<1>7. UNCHANGED <<cb, reqId, accepted, acked>> => AckInv'
  BY DEF AckInv, IsAccepted
<1>8. QED
  BY <1>1, <1>2, <1>3, <1>4, <1>5, <1>6, <1>7 DEF Next, Handler, vars

\* An acknowledged request is the active one, or was replaced, or was answered
\* SUCCESS.
THEOREM AcknowledgedIsHonouredHolds == Spec => []AcknowledgedIsHonoured
<1>1. Init => AckInv
  BY DEF Init, AckInv
<1>2. TypeInv /\ AckInv /\ GateInv => AcknowledgedIsHonoured
  <2> SUFFICES ASSUME TypeInv, AckInv, GateInv, NEW m \in acked
               PROVE  \E i \in 1..reqId :
                        accepted[i] = m /\ (i < reqId \/ req # NoReq \/ answered[i] = "SUCCESS")
    BY DEF AcknowledgedIsHonoured
  <2>1. PICK i \in 1..reqId : accepted[i] = m
    BY DEF AckInv, IsAccepted, TypeInv, TypeOK
  <2>2. i < reqId \/ (i = reqId /\ reqId > 0)
    BY <2>1 DEF TypeInv, TypeOK
  <2>3. QED
    BY <2>1, <2>2 DEF GateInv
<1>3. QED
  BY <1>1, <1>2, AckStep, TypeInvHolds, GateInvHolds, PTL DEF Spec

-----------------------------------------------------------------------------
(* Refinement of SceneGate.                                                *)

OpenGate == IF req = NoReq \/ (wpc = "close" /\ reqId = wid) THEN 0 ELSE reqId

LEMMA GateRefinesInit == Init => Gate!Init
BY DEF Init, Gate!Init, Ids

LEMMA GateRefinesStep == TypeInv /\ GateInv /\ [Next]_vars => [Gate!Next]_(Gate!gateVars)
<1> SUFFICES ASSUME TypeInv, GateInv, [Next]_vars
             PROVE  Gate!Next \/ UNCHANGED <<reqId, OpenGate, answered>>
  BY DEF Gate!gateVars, OpenGate
<1> USE DEF handlerVars, requestVars, workerVars, mainVars, ghostVars
<1>t. reqId \in 0..MaxReq /\ wid \in 0..reqId /\ MaxReq \in Nat
  BY VerifierAssumption DEF TypeInv, TypeOK, WorkerInv
<1>1. ASSUME NEW m \in Msgs, StoreRequest(m) PROVE Gate!Accept
  <2>1. req' # NoReq
    BY <1>1, NoReqIsNoRequest DEF StoreRequest, TypeInv, HandlerInv
  <2>2. reqId' = reqId + 1 /\ reqId' \in 0..MaxReq
    BY <1>1, TypeStep DEF StoreRequest, TypeInv, TypeOK
  <2>3. UNCHANGED <<answered, wpc, wid>>
    BY <1>1 DEF StoreRequest
  <2>4. OpenGate' = reqId + 1
    BY <1>t, <2>1, <2>2, <2>3 DEF OpenGate
  <2>5. QED
    BY <1>t, <2>2, <2>3, <2>4 DEF Gate!Accept, OpenGate
<1>2. CASE ReadRequest
  BY <1>2 DEF ReadRequest, OpenGate
<1>3. CASE PublishVerdict
  <2> DEFINE status == PublishedStatus(wout, wreq.allowed)
  <2>1. /\ wpc = "publish" /\ wpc' = IF status = "SUCCESS" THEN "close" ELSE "pause"
        /\ answered' = [answered EXCEPT ![wid] = status]
        /\ UNCHANGED <<req, reqId, wid>>
    BY <1>3 DEF PublishVerdict, IsTerminalGateStatus
  <2>2. wreq \in Requests /\ wid > 0
    BY <2>1 DEF TypeInv, WorkerInv, Evaluating
  <2>3. status \in Statuses
    BY <2>2, PublishedStatusType DEF TypeInv, TypeOK, Requests, Request
  <2> HIDE DEF status
  <2>4. answered[wid] # "SUCCESS" /\ \A j \in wid+1..MaxReq : answered[j] = "none"
    BY <1>t, <2>1 DEF GateInv, Ids
  <2>5. OpenGate' = IF status = "SUCCESS" /\ wid = OpenGate THEN 0 ELSE OpenGate
    BY <2>1, <2>2 DEF OpenGate
  <2>6. wid \in 1..reqId /\ wid \in 1..MaxReq
    BY <1>t, <2>2
  <2>7. Gate!Answer(wid, status)
    BY <2>1, <2>4, <2>5, <2>6 DEF Gate!Answer, OpenGate
  <2>8. QED
    BY <2>3, <2>6, <2>7 DEF Gate!Next
<1>4. CASE CloseGate
  BY <1>4 DEF CloseGate, OpenGate
<1>5. CASE ~(\E m \in Msgs : StoreRequest(m)) /\ ~ReadRequest /\ ~PublishVerdict /\ ~CloseGate
  BY <1>5, GateUntouched DEF OpenGate
<1>6. QED
  BY <1>1, <1>2, <1>3, <1>4, <1>5 DEF Gate!Next

\* The node, with all its threads, implements the gate.
THEOREM VerifierImplementsGate == Spec => ImplementsGate
BY GateRefinesInit, GateRefinesStep, TypeInvHolds, GateInvHolds, PTL
DEF Spec, ImplementsGate, Gate!Spec

-----------------------------------------------------------------------------
(* Shutdown.                                                               *)

StopInv ==
  /\ ~Stop => late = 0
  /\ late \in 0..1
  /\ late = 1 => wpc \in {"close", "pause", "clear", "top", "exit", "dead"}

LEMMA StopStep == StopInv /\ [Next]_vars => StopInv'
<1> SUFFICES ASSUME StopInv, [Next]_vars PROVE StopInv'
  OBVIOUS
<1> USE DEF handlerVars, requestVars, workerVars, mainVars, ghostVars
<1>1. ASSUME NEW camera \in Cameras, OnImage(camera) PROVE UNCHANGED <<main, late, wpc>>
  BY <1>1 DEF OnImage
<1>2. ASSUME NEW raw \in RawRequests, Take(raw) PROVE UNCHANGED <<main, late, wpc>>
  BY <1>2 DEF Take, TakeRequest, DropRequest, FailRequest, TakeMessage
<1>3. ASSUME NEW m \in Msgs, Handler(m) PROVE UNCHANGED <<main, late, wpc>>
  BY <1>3 DEF Handler, StoreRequest, AckRequest, AckFails, WakeWorker
<1>4. ASSUME Main PROVE (Stop => Stop') /\ UNCHANGED <<late, wpc>>
  BY <1>4 DEF Main, Interrupt, SpinRaises, SetStop, WakeToStop, DestroyNode, ShutDown, Stop
<1>5. CASE PublishVerdict
  BY <1>5 DEF PublishVerdict, StopInv, Stop
<1>6. CASE LoopTop
  BY <1>6 DEF LoopTop, StopInv, Stop
<1>7. CASE Worker /\ ~PublishVerdict /\ ~LoopTop
  <2>1. UNCHANGED <<main, late>>
    BY <1>7 DEF Worker, ReadNothing, ReadRequest, Wait, WaitWoken, WaitTimesOut, WaitOverflows,
                ClearWake, ComposeScene, Inference, InferenceReturns, InferenceFails,
                StillActive, Superseded, PublishFails, CloseGate
  <2>2. wpc \in {"close", "pause", "clear", "top", "exit", "dead"}
          => wpc' \in {"close", "pause", "clear", "top", "exit", "dead"}
    BY <1>7 DEF Worker, ReadNothing, ReadRequest, Wait, WaitWoken, WaitTimesOut, WaitOverflows,
                ClearWake, ComposeScene, Inference, InferenceReturns, InferenceFails,
                StillActive, Superseded, BackToTop, PublishFails, CloseGate
  <2>3. QED
    BY <2>1, <2>2 DEF StopInv, Stop
<1>8. CASE UNCHANGED vars
  BY <1>8 DEF vars, StopInv, Stop
<1>9. QED
  BY <1>1, <1>2, <1>3, <1>4, <1>5, <1>6, <1>7, <1>8 DEF Next, StopInv, Stop

\* After the stop event the worker publishes at most the verdict in progress.
THEOREM AtMostOneVerdictAfterStopHolds == Spec => []AtMostOneVerdictAfterStop
<1>1. Init => StopInv
  BY DEF Init, StopInv
<1>2. StopInv => AtMostOneVerdictAfterStop
  BY DEF StopInv, AtMostOneVerdictAfterStop
<1>3. QED
  BY <1>1, <1>2, StopStep, PTL DEF Spec

-----------------------------------------------------------------------------
(* Verdicts.                                                               *)

\* SUCCESS comes from SUCCESS, or from a request that leaves no other choice.
LEMMA SuccessComesFromSuccess ==
  ASSUME NEW o \in Outcome, NEW allowed \in (SUBSET Statuses) \ {{}},
         PublishedStatus(o, allowed) = "SUCCESS"
  PROVE  o.status = "SUCCESS" \/ allowed \subseteq {"SUCCESS", "WAIT_HUMAN"}
BY DEF PublishedStatus, FitStatus, DowngradeUncertain, CoerceStatus, Outcome, Statuses

\* The worker never hands build_result_payload a status it would coerce.
LEMMA PublishedNeedsNoCoercion ==
  ASSUME NEW o \in Outcome, NEW allowed \in (SUBSET Statuses) \ {{}}
  PROVE  LET status == PublishedStatus(o, allowed)
         IN  CoerceStatus(status, allowed) = status
BY DEF PublishedStatus, FitStatus, DowngradeUncertain, CoerceStatus, Outcome, Statuses

VerdictInv ==
  /\ wpc = "close" => PublishedStatus(wout, wreq.allowed) = "SUCCESS"
  /\ wout.status # "RUNNING" => wout.judged

LEMMA VerdictStep == TypeInv /\ VerdictInv /\ [Next]_vars => VerdictInv'
<1> SUFFICES ASSUME TypeInv, VerdictInv, [Next]_vars PROVE VerdictInv'
  OBVIOUS
<1> USE DEF handlerVars, requestVars, workerVars, mainVars, ghostVars
<1>1. ASSUME NEW camera \in Cameras, OnImage(camera) PROVE VerdictInv'
  BY <1>1 DEF OnImage, VerdictInv
<1>2. ASSUME NEW raw \in RawRequests, Take(raw) PROVE VerdictInv'
  BY <1>2 DEF Take, TakeRequest, DropRequest, FailRequest, TakeMessage, VerdictInv
<1>3. ASSUME NEW m \in Msgs, Handler(m) PROVE VerdictInv'
  BY <1>3 DEF Handler, StoreRequest, AckRequest, AckFails, WakeWorker, VerdictInv
<1>4. ASSUME Main PROVE VerdictInv'
  BY <1>4 DEF Main, Interrupt, SpinRaises, SetStop, WakeToStop, DestroyNode, ShutDown,
              VerdictInv
<1>5. CASE PublishVerdict
  BY <1>5 DEF PublishVerdict, IsTerminalGateStatus, VerdictInv
<1>6. CASE Worker /\ ~PublishVerdict
  <2>1. wpc' # "close"
    BY <1>6 DEF Worker, LoopTop, ReadNothing, ReadRequest, Wait, WaitWoken, WaitTimesOut,
                WaitOverflows, ClearWake, ComposeScene, Inference, InferenceReturns,
                InferenceFails, StillActive, Superseded, BackToTop, PublishFails, CloseGate
  <2>2. UNCHANGED wout \/ wout' = NoVerdict \/ wout'.judged
    BY <1>6 DEF Worker, LoopTop, ReadNothing, ReadRequest, Wait, WaitWoken, WaitTimesOut,
                WaitOverflows, ClearWake, ComposeScene, Inference, InferenceReturns,
                InferenceFails, StillActive, Superseded, BackToTop, PublishFails, CloseGate
  <2>3. QED
    BY <2>1, <2>2 DEF VerdictInv, NoVerdict
<1>7. CASE UNCHANGED vars
  BY <1>7 DEF vars, VerdictInv
<1>8. QED
  BY <1>1, <1>2, <1>3, <1>4, <1>5, <1>6, <1>7 DEF Next

LEMMA VerdictInvHolds == Spec => []VerdictInv
<1>1. Init => VerdictInv
  BY DEF Init, VerdictInv, NoVerdict
<1>2. QED
  BY <1>1, VerdictStep, TypeInvHolds, PTL DEF Spec

\* SUCCESS is published only on the model's SUCCESS about a scene, unless the
\* request accepts neither RUNNING nor FAILURE.
THEOREM SuccessIsJudgedHolds == Spec => []SuccessIsJudged
<1>1. TypeInv /\ VerdictInv => SuccessIsJudged
  <2> SUFFICES ASSUME TypeInv, VerdictInv, wpc = "close"
               PROVE  \/ wout.judged /\ wout.status = "SUCCESS"
                      \/ wreq.allowed \subseteq {"SUCCESS", "WAIT_HUMAN"}
    BY DEF SuccessIsJudged
  <2>1. wreq.allowed \in (SUBSET Statuses) \ {{}} /\ wout \in Outcome
    BY DEF TypeInv, TypeOK, WorkerInv, Evaluating, Requests, Request
  <2>2. wout.status = "SUCCESS" \/ wreq.allowed \subseteq {"SUCCESS", "WAIT_HUMAN"}
    BY <2>1, SuccessComesFromSuccess DEF VerdictInv
  <2>3. QED
    BY <2>2 DEF VerdictInv
<1>2. QED
  BY <1>1, TypeInvHolds, VerdictInvHolds, PTL

\* Only PublishVerdict leads from the publication to what follows it.
LEMMA OnlyPublishingPublishes ==
  ASSUME [Next]_vars, wpc = "publish", wpc' \in {"close", "pause"}
  PROVE  PublishVerdict
<1>1. wpc' # wpc
  OBVIOUS
<1>2. UNCHANGED wpc \/ Worker
  BY DEF Next, vars, workerVars, OnImage, Take, TakeRequest, DropRequest, FailRequest,
         TakeMessage, Handler, StoreRequest, AckRequest, AckFails, WakeWorker, Main,
         Interrupt, SpinRaises, SetStop, WakeToStop, DestroyNode, ShutDown
<1>3. QED
  BY <1>1, <1>2 DEF Worker, LoopTop, ReadNothing, ReadRequest, Wait, WaitWoken,
              WaitTimesOut, WaitOverflows, ClearWake, ComposeScene, Inference,
              InferenceReturns, InferenceFails, StillActive, Superseded, PublishFails,
              CloseGate

\* A WAIT_HUMAN that the request does not accept is published as RUNNING, and
\* the worker goes on to wait (node.py:616-632).
THEOREM MappedWaitHumanKeepsGateHolds == Spec => MappedWaitHumanKeepsGate
<1>1. ASSUME [Next]_vars, wpc = "publish", wpc' \in {"close", "pause"}
      PROVE  PublishVerdict
  BY <1>1, OnlyPublishingPublishes
<1>2. ASSUME PublishVerdict, wout.status = "WAIT_HUMAN", "WAIT_HUMAN" \notin wreq.allowed
      PROVE  verdict'.status = "RUNNING" /\ wpc' = "pause"
  <2>1. PublishedStatus(wout, wreq.allowed) = "RUNNING"
    BY <1>2 DEF PublishedStatus, CoerceStatus, DowngradeUncertain
  <2>2. QED
    BY <1>2, <2>1 DEF PublishVerdict, Message, BuildResultPayload, CoerceStatus, IsTerminalGateStatus
<1>3. [Next]_vars =>
        ( /\ wpc = "publish" /\ wpc' \in {"close", "pause"}
          /\ wout.status = "WAIT_HUMAN" /\ "WAIT_HUMAN" \notin wreq.allowed
          => verdict'.status = "RUNNING" /\ wpc' = "pause" )
  BY <1>1, <1>2
<1>4. QED
  BY <1>3, PTL DEF Spec, MappedWaitHumanKeepsGate

-----------------------------------------------------------------------------
(* Requests.  The number that the worker keeps with its request leads back *)
(* to the message it came from, whose handler is past the lock.            *)

\* A request was stored under number i, and its handler acknowledges it.
RequestOK(i) ==
  LET m == accepted[i]
  IN  /\ m \in Msgs /\ parsed[m] \in Requests
      /\ cb[m] \in {"ack", "wake", "done"}
      /\ m \in acked \/ cb[m] = "ack" \/ ~CanPublish

RequestInv ==
  /\ \A i \in 1..reqId : RequestOK(i)
  /\ req # NoReq => req = parsed[accepted[reqId]]
  /\ wpc \in Evaluating => wreq = parsed[accepted[wid]]

\* A request that was stored stays what it is while its message's handler and
\* the other handlers go on.
LEMMA RequestStays ==
  ASSUME TypeInv, NEW i \in 1..reqId, RequestOK(i), accepted'[i] = accepted[i],
         parsed'[accepted[i]] = parsed[accepted[i]],
         \/ cb'[accepted[i]] = cb[accepted[i]]
         \/ cb'[accepted[i]] = "wake" /\ accepted[i] \in acked'
         \/ cb'[accepted[i]] = "done" /\ (cb[accepted[i]] = "wake" \/ ~CanPublish'),
         acked \subseteq acked', ~CanPublish => ~CanPublish'
  PROVE  RequestOK(i)'
BY DEF RequestOK

\* What no step but the storing of a request does: the requests stored so far
\* stay, and so does what the node knows of them.
RequestsKept ==
  \A i \in 1..reqId :
    /\ RequestOK(i)'
    /\ accepted'[i] = accepted[i]
    /\ parsed'[accepted[i]] = parsed[accepted[i]]

LEMMA StepKeepsRequests ==
  ASSUME TypeInv, RequestInv, [Next]_vars
  PROVE  RequestsKept
<1> USE DEF handlerVars, requestVars, workerVars, mainVars, ghostVars
<1>t. reqId \in 0..MaxReq /\ MaxReq \in Nat /\ (\A i \in 1..reqId : RequestOK(i) /\ i \in Ids)
  BY VerifierAssumption DEF TypeInv, TypeOK, RequestInv, Ids
<1>a. ASSUME UNCHANGED <<cb, parsed, accepted, acked>>, ~CanPublish => ~CanPublish'
      PROVE  RequestsKept
  BY <1>a, <1>t, RequestStays DEF RequestsKept
<1>1. ASSUME NEW camera \in Cameras, OnImage(camera) PROVE RequestsKept
  BY <1>1, <1>a DEF OnImage, CanPublish
<1>2. ASSUME NEW raw \in RawRequests, Take(raw) PROVE RequestsKept
  <2>1. /\ taken + 1 \in Msgs /\ cb[taken + 1] = "none"
        /\ UNCHANGED <<accepted, acked, main, ok>>
        /\ \A m \in Msgs : m # taken + 1 => cb'[m] = cb[m] /\ parsed'[m] = parsed[m]
    BY <1>2, VerifierAssumption
    DEF Take, TakeRequest, DropRequest, FailRequest, TakeMessage, TypeInv, TypeOK, HandlerInv, Msgs
  <2>2. \A i \in 1..reqId : accepted[i] \in Msgs /\ accepted[i] # taken + 1
    BY <1>t, <2>1 DEF RequestOK
  <2>3. QED
    BY <1>t, <2>1, <2>2, RequestStays DEF RequestsKept, CanPublish
<1>3. ASSUME NEW m \in Msgs, StoreRequest(m) PROVE RequestsKept
  <2>1. /\ cb[m] = "store" /\ UNCHANGED <<parsed, acked, main, ok>>
        /\ \A n \in Msgs : n # m => cb'[n] = cb[n]
        /\ \A i \in 1..reqId : accepted'[i] = accepted[i]
    BY <1>3, <1>t DEF StoreRequest, TypeInv, TypeOK, Ids
  <2>2. \A i \in 1..reqId : accepted[i] \in Msgs /\ accepted[i] # m
    BY <1>t, <2>1 DEF RequestOK
  <2>3. QED
    BY <1>t, <2>1, <2>2, RequestStays DEF RequestsKept, CanPublish
<1>4. ASSUME NEW m \in Msgs, AckRequest(m) \/ AckFails(m) \/ WakeWorker(m) PROVE RequestsKept
  <2>1. /\ UNCHANGED <<parsed, accepted, main, ok>> /\ acked \subseteq acked'
        /\ \A n \in Msgs : n # m => cb'[n] = cb[n]
        /\ \/ cb'[m] = "wake" /\ m \in acked'
           \/ cb'[m] = "done" /\ (cb[m] = "wake" \/ ~CanPublish)
    BY <1>4 DEF AckRequest, AckFails, WakeWorker, TypeInv, TypeOK
  <2>2. CanPublish' = CanPublish
    BY <2>1 DEF CanPublish
  <2>3. \A i \in 1..reqId : accepted[i] \in Msgs
    BY <1>t DEF RequestOK
  <2>4. QED
    BY <1>t, <2>1, <2>2, <2>3, RequestStays DEF RequestsKept
<1>5. ASSUME Main PROVE RequestsKept
  <2>1. UNCHANGED <<cb, parsed, accepted, acked>> /\ (~CanPublish => ~CanPublish')
    BY <1>5 DEF Main, Interrupt, SpinRaises, SetStop, WakeToStop, DestroyNode, ShutDown, CanPublish
  <2>2. QED
    BY <2>1, <1>a
<1>6. ASSUME Worker PROVE RequestsKept
  <2>1. UNCHANGED <<cb, parsed, accepted, acked, main, ok>>
    BY <1>6 DEF Worker, LoopTop, ReadNothing, ReadRequest, Wait, WaitWoken, WaitTimesOut,
                WaitOverflows, ClearWake, ComposeScene, Inference, InferenceReturns,
                InferenceFails, StillActive, Superseded, PublishVerdict, PublishFails, CloseGate
  <2>2. QED
    BY <2>1, <1>a DEF CanPublish
<1>7. CASE UNCHANGED vars
  BY <1>7, <1>a DEF vars, CanPublish
<1>8. QED
  BY <1>1, <1>2, <1>3, <1>4, <1>5, <1>6, <1>7 DEF Next, Handler

\* Only the handlers change the active request, apart from clearing it, and only
\* the worker what it works on.
LEMMA RequestKinds ==
  ASSUME [Next]_vars
  PROVE  \/ \E m \in Msgs : StoreRequest(m)
         \/ ReadRequest
         \/ /\ UNCHANGED reqId /\ (req' = req \/ req' = NoReq)
            /\ \/ UNCHANGED <<wpc, wreq, wid>>
               \/ UNCHANGED <<wreq, wid>> /\ wpc \in Evaluating
               \/ wpc' \notin Evaluating
<1> USE DEF handlerVars, requestVars, workerVars, mainVars, ghostVars
<1>1. ASSUME NEW camera \in Cameras, OnImage(camera)
      PROVE  UNCHANGED <<reqId, req, wpc, wreq, wid>>
  BY <1>1 DEF OnImage
<1>2. ASSUME NEW raw \in RawRequests, Take(raw)
      PROVE  UNCHANGED <<reqId, req, wpc, wreq, wid>>
  BY <1>2 DEF Take, TakeRequest, DropRequest, FailRequest, TakeMessage
<1>3. ASSUME NEW m \in Msgs, AckRequest(m) \/ AckFails(m) \/ WakeWorker(m)
      PROVE  UNCHANGED <<reqId, req, wpc, wreq, wid>>
  BY <1>3 DEF AckRequest, AckFails, WakeWorker
<1>4. ASSUME Main
      PROVE  UNCHANGED <<reqId, req, wpc, wreq, wid>>
  BY <1>4 DEF Main, Interrupt, SpinRaises, SetStop, WakeToStop, DestroyNode, ShutDown
<1>5. ASSUME Worker, ~ReadRequest
      PROVE  /\ UNCHANGED reqId /\ (req' = req \/ req' = NoReq)
             /\ (UNCHANGED <<wreq, wid>> /\ wpc \in Evaluating) \/ wpc' \notin Evaluating
  <2>1. CASE ComposeScene \/ Inference \/ StillActive \/ PublishVerdict
    BY <2>1 DEF ComposeScene, Inference, InferenceReturns, InferenceFails, StillActive,
                PublishVerdict, Evaluating
  <2>2. CASE LoopTop \/ ReadNothing \/ Wait \/ ClearWake \/ Superseded \/ PublishFails \/ CloseGate
    BY <2>2 DEF LoopTop, ReadNothing, Wait, WaitWoken, WaitTimesOut, WaitOverflows,
                ClearWake, Superseded, BackToTop, PublishFails, CloseGate, Evaluating
  <2>3. QED
    BY <1>5, <2>1, <2>2 DEF Worker
<1>6. CASE UNCHANGED vars
  BY <1>6 DEF vars
<1>7. QED
  BY <1>1, <1>2, <1>3, <1>4, <1>5, <1>6 DEF Next, Handler

LEMMA RequestStep == TypeInv /\ RequestInv /\ [Next]_vars => RequestInv'
<1> SUFFICES ASSUME TypeInv, RequestInv, [Next]_vars PROVE RequestInv'
  OBVIOUS
<1>t. reqId \in 0..MaxReq /\ wid \in 0..reqId /\ MaxReq \in Nat
      /\ (wpc \in Evaluating => wid \in 1..reqId) /\ (req # NoReq => reqId \in 1..reqId)
  BY VerifierAssumption DEF TypeInv, TypeOK, WorkerInv
<1>k. RequestsKept
  BY StepKeepsRequests
<1>1. ASSUME NEW m \in Msgs, StoreRequest(m) PROVE RequestInv'
  <2>1. /\ reqId' = reqId + 1 /\ req' = parsed[m] /\ cb' = [cb EXCEPT ![m] = "ack"]
        /\ accepted' = [accepted EXCEPT ![reqId + 1] = m]
        /\ UNCHANGED <<parsed, wpc, wreq, wid>>
    BY <1>1 DEF StoreRequest, workerVars
  <2>2. reqId' \in Ids
    BY <1>t, <2>1, TypeStep, VerifierAssumption DEF TypeInv, TypeOK, Ids
  <2>3. accepted'[reqId'] = m /\ cb'[m] = "ack" /\ parsed[m] \in Requests
    BY <1>1, <2>1, <2>2 DEF StoreRequest, TypeInv, TypeOK, HandlerInv
  <2>4. \A i \in Ids : i = reqId + 1 => RequestOK(i)'
    BY <2>1, <2>3 DEF RequestOK
  <2>5. \A i \in 1..reqId' : i \in 1..reqId \/ (i \in Ids /\ i = reqId + 1)
    BY <1>t, <2>1, <2>2 DEF Ids
  <2>6. \A i \in 1..reqId' : RequestOK(i)'
    BY <1>k, <2>4, <2>5 DEF RequestsKept
  <2>7. wpc' \in Evaluating => wreq' = parsed'[accepted'[wid']]
    BY <1>t, <1>k, <2>1 DEF RequestInv, RequestsKept
  <2>8. QED
    BY <2>1, <2>3, <2>6, <2>7 DEF RequestInv
<1>2. CASE ReadRequest
  <2>1. /\ req # NoReq /\ wreq' = req /\ wid' = reqId
        /\ UNCHANGED <<req, reqId, parsed, accepted>>
    BY <1>2 DEF ReadRequest, handlerVars, requestVars, ghostVars
  <2>2. QED
    BY <1>t, <1>k, <2>1 DEF RequestInv, RequestsKept
<1>3. CASE /\ UNCHANGED reqId /\ (req' = req \/ req' = NoReq)
           /\ \/ UNCHANGED <<wpc, wreq, wid>>
              \/ UNCHANGED <<wreq, wid>> /\ wpc \in Evaluating
              \/ wpc' \notin Evaluating
  BY <1>t, <1>k, <1>3 DEF RequestInv, RequestsKept
<1>4. QED
  BY <1>1, <1>2, <1>3, RequestKinds

LEMMA RequestInvHolds == Spec => []RequestInv
<1>1. Init => RequestInv
  BY DEF Init, RequestInv, Evaluating
<1>2. QED
  BY <1>1, RequestStep, TypeInvHolds, PTL DEF Spec

\* What is published is accepted by the request, or RUNNING for WAIT_HUMAN.
LEMMA PublishedIsAllowed ==
  ASSUME NEW o \in Outcome, NEW allowed \in (SUBSET Statuses) \ {{}}
  PROVE  \/ PublishedStatus(o, allowed) \in allowed
         \/ o.status = "WAIT_HUMAN" /\ PublishedStatus(o, allowed) = "RUNNING"
BY DEF PublishedStatus, FitStatus, DowngradeUncertain, CoerceStatus, Outcome, Statuses

\* A verdict carries the message of the request that the worker read and a
\* status which that request accepts, or RUNNING for WAIT_HUMAN.
THEOREM VerdictAnswersItsRequestHolds == Spec => VerdictAnswersItsRequest
<1>1. ASSUME TypeInv, RequestInv, [Next]_vars, wpc = "publish", wpc' \in {"close", "pause"}
      PROVE  LET r == parsed[accepted[wid]]
             IN  /\ verdict'.msg = r.msg
                 /\ \/ verdict'.status \in r.allowed
                    \/ wout.status = "WAIT_HUMAN" /\ verdict'.status = "RUNNING"
  <2> DEFINE status == PublishedStatus(wout, wreq.allowed)
  <2>1. wreq = parsed[accepted[wid]]
    BY <1>1 DEF RequestInv, Evaluating
  <2>2. wreq.allowed \in (SUBSET Statuses) \ {{}} /\ wout \in Outcome
    BY <1>1 DEF TypeInv, TypeOK, WorkerInv, Evaluating, Requests, Request
  <2>3. verdict' = Message(wreq, status)
    BY <1>1, OnlyPublishingPublishes DEF PublishVerdict
  <2>4. CoerceStatus(status, wreq.allowed) = status
    BY <2>2, PublishedNeedsNoCoercion
  <2>5. status \in wreq.allowed \/ (wout.status = "WAIT_HUMAN" /\ status = "RUNNING")
    BY <2>2, PublishedIsAllowed
  <2> HIDE DEF status
  <2>6. verdict'.msg = wreq.msg /\ verdict'.status = status
    BY <2>3, <2>4 DEF Message, BuildResultPayload
  <2>7. QED
    BY <2>1, <2>5, <2>6
<1>2. TypeInv /\ RequestInv /\ [Next]_vars =>
        ( wpc = "publish" /\ wpc' \in {"close", "pause"} =>
            LET r == parsed[accepted[wid]]
            IN  /\ verdict'.msg = r.msg
                /\ \/ verdict'.status \in r.allowed
                   \/ wout.status = "WAIT_HUMAN" /\ verdict'.status = "RUNNING" )
  BY <1>1
<1>3. QED
  BY <1>2, TypeInvHolds, RequestInvHolds, PTL DEF Spec, VerdictAnswersItsRequest

\* Every accepted request is acknowledged, is about to be, or cannot be any
\* more: a verdict that comes first does not take the acknowledgement's place.
THEOREM AcknowledgementComesHolds == Spec => []AcknowledgementComes
<1>1. RequestInv => AcknowledgementComes
  BY DEF RequestInv, RequestOK, AcknowledgementComes
<1>2. QED
  BY <1>1, RequestInvHolds, PTL

\* While the main thread spins the context is valid, so publishing does not fail.
DeadInv ==
  main = "spinning" =>
    /\ ok
    /\ wpc = "dead" => \E i \in 1..reqId : Pause(parsed[accepted[i]]) = "overlong"

LEMMA DeadStep == TypeInv /\ RequestInv /\ DeadInv /\ [Next]_vars => DeadInv'
<1> SUFFICES ASSUME TypeInv, RequestInv, DeadInv, [Next]_vars, main' = "spinning"
             PROVE  ok' /\ (wpc' = "dead" => \E i \in 1..reqId' : Pause(parsed'[accepted'[i]]) = "overlong")
  BY DEF DeadInv
<1> USE DEF handlerVars, requestVars, workerVars, mainVars, ghostVars
<1>1. main = "spinning" /\ UNCHANGED ok
  <2>1. CASE Main
    BY <2>1 DEF Main, Interrupt, SpinRaises, SetStop, WakeToStop, DestroyNode, ShutDown
  <2>2. CASE Worker
    BY <2>2 DEF Worker, LoopTop, ReadNothing, ReadRequest, Wait, WaitWoken, WaitTimesOut,
                WaitOverflows, ClearWake, ComposeScene, Inference, InferenceReturns,
                InferenceFails, StillActive, Superseded, PublishVerdict, PublishFails, CloseGate
  <2>3. CASE ~Main /\ ~Worker
    BY <2>3 DEF Next, vars, OnImage, Take, TakeRequest, DropRequest, FailRequest, TakeMessage,
                Handler, StoreRequest, AckRequest, AckFails, WakeWorker
  <2>4. QED
    BY <2>1, <2>2, <2>3
<1>2. ok /\ CanPublish
  BY <1>1 DEF DeadInv, CanPublish
<1>3. reqId \in Nat /\ reqId' \in Nat /\ reqId <= reqId'
  <2>1. reqId \in Nat
    BY VerifierAssumption DEF TypeInv, TypeOK
  <2>2. UNCHANGED reqId \/ reqId' = reqId + 1
    BY RequestKinds DEF StoreRequest, ReadRequest
  <2>3. QED
    BY <2>1, <2>2
<1>4. ASSUME NEW i \in 1..reqId, Pause(parsed[accepted[i]]) = "overlong"
      PROVE  \E j \in 1..reqId' : Pause(parsed'[accepted'[j]]) = "overlong"
  <2>1. parsed'[accepted'[i]] = parsed[accepted[i]]
    BY StepKeepsRequests DEF RequestsKept
  <2>2. i \in 1..reqId'
    BY <1>3
  <2>3. QED
    BY <1>4, <2>1, <2>2
<1>5. CASE WaitOverflows
  <2>1. wpc = "pause" /\ Pause(wreq) = "overlong"
    BY <1>5 DEF WaitOverflows
  <2>2. wid \in 1..reqId /\ wreq = parsed[accepted[wid]]
    BY <1>3, <2>1 DEF TypeInv, TypeOK, WorkerInv, RequestInv, Evaluating
  <2>3. QED
    BY <1>1, <1>2, <1>4, <2>1, <2>2
<1>6. CASE ~WaitOverflows
  <2>1. wpc' = "dead" => wpc = "dead"
    <3>1. CASE Worker
      BY <1>2, <1>6, <3>1 DEF Worker, LoopTop, ReadNothing, ReadRequest, Wait, WaitWoken,
                WaitTimesOut, ClearWake, BackToTop, ComposeScene, Inference, InferenceReturns,
                InferenceFails, StillActive, Superseded, PublishVerdict, PublishFails, CloseGate
    <3>2. CASE ~Worker
      BY <3>2 DEF Next, vars, OnImage, Take, TakeRequest, DropRequest, FailRequest, TakeMessage,
                Handler, StoreRequest, AckRequest, AckFails, WakeWorker, Main, Interrupt,
                SpinRaises, SetStop, WakeToStop, DestroyNode, ShutDown
    <3>3. QED
      BY <3>1, <3>2
  <2>2. QED
    BY <1>1, <1>2, <1>4, <2>1 DEF DeadInv
<1>7. QED
  BY <1>5, <1>6

\* While the node runs, its worker has ended only if it accepted a request whose
\* pause, its own or the node's, is longer than Event.wait takes.
THEOREM OnlyOverlongPeriodEndsWorkerHolds == Spec => []OnlyOverlongPeriodEndsWorker
<1>1. Init => DeadInv
  BY DEF Init, DeadInv
<1>2. DeadInv => OnlyOverlongPeriodEndsWorker
  BY DEF DeadInv, OnlyOverlongPeriodEndsWorker
<1>3. QED
  BY <1>1, <1>2, DeadStep, TypeInvHolds, RequestInvHolds, PTL DEF Spec

=============================================================================
