---------------------------- MODULE VlmProtocol ----------------------------
(***************************************************************************)
(* The pure rules of the verifier: what becomes of an incoming request     *)
(* (vlm_live/protocol.py), and how a raw model verdict becomes the         *)
(* published status (vlm_live/decision.py, vlm_live/prompt.py,             *)
(* vlm_live/contracts.py).  Everything here is an operator on values; the  *)
(* threads that call them are in Verifier.tla.                             *)
(*                                                                         *)
(* Abstractions: skill names, task text and reasons are not modelled.  Of  *)
(* a reason only one bit matters, whether it reads as uncertainty.  Of a   *)
(* list of statuses only its members matter: fit_status would use the      *)
(* order only if no supported status were in the list, and a normalized    *)
(* list always has one (lemma NormalizedIsSupported).                      *)
(***************************************************************************)

Statuses == {"RUNNING", "SUCCESS", "FAILURE", "WAIT_HUMAN"}

(***************************************************************************)
(* Incoming requests.                                                      *)
(***************************************************************************)

\* What the request topic can carry, as far as parse_request tells apart.
\* A text that is no JSON object: most are refused, but json.loads lets a few
\* errors through that are no JSONDecodeError (an integer of thousands of
\* digits).  "inf" stands for numbers such as 1e999 or Infinity; "huge" for
\* an integer that no float holds; "overlong" for a period above
\* threading.TIMEOUT_MAX, an infinite one included; "fits" for one below.
Tokens == Statuses \cup {"unsupported"}

RawRequest ==
  [ json     : {"object", "refused", "unreadable"},
    version  : {"absent", "current", "other", "invalid", "inf"},
    skill    : BOOLEAN,                          \* non-empty skill_name
    attempt  : {"int", "negative", "invalid", "inf"},
    period   : {"absent", "invalid", "fits", "overlong", "huge"},
    isList   : BOOLEAN,                          \* allowed_statuses is a list
    tokens   : SUBSET Tokens ]

\* _normalize_statuses: unsupported tokens are ignored, nothing left means
\* the default list, which holds all four.
NormalizeStatuses(isList, tokens) ==
  LET kept == tokens \cap Statuses
  IN  IF ~isList \/ kept = {} THEN Statuses ELSE kept

\* The conversion of each field has a try block of its own, none of which
\* catches OverflowError: int(inf) raises it for the version, before any check
\* on the rest, and for the attempt, float(huge) for the period, both after the
\* version and the skill name were accepted.
ParseRaises(raw) ==
  \/ raw.json = "unreadable"
  \/ /\ raw.json = "object"
     /\ \/ raw.version = "inf"
        \/ /\ raw.version \in {"absent", "current"} /\ raw.skill
           /\ raw.attempt = "inf" \/ raw.period = "huge"

\* parse_request returns a request, rather than None.
ParseAccepts(raw) ==
  /\ raw.json = "object"
  /\ raw.version \in {"absent", "current"}
  /\ raw.skill
  /\ raw.attempt # "inf" /\ raw.period # "huge"

\* check_period_s, when it is a number; "node" stands for None.  max(0.0, x)
\* bounds a period from below only.
CheckPeriod(raw) == IF raw.period \in {"fits", "overlong"} THEN raw.period ELSE "node"

\* The normalized request.  msg numbers the messages of the request topic.
Request(Msgs) ==
  [msg : Msgs, allowed : (SUBSET Statuses) \ {{}}, period : {"fits", "overlong", "node"}]

\* Mutant: the listed statuses are taken as they come.
ParseRequestUnclean(m, raw) ==
  [msg |-> m, allowed |-> raw.tokens, period |-> CheckPeriod(raw)]

ParseRequest(m, raw) ==
  [ msg     |-> m,
    allowed |-> NormalizeStatuses(raw.isList, raw.tokens),
    period  |-> CheckPeriod(raw) ]

(***************************************************************************)
(* From the model's verdict to the published status.                       *)
(***************************************************************************)

\* What _run_vlm hands to the worker.  judged is a ghost: the model looked
\* at a scene; FALSE for a missing scene and for an inference error.
Outcome == [status : Statuses, uncertain : BOOLEAN, judged : BOOLEAN]

NoVerdict == [status |-> "RUNNING", uncertain |-> FALSE, judged |-> FALSE]

\* Mutant: a WAIT_HUMAN that is not allowed is left to fit_status.
CoerceStatusNever(status, allowed) == status

CoerceStatus(status, allowed) ==
  IF status = "WAIT_HUMAN" /\ "WAIT_HUMAN" \notin allowed
  THEN "RUNNING" ELSE status

DowngradeUncertain(status, uncertain) ==
  IF status = "FAILURE" /\ uncertain THEN "RUNNING" ELSE status

\* Mutant: SUCCESS is the first fallback.
FitStatusSuccessFirst(status, allowed) ==
  IF status \in allowed    THEN status    ELSE
  IF "SUCCESS" \in allowed THEN "SUCCESS" ELSE
  IF "RUNNING" \in allowed THEN "RUNNING" ELSE
  IF "FAILURE" \in allowed THEN "FAILURE" ELSE "WAIT_HUMAN"

FitStatus(status, allowed) ==
  IF status \in allowed    THEN status    ELSE
  IF "RUNNING" \in allowed THEN "RUNNING" ELSE
  IF "FAILURE" \in allowed THEN "FAILURE" ELSE
  IF "SUCCESS" \in allowed THEN "SUCCESS" ELSE "WAIT_HUMAN"

\* The worker's pipeline: coerce, downgrade, then fit, unless a WAIT_HUMAN
\* was coerced.
PublishedStatus(o, allowed) ==
  LET downgraded == DowngradeUncertain(CoerceStatus(o.status, allowed), o.uncertain)
      coerced    == o.status = "WAIT_HUMAN" /\ downgraded = "RUNNING"
  IN  IF coerced THEN downgraded ELSE FitStatus(downgraded, allowed)

IsTerminalGateStatus(status) == status = "SUCCESS"

SemanticStatuses == {"SATISFIED", "NOT_SATISFIED", "UNKNOWN", "ANOMALY"}
ControlActions   == {"KEEP_RUNNING", "STOP_SUCCESS", "STOP_UNSAFE", "REQUEST_HUMAN"}

SemanticContract(status) ==
  CASE status = "SUCCESS"    -> [semantic |-> "SATISFIED",     control |-> "STOP_SUCCESS"]
    [] status = "FAILURE"    -> [semantic |-> "ANOMALY",       control |-> "STOP_UNSAFE"]
    [] status = "WAIT_HUMAN" -> [semantic |-> "UNKNOWN",       control |-> "REQUEST_HUMAN"]
    [] OTHER                 -> [semantic |-> "NOT_SATISFIED", control |-> "KEEP_RUNNING"]

\* The semantic fields come from the status as given, the status field from
\* the coerced one.
BuildResultPayload(status, allowed) ==
  LET contract == SemanticContract(status)
  IN  [ status   |-> CoerceStatus(status, allowed),
        semantic |-> contract.semantic,
        control  |-> contract.control ]

=============================================================================
