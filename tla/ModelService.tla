---------------------------- MODULE ModelService ----------------------------
(***************************************************************************)
(* What the model is to its clients, wherever it lives: they ask, wait,    *)
(* are served and leave, with a reply or with an error.  There is no lock, *)
(* no loading, no connection and no scene here.                            *)
(*                                                                         *)
(* Unless the model is somebody else's server, one client at a time is     *)
(* served.  An error is its client's own, unless all are behind one        *)
(* process that goes away, and then it takes the one it serves with it.  A *)
(* call is accepted for a reply it was given, or in a dry run; answered    *)
(* calls stay answered.                                                    *)
(* (node.py, _run_vlm, _on_generate_plan; model_server.py, _Handler.)      *)
(***************************************************************************)
CONSTANTS Calls,  \* clients that are answered once
          Poller  \* the client that comes back again and again

VARIABLES oneAtATime, oneProcess, dryRun,  \* what the configuration says
          stage,                           \* where each client is
          answer                           \* how each call was answered

settings == <<oneAtATime, oneProcess, dryRun>>
serviceVars == <<settings, stage, answer>>

Everyone == Calls \cup {Poller}

Init ==
  /\ oneAtATime \in BOOLEAN /\ oneProcess \in BOOLEAN /\ dryRun \in BOOLEAN
  /\ oneProcess => oneAtATime
  /\ stage = [c \in Everyone |-> "idle"]
  /\ answer = [p \in Calls |-> "none"]

Served  == { c \in Everyone : stage[c] = "served" }
Pending == { c \in Everyone : stage[c] \in {"waiting", "served"} }

\* A client that does not wait leaves: a call has its answer.
Left(c) == IF c = Poller THEN "idle" ELSE "answered"

Ask(c) ==
  /\ stage[c] = "idle"
  /\ c = Poller \/ ~dryRun
  /\ stage' = [stage EXCEPT ![c] = "waiting"]
  /\ UNCHANGED <<settings, answer>>

Serve(c) ==
  /\ stage[c] = "waiting"
  /\ oneAtATime => Served = {}
  /\ stage' = [stage EXCEPT ![c] = "served"]
  /\ UNCHANGED <<settings, answer>>

Reply(c) ==
  /\ stage[c] = "served"
  /\ stage' = [stage EXCEPT ![c] = IF c = Poller THEN "idle" ELSE "replied"]
  /\ UNCHANGED <<settings, answer>>

\* A call is refused before it asks, or judged on its reply.
Judge(p, verdict) ==
  /\ \/ stage[p] = "idle" /\ (dryRun \/ verdict = "refused")
     \/ stage[p] = "replied"
  /\ stage' = [stage EXCEPT ![p] = "answered"]
  /\ answer' = [answer EXCEPT ![p] = verdict]
  /\ UNCHANGED settings

Fail(failed) ==
  /\ failed \subseteq Pending
  /\ (\E c \in failed : failed = {c}) \/ (oneProcess /\ Served \subseteq failed)
  /\ stage' = [c \in Everyone |-> IF c \in failed THEN Left(c) ELSE stage[c]]
  /\ answer' = [p \in Calls |-> IF p \in failed THEN "failed" ELSE answer[p]]
  /\ UNCHANGED settings

Next ==
  \/ \E c \in Everyone : Ask(c) \/ Serve(c) \/ Reply(c)
  \/ \E p \in Calls, verdict \in {"refused", "accepted"} : Judge(p, verdict)
  \/ \E failed \in SUBSET Everyone : Fail(failed)

Spec == Init /\ [][Next]_serviceVars

=============================================================================
