------------------------------ MODULE SceneGate ------------------------------
(***************************************************************************)
(* What the verifier promises to the Behavior Tree, without threads,       *)
(* frames or a model.  Requests are accepted one after the other; the      *)
(* newest one is the open gate.  A verdict is given on the newest request  *)
(* or, late, on one it has replaced; verdicts never go back to an older    *)
(* request.  SUCCESS is final: it closes the gate if the request is still  *)
(* the open one, it never closes another one, and no verdict on the same   *)
(* request follows.  Every other verdict leaves the gate as it is.         *)
(* (decision.py, is_terminal_gate_status; node.py, _evaluation_loop.)      *)
(***************************************************************************)
EXTENDS Naturals

CONSTANTS Max,       \* bound on the number of accepted requests
          Statuses   \* the statuses a verdict can have

VARIABLES newest,    \* id of the newest accepted request
          open,      \* id of the request whose gate is open, 0 if none is
          answer     \* answer[i] is the last verdict on request i

gateVars == <<newest, open, answer>>

Init ==
  /\ newest = 0
  /\ open = 0
  /\ answer = [i \in 1..Max |-> "none"]

Accept ==
  /\ newest < Max
  /\ newest' = newest + 1
  /\ open' = newest'
  /\ UNCHANGED answer

Answer(i, status) ==
  /\ i \in 1..newest
  /\ answer[i] # "SUCCESS"
  /\ \A j \in i+1..Max : answer[j] = "none"
  /\ answer' = [answer EXCEPT ![i] = status]
  /\ open' = IF status = "SUCCESS" /\ i = open THEN 0 ELSE open
  /\ UNCHANGED newest

Next == Accept \/ \E i \in 1..Max, status \in Statuses : Answer(i, status)

Spec == Init /\ [][Next]_gateVars

=============================================================================
