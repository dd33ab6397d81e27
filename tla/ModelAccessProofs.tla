------------------------- MODULE ModelAccessProofs -------------------------
(***************************************************************************)
(* Proofs, for any configurations, plan calls, threads and token limits,   *)
(* of the safety properties of ModelAccessProperties.                      *)
(***************************************************************************)
EXTENDS ModelAccessProperties, SequenceTheorems, TLAPS

\* The configuration does not change.
LEMMA ConfigConstant ==
  ASSUME Next \/ UNCHANGED vars
  PROVE  cfg' = cfg
<1>1. CASE Next
  BY <1>1 DEF Next, Construct, OnImage, OnSceneFacts, Evaluate, StartPlan, PlanStep,
     FindScene, GiveUpOnScene, Answer, Lock, ClientStep, RefuseToLoad, UseLoaded, LockAgain,
     CheckAgain, LoadReturns, LoadFails, LeaveEnsure, GenerateReturns, RetryAfterOom,
     GenerateFails, Connect, ConnectFails,
     AskModels, ChatReturns, HttpFails, ServerStep, Accept, ServerStops, ServerStarts,
     ServerSignal, ServerCrashes, Failed, vars
<1>2. CASE UNCHANGED vars
  BY <1>2 DEF vars
<1>3. QED
  BY <1>1, <1>2

LEMMA ConfigType ==
  ASSUME cfg \in Configs
  PROVE  /\ cfg.backend \in {"local", "socket", "http"}
         /\ cfg.disabled \in BOOLEAN /\ cfg.lazy \in BOOLEAN
BY ModelAccessAssumption

-----------------------------------------------------------------------------
(* What the building blocks of the actions do.                             *)

LEMMA FirstStepType ==
  ASSUME cfg \in Configs
  PROVE  /\ FirstStep \in {"lock", "connect", "models"}
         /\ FirstStep = "lock" <=> cfg.backend = "local"
         /\ FirstStep = "connect" <=> cfg.backend = "socket"
         /\ FirstStep = "models" <=> cfg.backend = "http"
BY ConfigType DEF FirstStep

LEMMA FailEffect ==
  ASSUME TypeOK, NEW S \in SUBSET Clients, Fail(S)
  PROVE  /\ pc' \in [Clients -> Places]
         /\ outcome' \in [Plans -> Outcomes]
         /\ \A c \in Clients \ S : pc'[c] = pc[c]
         /\ \A c \in S : pc'[c] \in {"idle", "answered"}
         /\ \A p \in Plans \cap S : pc'[p] = "answered" /\ outcome'[p] = "error"
         /\ \A p \in Plans \ S : outcome'[p] = outcome[p]
BY ModelAccessAssumption DEF Fail, TypeOK, Clients, Places, Outcomes

LEMMA SucceedEffect ==
  ASSUME TypeOK, NEW c \in Clients, Succeed(c)
  PROVE  /\ pc' \in [Clients -> Places]
         /\ outcome' = outcome
         /\ \A d \in Clients \ {c} : pc'[d] = pc[d]
         /\ pc'[c] \in {"idle", "reply"}
         /\ c \in Plans => pc'[c] = "reply"
BY ModelAccessAssumption DEF Succeed, TypeOK, Clients, Places

LEMMA AttemptsType ==
  ASSUME NEW c \in Clients
  PROVE  /\ Attempts(c) \in Seq(Nat)
         /\ Len(Attempts(c)) \in {1, 2}
         /\ Len(Attempts(c)) = 2 => Attempts(c)[2] < Attempts(c)[1]
<1>1. GenerationLimit(c) \in Nat
  BY ModelAccessAssumption DEF GenerationLimit, Lesser
<1>2. QED
  BY <1>1 DEF Attempts, TokenAttempts, RetryLimit

LEMMA BeginEffect ==
  ASSUME TypeOK, NEW c \in Clients, BeginGeneration(c)
  PROVE  /\ pc' \in [Clients -> Places]
         /\ tried' \in [Clients -> Seq(Nat)]
         /\ \A d \in Clients \ {c} : pc'[d] = pc[d] /\ tried'[d] = tried[d]
         /\ pc'[c] = "generate" /\ tried'[c] = <<Attempts(c)[1]>>
<1>1. Attempts(c)[1] \in Nat
  BY AttemptsType
<1>2. QED
  BY <1>1 DEF BeginGeneration, TypeOK, Places

LEMMA GoneEffect ==
  ASSUME TypeOK, NEW S \in SUBSET Clients, ServerGone(S)
  PROVE  /\ Fail(S)
         /\ tried' \in [Clients -> Seq(Nat)]
         /\ server' = "down" /\ queue' = <<>>
BY DEF ServerGone, TypeOK

-----------------------------------------------------------------------------
(* Types.                                                                  *)

LEMMA InitType == Init => TypeOK
<1> SUFFICES ASSUME Init PROVE TypeOK
  OBVIOUS
<1>1. cfg \in Configs /\ lock \in [owner : Clients \cup {NoOne}, depth : Int]
  BY DEF Init
<1>2. pc \in [Clients -> Places] /\ outcome \in [Plans -> Outcomes]
  BY DEF Init, Places, Outcomes
<1>3. request \in [Plans -> Asked] /\ plan \in [Plans -> Made]
  BY DEF Init, Asked, Made
<1>4. tried \in [Clients -> Seq(Nat)] /\ queue \in Seq(Clients)
  BY DEF Init
<1>5. QED
  BY <1>1, <1>2, <1>3, <1>4 DEF Init, TypeOK, Texts

LEMMA StepType == TypeOK /\ [Next]_vars => TypeOK'
<1> SUFFICES ASSUME TypeOK, [Next]_vars PROVE TypeOK'
  OBVIOUS
<1> USE DEF TypeOK, planVars, localVars, serverVars
<1>0. cfg' = cfg /\ Asked' = Asked /\ Made' = Made
  BY ConfigConstant DEF Asked, Made
<1>1. CASE Construct
  BY <1>0, <1>1 DEF Construct
<1>2. ASSUME NEW camera \in {"front", "wrist"}, OnImage(camera)
      PROVE  TypeOK'
  BY <1>0, <1>2 DEF OnImage
<1>3. ASSUME NEW text \in Texts, OnSceneFacts(text)
      PROVE  TypeOK'
  BY <1>0, <1>3 DEF OnSceneFacts
<1>4. CASE Evaluate
  BY <1>0, <1>4, FirstStepType DEF Evaluate, Places
<1>5. ASSUME NEW p \in Plans, StartPlan(p)
      PROVE  TypeOK'
  <2>1. PICK r \in cfg.requests :
          /\ request' = [request EXCEPT ![p] = r]
          /\ \/ plan' = plan
             \/ plan' = [plan EXCEPT ![p] = CanonicalPlan(Stripped(r.task), r.registry)]
          /\ \E o \in Outcomes : outcome' = [outcome EXCEPT ![p] = o] \/ outcome' = outcome
          /\ \E place \in {"answered", "scene"} : pc' = [pc EXCEPT ![p] = place]
    BY <1>5 DEF StartPlan, Outcomes
  <2>2. request' \in [Plans -> Asked]
    BY <2>1 DEF Asked
  <2>3. plan' \in [Plans -> Made]
    <3>1. CanonicalPlan(Stripped(r.task), r.registry) \in Made
      BY DEF Made
    <3>2. QED
      BY <2>1, <3>1
  <2>4. outcome' \in [Plans -> Outcomes] /\ pc' \in [Clients -> Places]
    <3>1. PICK place \in {"answered", "scene"} : pc' = [pc EXCEPT ![p] = place]
      BY <2>1
    <3>2. p \in Clients /\ place \in Places
      BY DEF Clients, Places
    <3>3. QED
      BY <2>1, <3>1, <3>2
  <2>5. QED
    BY <1>0, <1>5, <2>2, <2>3, <2>4 DEF StartPlan
<1>6. ASSUME NEW p \in Plans, FindScene(p)
      PROVE  TypeOK'
  BY <1>0, <1>6, FirstStepType DEF FindScene, Places
<1>7. ASSUME NEW p \in Plans, GiveUpOnScene(p)
      PROVE  TypeOK'
  BY <1>0, <1>7 DEF GiveUpOnScene, Places, Outcomes
<1>8. ASSUME NEW p \in Plans, Answer(p)
      PROVE  TypeOK'
  <2>1. pc' \in [Clients -> Places] /\ outcome' \in [Plans -> Outcomes]
    BY <1>8 DEF Answer, Places, Outcomes
  <2>2. plan' \in [Plans -> Made]
    BY <1>8 DEF Answer, Made
  <2>3. QED
    BY <1>0, <1>8, <2>1, <2>2 DEF Answer
<1>9. ASSUME NEW c \in Clients, Lock(c)
      PROVE  TypeOK'
  BY <1>0, <1>9 DEF Lock, Places
<1>10. ASSUME NEW c \in Clients, RefuseToLoad(c) \/ LoadFails(c)
       PROVE  TypeOK'
  <2>1. CASE RefuseToLoad(c)
    BY <1>0, <2>1, FailEffect DEF RefuseToLoad, Unlocked
  <2>2. CASE LoadFails(c)
    BY <1>0, <2>2, FailEffect DEF LoadFails, Unlocked
  <2>3. QED
    BY <1>10, <2>1, <2>2
<1>11. ASSUME NEW c \in Clients, UseLoaded(c)
       PROVE  TypeOK'
  BY <1>0, <1>11, BeginEffect DEF UseLoaded
<1>12. ASSUME NEW c \in Clients, LockAgain(c)
       PROVE  TypeOK'
  BY <1>0, <1>12 DEF LockAgain, Places
<1>13. ASSUME NEW c \in Clients, CheckAgain(c) \/ LoadReturns(c) \/ LeaveEnsure(c)
       PROVE  TypeOK'
  <2>1. CASE CheckAgain(c)
    BY <1>0, <2>1 DEF CheckAgain, Places
  <2>2. CASE LoadReturns(c)
    BY <1>0, <2>2 DEF LoadReturns, Places
  <2>3. CASE LeaveEnsure(c)
    <3>1. BeginGeneration(c) /\ lock' \in [owner : Clients \cup {NoOne}, depth : Int]
      BY <2>3 DEF LeaveEnsure
    <3>2. pc' \in [Clients -> Places] /\ tried' \in [Clients -> Seq(Nat)]
      BY <3>1, BeginEffect
    <3>3. QED
      BY <1>0, <2>3, <3>1, <3>2 DEF LeaveEnsure
  <2>4. QED
    BY <1>13, <2>1, <2>2, <2>3
<1>14. ASSUME NEW c \in Clients, GenerateReturns(c)
       PROVE  TypeOK'
  BY <1>0, <1>14, SucceedEffect DEF GenerateReturns, EndGeneration, Unlocked
<1>15. ASSUME NEW c \in Clients, RetryAfterOom(c)
       PROVE  TypeOK'
  <2>1. Attempts(c)[Len(tried[c]) + 1] \in Nat
    <3>1. Len(tried[c]) \in Nat /\ Attempts(c) \in Seq(Nat)
      BY AttemptsType
    <3>2. Len(tried[c]) + 1 \in 1..Len(Attempts(c))
      BY <1>15, <3>1 DEF RetryAfterOom
    <3>3. QED
      BY <3>1, <3>2
  <2>2. QED
    BY <1>0, <1>15, <2>1 DEF RetryAfterOom
<1>16. ASSUME NEW c \in Clients, GenerateFails(c)
       PROVE  TypeOK'
  BY <1>0, <1>16, FailEffect DEF GenerateFails, EndGeneration, Unlocked
<1>17. ASSUME NEW c \in Clients, Connect(c)
       PROVE  TypeOK'
  BY <1>0, <1>17 DEF Connect, Places
<1>18. ASSUME NEW c \in Clients, ConnectFails(c) \/ HttpFails(c)
       PROVE  TypeOK'
  BY <1>0, <1>18, FailEffect DEF ConnectFails, HttpFails
<1>19. ASSUME NEW c \in Clients, AskModels(c)
       PROVE  TypeOK'
  BY <1>0, <1>19 DEF AskModels, Places
<1>20. ASSUME NEW c \in Clients, ChatReturns(c)
       PROVE  TypeOK'
  BY <1>0, <1>20, SucceedEffect DEF ChatReturns
<1>21. CASE Accept
  <2>1. Head(queue) \in Clients /\ Tail(queue) \in Seq(Clients)
    BY <1>21 DEF Accept
  <2>2. QED
    BY <1>0, <1>21, <2>1, BeginEffect DEF Accept
<1>22. CASE ServerStops \/ ServerCrashes
  <2>1. PICK S \in SUBSET Clients : ServerGone(S)
    BY <1>22 DEF ServerStops, ServerCrashes, Waiting, Serving
  <2>2. Fail(S) /\ tried' \in [Clients -> Seq(Nat)] /\ server' = "down" /\ queue' = <<>>
    BY <2>1, GoneEffect
  <2>3. pc' \in [Clients -> Places] /\ outcome' \in [Plans -> Outcomes]
    BY <2>2, FailEffect
  <2>4. UNCHANGED <<cfg, node, frames, facts, request, plan, localVars>>
    BY <1>22 DEF ServerStops, ServerCrashes
  <2>5. QED
    BY <1>0, <2>2, <2>3, <2>4
<1>23. CASE ServerStarts \/ ServerSignal
  BY <1>0, <1>23 DEF ServerStarts, ServerSignal
<1>24. CASE UNCHANGED vars
  BY <1>0, <1>24 DEF vars
<1>25. QED
  BY <1>1, <1>2, <1>3, <1>4, <1>5, <1>6, <1>7, <1>8, <1>9, <1>10, <1>11, <1>12, <1>13, <1>14,
     <1>15, <1>16, <1>17, <1>18, <1>19, <1>20, <1>21, <1>22, <1>23, <1>24
  DEF Next, PlanStep, ClientStep, ServerStep, Failed

\* The state is always well typed (all of node.py, model.py, model_client.py and
\* model_server.py that ModelAccess models).
THEOREM TypeCorrect == Spec => []TypeOK
BY InitType, StepType, PTL DEF Spec

-----------------------------------------------------------------------------
(* The lock and the generation.                                            *)

\* Only a node that has the model itself takes the lock, and it does not come
\* to load the model when that is disabled.
PlacesFit ==
  \A c \in Clients :
    /\ pc[c] \in {"lock", "ensure"} \cup Nested => cfg.backend = "local"
    /\ pc[c] \in Nested => ~cfg.disabled

AccessInv ==
  TypeOK /\ PlacesFit /\ LockMatchesHolder /\ GenerationExclusive

\* A step outside the with-statements and the generation.
OutsideStep ==
  /\ UNCHANGED <<cfg, lock>>
  /\ \A c \in Clients :
       \/ pc'[c] = pc[c]
       \/ /\ pc[c] \notin Inside /\ pc'[c] \notin Inside
          /\ pc'[c] = "lock" => cfg.backend = "local"

InsideStep(c) ==
  \/ Lock(c) \/ RefuseToLoad(c) \/ UseLoaded(c) \/ LockAgain(c)
  \/ CheckAgain(c) \/ LoadReturns(c) \/ LoadFails(c) \/ LeaveEnsure(c)
  \/ GenerateReturns(c) \/ GenerateFails(c)

LEMMA StepKinds ==
  ASSUME TypeOK, [Next]_vars
  PROVE  OutsideStep \/ (\E c \in Clients : InsideStep(c)) \/ Accept \/ ServerCrashes
<1> USE DEF OutsideStep, planVars, localVars, serverVars, Inside, Nested
<1>0. cfg' = cfg
  BY ConfigConstant
<1>1. CASE Construct \/ UNCHANGED vars \/ ServerStarts \/ ServerSignal
  BY <1>1 DEF Construct, vars, ServerStarts, ServerSignal
<1>2. ASSUME NEW camera \in {"front", "wrist"}, OnImage(camera)
      PROVE  OutsideStep
  BY <1>2 DEF OnImage
<1>3. ASSUME NEW text \in Texts, OnSceneFacts(text)
      PROVE  OutsideStep
  BY <1>3 DEF OnSceneFacts
<1>4. CASE Evaluate
  BY <1>4, FirstStepType DEF Evaluate, TypeOK
<1>5. ASSUME NEW p \in Plans, StartPlan(p)
      PROVE  OutsideStep
  <2>1. pc[p] = "idle" /\ \E place \in {"answered", "scene"} : pc' = [pc EXCEPT ![p] = place]
    BY <1>5 DEF StartPlan
  <2>2. QED
    BY <1>5, <2>1 DEF StartPlan, TypeOK
<1>6. ASSUME NEW p \in Plans, PlanStep(p)
      PROVE  OutsideStep
  BY <1>6, FirstStepType DEF PlanStep, FindScene, GiveUpOnScene, Answer, TypeOK
<1>7. ASSUME NEW c \in Clients, Connect(c) \/ AskModels(c) \/ RetryAfterOom(c)
      PROVE  OutsideStep
  BY <1>7 DEF Connect, AskModels, RetryAfterOom, TypeOK
<1>8. ASSUME NEW c \in Clients, ConnectFails(c)
      PROVE  OutsideStep
  BY <1>8, FailEffect DEF ConnectFails
<1>9. ASSUME NEW c \in Clients, HttpFails(c)
      PROVE  OutsideStep
  BY <1>9, FailEffect DEF HttpFails
<1>10. ASSUME NEW c \in Clients, ChatReturns(c)
      PROVE  OutsideStep
  BY <1>10, SucceedEffect DEF ChatReturns
<1>11. CASE ServerStops
  <2>1. Fail(Waiting)
    BY <1>11, GoneEffect DEF ServerStops, Waiting
  <2>2. QED
    BY <1>11, <2>1, FailEffect DEF ServerStops, Waiting
<1>12. QED
  BY <1>1, <1>2, <1>3, <1>4, <1>5, <1>6, <1>7, <1>8, <1>9, <1>10, <1>11
  DEF Next, ClientStep, ServerStep, Failed, InsideStep

LEMMA InitAccess == Init => AccessInv
<1> SUFFICES ASSUME Init PROVE AccessInv
  OBVIOUS
<1>1. TypeOK
  BY InitType
<1>2. LockMatchesHolder
  BY ModelAccessAssumption DEF Init, LockMatchesHolder, Inside, Nested
<1>3. PlacesFit /\ GenerationExclusive
  BY DEF Init, PlacesFit, GenerationExclusive, Nested
<1>4. QED
  BY <1>1, <1>2, <1>3 DEF AccessInv

\* What a step inside does to its client and to the lock, and who comes to load.
LEMMA InsideEffect ==
  ASSUME TypeOK, NEW c \in Clients, InsideStep(c)
  PROVE  /\ \A d \in Clients \ {c} : pc'[d] = pc[d]
         /\ \/ /\ pc[c] = "lock" /\ pc'[c] = "ensure" /\ CanLock(c)
               /\ lock'.owner = c /\ lock'.depth = lock.depth + 1
            \/ /\ pc[c] = "ensure" /\ pc'[c] = "check" /\ ~cfg.disabled
               /\ lock'.owner = c /\ lock'.depth = lock.depth + 1
            \/ /\ pc[c] = "ensure" /\ pc'[c] = "generate"
               /\ lock' = lock
            \/ /\ pc[c] = "check" /\ pc'[c] \in {"load", "loaded"}
               /\ lock' = lock
               /\ pc'[c] = "load" => loads = 0
            \/ /\ pc[c] = "load" /\ pc'[c] = "loaded"
               /\ lock' = lock
            \/ /\ pc[c] = "loaded" /\ pc'[c] = "generate"
               /\ lock'.owner = c /\ lock'.depth = lock.depth - 1
            \/ /\ pc[c] \in {"ensure", "load"}
               /\ pc'[c] \in {"idle", "answered"}
               /\ lock'.owner = NoOne /\ lock'.depth = 0
            \/ /\ pc[c] = "generate"
               /\ pc'[c] \in {"idle", "answered", "reply"}
               /\ IF cfg.backend = "local" THEN lock'.owner = NoOne /\ lock'.depth = 0
                                           ELSE lock' = lock
<1>1. CASE Lock(c)
  BY <1>1 DEF Lock, TypeOK
<1>2. CASE RefuseToLoad(c)
  BY <1>2, FailEffect DEF RefuseToLoad, Unlocked
<1>3. CASE UseLoaded(c)
  BY <1>3, BeginEffect DEF UseLoaded, localVars
<1>4. CASE LockAgain(c)
  BY <1>4 DEF LockAgain, TypeOK
<1>5. CASE CheckAgain(c)
  BY <1>5 DEF CheckAgain, VlmLoaded, localVars, TypeOK
<1>6. CASE LoadReturns(c)
  BY <1>6 DEF LoadReturns, TypeOK
<1>7. CASE LoadFails(c)
  BY <1>7, FailEffect DEF LoadFails, Unlocked
<1>8. CASE LeaveEnsure(c)
  <2>1. BeginGeneration(c)
    BY <1>8 DEF LeaveEnsure
  <2>2. QED
    BY <1>8, <2>1, BeginEffect DEF LeaveEnsure
<1>9. CASE GenerateReturns(c)
  BY <1>9, SucceedEffect DEF GenerateReturns, EndGeneration, Unlocked
<1>10. CASE GenerateFails(c)
  BY <1>10, FailEffect DEF GenerateFails, EndGeneration, Unlocked
<1>11. QED
  BY <1>1, <1>2, <1>3, <1>4, <1>5, <1>6, <1>7, <1>8, <1>9, <1>10 DEF InsideStep

LEMMA StepAccess == AccessInv /\ [Next]_vars => AccessInv'
<1> SUFFICES ASSUME AccessInv, [Next]_vars PROVE AccessInv'
  OBVIOUS
<1>0. TypeOK /\ TypeOK' /\ cfg' = cfg
  BY StepType, ConfigConstant DEF AccessInv
<1>1. PlacesFit /\ LockMatchesHolder /\ GenerationExclusive
  BY DEF AccessInv
<1>2. CASE OutsideStep
  <2>1. PlacesFit'
    BY <1>1, <1>2 DEF OutsideStep, PlacesFit, Inside, Nested
  <2>2. LockMatchesHolder'
    BY <1>1, <1>2 DEF OutsideStep, LockMatchesHolder, Inside, Nested
  <2>3. GenerationExclusive'
    BY <1>0, <1>1, <1>2 DEF OutsideStep, GenerationExclusive, Inside
  <2>4. QED
    BY <1>0, <2>1, <2>2, <2>3 DEF AccessInv
<1>3. ASSUME NEW c \in Clients, InsideStep(c)
      PROVE  AccessInv'
  <2>1. PlacesFit'
    BY <1>0, <1>1, <1>3, InsideEffect DEF PlacesFit, Nested
  <2>2. ASSUME cfg.backend = "local"
        PROVE  /\ pc[c] \in Inside => lock.owner = c
               /\ pc'[c] \in Inside <=> lock'.owner = c
               /\ pc'[c] \notin Inside => lock'.owner = NoOne /\ lock'.depth = 0
               /\ pc'[c] \in Inside => lock'.depth = (IF pc'[c] \in Nested THEN 2 ELSE 1)
               /\ pc'[c] \in Inside => lock.owner \in {NoOne, c}
    <3>1. NoOne # c
      BY ModelAccessAssumption
    <3>2. /\ lock.owner = NoOne <=> lock.depth = 0
          /\ lock.owner = c <=> pc[c] \in Inside
          /\ lock.owner = c => lock.depth = (IF pc[c] \in Nested THEN 2 ELSE 1)
      BY <1>1, <2>2 DEF LockMatchesHolder
    <3>3. QED
      BY <1>3, <2>2, <3>1, <3>2, InsideEffect, <1>0 DEF Inside, Nested, CanLock
  <2>3. LockMatchesHolder'
    <3>1. SUFFICES ASSUME cfg.backend = "local"
                   PROVE  /\ lock'.owner = NoOne <=> lock'.depth = 0
                          /\ \A d \in Clients :
                               /\ lock'.owner = d <=> pc'[d] \in Inside
                               /\ lock'.owner = d =>
                                    lock'.depth = (IF pc'[d] \in Nested THEN 2 ELSE 1)
      BY <1>0 DEF LockMatchesHolder
    <3>2. NoOne \notin Clients
      BY ModelAccessAssumption
    <3>3. lock'.owner \in {NoOne, c}
      BY <2>2, <3>1
    <3>4. lock'.owner = NoOne <=> lock'.depth = 0
      BY <2>2, <3>1, <3>2, <3>3
    <3>5. ASSUME NEW d \in Clients \ {c}
          PROVE  lock'.owner # d /\ pc'[d] \notin Inside
      <4>1. lock'.owner # d
        BY <3>2, <3>3
      <4>2. pc'[d] = pc[d]
        BY <1>0, <1>3, InsideEffect
      <4>3. pc[c] \in Inside \/ lock.owner \in {NoOne, c}
        BY <1>0, <1>3, InsideEffect DEF Inside, Nested, CanLock
      <4>4. lock.owner # d
        BY <2>2, <3>1, <3>2, <4>3
      <4>5. QED
        BY <1>1, <3>1, <4>1, <4>2, <4>4 DEF LockMatchesHolder
    <3>6. QED
      BY <2>2, <3>1, <3>2, <3>4, <3>5
  <2>4. GenerationExclusive'
    <3>1. CASE cfg.backend = "local"
      BY <1>0, <2>3, <3>1 DEF LockMatchesHolder, GenerationExclusive, Inside
    <3>2. CASE cfg.backend # "local"
      <4>1. pc[c] = "generate" /\ pc'[c] # "generate"
        BY <1>0, <1>1, <1>3, <3>2, InsideEffect DEF PlacesFit, Nested
      <4>2. QED
        BY <1>0, <1>1, <1>3, <4>1, InsideEffect DEF GenerationExclusive
    <3>3. QED
      BY <3>1, <3>2
  <2>5. QED
    BY <1>0, <2>1, <2>3, <2>4 DEF AccessInv
<1>4. CASE Accept
  <2>1. Head(queue) \in Clients
    BY <1>0, <1>4 DEF Accept, TypeOK
  <2>2. cfg.backend = "socket" /\ Serving = {} /\ UNCHANGED lock
    BY <1>4 DEF Accept, localVars
  <2>3. BeginGeneration(Head(queue))
    BY <1>4 DEF Accept
  <2>4. /\ \A d \in Clients : d = Head(queue) \/ pc'[d] = pc[d]
        /\ pc'[Head(queue)] = "generate"
    BY <1>0, <2>1, <2>3, BeginEffect
  <2>5. QED
    BY <1>0, <1>1, <2>2, <2>4
    DEF AccessInv, PlacesFit, LockMatchesHolder, GenerationExclusive, Nested, Serving
<1>5. CASE ServerCrashes
  <2>1. cfg.backend = "socket" /\ Fail(Waiting \cup Serving)
    BY <1>0, <1>5, GoneEffect DEF ServerCrashes, Waiting, Serving
  <2>2. \A d \in Clients : pc'[d] = pc[d] \/ pc'[d] \in {"idle", "answered"}
    BY <1>0, <2>1, FailEffect DEF Waiting, Serving
  <2>3. QED
    BY <1>0, <1>1, <2>1, <2>2
    DEF AccessInv, PlacesFit, LockMatchesHolder, GenerationExclusive, Nested
<1>6. QED
  BY <1>0, <1>2, <1>3, <1>4, <1>5, StepKinds

\* One generation at a time, in the node and in the model server (node.py:512,
\* 544; model_server.py:66, 92, 152).
THEOREM OneGeneration == Spec => []GenerationExclusive
<1>1. AccessInv => GenerationExclusive
  BY DEF AccessInv
<1>2. QED
  BY <1>1, InitAccess, StepAccess, PTL DEF Spec

\* inference_lock is held exactly by who is inside its with-statements
\* (node.py:326, 512, 544).
THEOREM LockHeldByHolder == Spec => []LockMatchesHolder
<1>1. AccessInv => LockMatchesHolder
  BY DEF AccessInv
<1>2. QED
  BY <1>1, InitAccess, StepAccess, PTL DEF Spec

-----------------------------------------------------------------------------
(* The retry.                                                              *)

\* An inference has tried the token limits of its client from the first one on.
RetryInv ==
  \A c \in Clients :
    /\ Len(tried[c]) <= Len(Attempts(c))
    /\ \A i \in 1..Len(tried[c]) : tried[c][i] = Attempts(c)[i]

\* What a step does to the limits that a client has tried.
LEMMA TriedEffect ==
  ASSUME TypeOK, [Next]_vars, NEW d \in Clients
  PROVE  \/ tried'[d] \in {tried[d], <<>>, <<Attempts(d)[1]>>}
         \/ /\ Len(tried[d]) < Len(Attempts(d))
            /\ tried'[d] = Append(tried[d], Attempts(d)[Len(tried[d]) + 1])
<1> USE DEF planVars, localVars, serverVars
<1>1. CASE UNCHANGED tried
  BY <1>1
<1>2. ASSUME NEW c \in Clients, BeginGeneration(c)
      PROVE  tried'[d] \in {tried[d], <<Attempts(d)[1]>>}
  BY <1>2, BeginEffect
<1>3. ASSUME NEW c \in Clients, EndGeneration(c)
      PROVE  tried'[d] \in {tried[d], <<>>}
  BY <1>3 DEF EndGeneration, TypeOK
<1>4. ASSUME NEW S, ServerGone(S)
      PROVE  tried'[d] \in {tried[d], <<>>}
  BY <1>4 DEF ServerGone
<1>5. ASSUME NEW c \in Clients, RetryAfterOom(c)
      PROVE  \/ tried'[d] = tried[d]
             \/ /\ Len(tried[d]) < Len(Attempts(d))
                /\ tried'[d] = Append(tried[d], Attempts(d)[Len(tried[d]) + 1])
  BY <1>5 DEF RetryAfterOom, TypeOK
<1>6. ASSUME NEW c \in Clients, Lock(c) \/ ClientStep(c)
      PROVE  \/ UNCHANGED tried \/ BeginGeneration(c) \/ EndGeneration(c)
             \/ RetryAfterOom(c)
  BY <1>6 DEF Lock, ClientStep, RefuseToLoad, UseLoaded, LockAgain, CheckAgain, LoadReturns,
              LoadFails, LeaveEnsure, GenerateReturns, GenerateFails, Connect, ConnectFails,
              AskModels,
              ChatReturns, HttpFails
<1>7. ASSUME Accept
      PROVE  BeginGeneration(Head(queue)) /\ Head(queue) \in Clients
  BY <1>7 DEF Accept, TypeOK
<1>8. CASE ServerStops \/ ServerCrashes
  BY <1>8, <1>4 DEF ServerStops, ServerCrashes
<1>9. ASSUME NEW p \in Plans, StartPlan(p) \/ PlanStep(p)
      PROVE  UNCHANGED tried
  BY <1>9 DEF StartPlan, PlanStep, FindScene, GiveUpOnScene, Answer
<1>10. CASE \/ Construct \/ Evaluate \/ ServerStarts \/ ServerSignal \/ UNCHANGED vars
            \/ \E camera \in {"front", "wrist"} : OnImage(camera)
            \/ \E text \in Texts : OnSceneFacts(text)
  <2>1. UNCHANGED tried
    BY <1>10 DEF Construct, Evaluate, ServerStarts, ServerSignal, OnImage, OnSceneFacts, vars
  <2>2. QED
    BY <2>1
<1>11. QED
  BY <1>1, <1>2, <1>3, <1>5, <1>6, <1>7, <1>8, <1>9, <1>10 DEF Next, ServerStep, Failed

LEMMA StepRetry == TypeOK /\ RetryInv /\ [Next]_vars => RetryInv'
<1> SUFFICES ASSUME TypeOK, RetryInv, [Next]_vars PROVE RetryInv'
  OBVIOUS
<1>0. \A d \in Clients : Attempts(d)' = Attempts(d)
  BY ConfigConstant DEF Attempts, GenerationLimit
<1> SUFFICES ASSUME NEW d \in Clients
             PROVE  /\ Len(tried'[d]) <= Len(Attempts(d))
                    /\ \A i \in 1..Len(tried'[d]) : tried'[d][i] = Attempts(d)[i]
  BY <1>0 DEF RetryInv
<1>1. /\ Attempts(d) \in Seq(Nat) /\ Len(Attempts(d)) \in {1, 2}
      /\ tried[d] \in Seq(Nat)
  BY AttemptsType DEF TypeOK
<1>2. /\ Len(tried[d]) <= Len(Attempts(d))
      /\ \A i \in 1..Len(tried[d]) : tried[d][i] = Attempts(d)[i]
  BY DEF RetryInv
<1>3. CASE tried'[d] \in {tried[d], <<>>, <<Attempts(d)[1]>>}
  BY <1>1, <1>2, <1>3
<1>4. CASE /\ Len(tried[d]) < Len(Attempts(d))
           /\ tried'[d] = Append(tried[d], Attempts(d)[Len(tried[d]) + 1])
  BY <1>1, <1>2, <1>4
<1>5. QED
  BY <1>3, <1>4, TriedEffect

\* Generation is repeated with fewer tokens only (model.py:74-91).
THEOREM RetriesAreShorter == Spec => []RetriesShrink
<1>1. Init => RetryInv
  BY AttemptsType DEF Init, RetryInv
<1>2. TypeOK /\ RetryInv => RetriesShrink
  <2>1. SUFFICES ASSUME TypeOK, RetryInv, NEW c \in Clients, NEW i \in 1..Len(tried[c]) - 1
                 PROVE  tried[c][i + 1] < tried[c][i]
    BY DEF RetriesShrink
  <2>2. tried[c] \in Seq(Nat) /\ Len(tried[c]) \in Nat
    BY <2>1 DEF TypeOK
  <2>3. Len(Attempts(c)) \in {1, 2}
    BY AttemptsType
  <2>4. /\ Len(tried[c]) <= Len(Attempts(c))
        /\ \A j \in 1..Len(tried[c]) : tried[c][j] = Attempts(c)[j]
    BY <2>1 DEF RetryInv
  <2>5. i \in Int /\ 1 <= i /\ i <= Len(tried[c]) - 1
    BY <2>1, <2>2
  <2>6. Len(tried[c]) <= Len(Attempts(c)) /\ Len(tried[c]) \in Nat
    BY <2>2, <2>4
  <2>7. i = 1 /\ Len(tried[c]) = 2 /\ Len(Attempts(c)) = 2
    <3>1. ASSUME NEW m \in Nat, NEW n \in {1, 2}, NEW j \in Int, m <= n, 1 <= j, j <= m - 1
          PROVE  j = 1 /\ m = 2 /\ n = 2
      BY <3>1
    <3>2. QED
      BY <2>3, <2>5, <2>6, <3>1
  <2>8. QED
    BY <2>4, <2>7, AttemptsType
<1>3. QED
  BY <1>1, <1>2, StepRetry, InitType, StepType, PTL DEF Spec

-----------------------------------------------------------------------------
(* The weights.                                                            *)

\* Nobody is anywhere before the node is up.
StartInv ==
  node = "starting" => loads = 0 /\ queue = <<>> /\ \A c \in Clients : pc[c] = "idle"

\* Who loads has found that nobody has.
LoadInv == \A c \in Clients : pc[c] = "load" => loads = 0

LEMMA LoadsChange ==
  ASSUME [Next]_vars
  PROVE  \/ Construct
         \/ \E c \in Clients : LoadReturns(c)
         \/ UNCHANGED <<node, loads>>
BY DEF Next, OnImage, OnSceneFacts, Evaluate, StartPlan, PlanStep, FindScene, GiveUpOnScene,
   Answer, Lock, ClientStep, RefuseToLoad, UseLoaded, LockAgain, CheckAgain, LoadFails,
   LeaveEnsure, GenerateReturns, RetryAfterOom, GenerateFails, Connect, ConnectFails,
   AskModels, ChatReturns, HttpFails, ServerStep, Accept, ServerStops, ServerStarts,
   ServerSignal, ServerCrashes, Failed, vars, localVars

\* A client comes to load when it does not find the weights.
LEMMA LoadEntered ==
  ASSUME AccessInv, [Next]_vars, NEW c \in Clients, pc'[c] = "load"
  PROVE  pc[c] = "load" \/ loads = 0
<1>0. TypeOK
  BY DEF AccessInv
<1>1. CASE OutsideStep
  BY <1>1 DEF OutsideStep, Inside, Nested
<1>2. ASSUME NEW d \in Clients, InsideStep(d)
      PROVE  pc[c] = "load" \/ loads = 0
  BY <1>0, <1>2, InsideEffect
<1>3. CASE Accept
  <2>1. Head(queue) \in Clients /\ BeginGeneration(Head(queue))
    BY <1>0, <1>3 DEF Accept, TypeOK
  <2>2. QED
    BY <1>0, <2>1, BeginEffect
<1>4. CASE ServerCrashes
  <2>1. Fail(Waiting \cup Serving) /\ Waiting \cup Serving \in SUBSET Clients
    BY <1>0, <1>4, GoneEffect DEF ServerCrashes, Waiting, Serving
  <2>2. QED
    BY <1>0, <2>1, FailEffect
<1>5. QED
  BY <1>0, <1>1, <1>2, <1>3, <1>4, StepKinds

LEMMA StartStep ==
  ASSUME AccessInv, StartInv, [Next]_vars, node = "starting", ~Construct
  PROVE  queue' = <<>> /\ \A c \in Clients : pc'[c] = pc[c]
<1>1. Serving = {} /\ Waiting = {}
  BY DEF StartInv, Serving, Waiting
<1>2. ~ \E c \in Clients : InsideStep(c)
  BY DEF StartInv, InsideStep, Lock, RefuseToLoad, UseLoaded, LockAgain, CheckAgain,
     LoadReturns, LoadFails, LeaveEnsure, GenerateReturns, GenerateFails
<1>3. CASE ServerStops \/ ServerCrashes
  <2>1. Fail({}) /\ queue' = <<>>
    BY <1>1, <1>3, GoneEffect DEF ServerStops, ServerCrashes, AccessInv
  <2>2. QED
    BY <2>1, FailEffect DEF AccessInv
<1>4. ~Accept
  BY DEF Accept, StartInv
<1>5. CASE ServerStarts \/ ServerSignal \/ UNCHANGED vars
  BY <1>5 DEF ServerStarts, ServerSignal, vars, serverVars, StartInv
<1>6. ~ (Evaluate \/ \E p \in Plans : StartPlan(p) \/ PlanStep(p))
  BY DEF StartInv, Evaluate, StartPlan, PlanStep, FindScene, GiveUpOnScene, Answer, Clients
<1>7. ~ ((\E camera \in {"front", "wrist"} : OnImage(camera))
         \/ \E text \in Texts : OnSceneFacts(text))
  BY DEF OnImage, OnSceneFacts
<1>8. ~ \E c \in Clients : ClientStep(c)
  BY <1>2 DEF StartInv, ClientStep, InsideStep, RetryAfterOom, Connect, ConnectFails, AskModels,
     ChatReturns, HttpFails
<1>9. QED
  BY <1>2, <1>3, <1>4, <1>5, <1>6, <1>7, <1>8 DEF Next, ServerStep, Failed, InsideStep

LEMMA StepWeights ==
  ASSUME AccessInv, StartInv, LoadInv, WeightsLoadedOnce, [Next]_vars
  PROVE  StartInv' /\ LoadInv' /\ WeightsLoadedOnce'
<1>0. cfg' = cfg /\ TypeOK /\ loads \in Nat
  BY ConfigConstant DEF AccessInv, TypeOK
<1>1. CASE Construct
  <2>1. /\ node = "starting" /\ node' # "starting" /\ loads = 0
        /\ \A c \in Clients : pc'[c] = "idle"
    BY <1>1 DEF Construct, StartInv
  <2>2. loads' = 0 \/ (loads' = 1 /\ cfg.backend = "local" /\ ~cfg.disabled)
    BY <1>1, <2>1 DEF Construct
  <2>3. QED
    BY <1>0, <2>1, <2>2 DEF StartInv, LoadInv, WeightsLoadedOnce
<1>2. ASSUME NEW c \in Clients, LoadReturns(c)
      PROVE  StartInv' /\ LoadInv' /\ WeightsLoadedOnce'
  <2>1. pc[c] = "load" /\ node' = node /\ loads' = loads + 1
    BY <1>2 DEF LoadReturns
  <2>2. cfg.backend = "local" /\ ~cfg.disabled /\ node # "starting"
    BY <2>1 DEF AccessInv, PlacesFit, StartInv, Nested
  <2>3. loads' = 1
    BY <2>1 DEF LoadInv
  <2>4. \A d \in Clients : pc'[d] # "load"
    <3>1. pc'[c] = "loaded" /\ \A d \in Clients \ {c} : pc'[d] = pc[d]
      BY <1>0, <1>2 DEF LoadReturns, TypeOK
    <3>2. lock.owner = c /\ \A d \in Clients : pc[d] = "load" => lock.owner = d
      BY <2>1, <2>2 DEF AccessInv, LockMatchesHolder, Inside, Nested
    <3>3. QED
      BY <3>1, <3>2
  <2>5. QED
    BY <1>0, <2>1, <2>2, <2>3, <2>4 DEF StartInv, LoadInv, WeightsLoadedOnce
<1>3. CASE UNCHANGED <<node, loads>>
  <2>1. WeightsLoadedOnce'
    BY <1>0, <1>3 DEF WeightsLoadedOnce
  <2>2. ~Construct
    BY <1>3 DEF Construct
  <2>3. StartInv'
    BY <1>3, <2>2, StartStep DEF StartInv
  <2>4. LoadInv'
    BY <1>3, LoadEntered DEF LoadInv
  <2>5. QED
    BY <2>1, <2>3, <2>4
<1>4. QED
  BY <1>1, <1>2, <1>3, LoadsChange

\* The weights are loaded at most once, although the load is no single step, and
\* never where that is forbidden (node.py:117-119, 316-328, 512, 544).
THEOREM OneLoad == Spec => []WeightsLoadedOnce
<1>1. Init => StartInv /\ LoadInv /\ WeightsLoadedOnce
  BY DEF Init, StartInv, LoadInv, WeightsLoadedOnce
<1>2. /\ AccessInv /\ StartInv /\ LoadInv /\ WeightsLoadedOnce /\ [Next]_vars
      => StartInv' /\ LoadInv' /\ WeightsLoadedOnce'
  BY StepWeights
<1>3. QED
  BY <1>1, <1>2, InitAccess, StepAccess, PTL DEF Spec

-----------------------------------------------------------------------------
(* The connections that the model server has not accepted.                 *)

\* Each waiting client has one connection in the queue.
QueueInv ==
  /\ \A i \in 1..Len(queue) : pc[queue[i]] = "queued"
  /\ \A i, j \in 1..Len(queue) : queue[i] = queue[j] => i = j

\* A step that leaves the queue and who waits in it alone.
NoQueueStep == queue' = queue /\ \A c \in Clients : pc[c] = "queued" => pc'[c] = "queued"

LEMMA QueueKinds ==
  ASSUME TypeOK, [Next]_vars
  PROVE  \/ NoQueueStep \/ queue' = <<>> \/ Accept
         \/ \E c \in Clients : Connect(c)
<1> USE DEF NoQueueStep, serverVars
<1>1. CASE Construct \/ UNCHANGED vars \/ ServerStarts \/ ServerSignal
  BY <1>1 DEF Construct, vars, ServerStarts, ServerSignal
<1>2. ASSUME NEW camera \in {"front", "wrist"}, OnImage(camera)
      PROVE  NoQueueStep
  BY <1>2 DEF OnImage
<1>3. ASSUME NEW text \in Texts, OnSceneFacts(text)
      PROVE  NoQueueStep
  BY <1>3 DEF OnSceneFacts
<1>4. CASE Evaluate
  BY <1>4 DEF Evaluate, TypeOK
<1>5. ASSUME NEW p \in Plans, StartPlan(p) \/ PlanStep(p)
      PROVE  NoQueueStep
  <2>1. queue' = queue /\ pc[p] # "queued" /\ \E place : pc' = [pc EXCEPT ![p] = place]
    BY <1>5 DEF StartPlan, PlanStep, FindScene, GiveUpOnScene, Answer
  <2>2. QED
    BY <2>1 DEF TypeOK
<1>6. ASSUME NEW c \in Clients,
             \/ Lock(c) \/ LockAgain(c) \/ CheckAgain(c) \/ LoadReturns(c)
             \/ RetryAfterOom(c) \/ AskModels(c)
      PROVE  NoQueueStep
  BY <1>6 DEF Lock, LockAgain, CheckAgain, LoadReturns, RetryAfterOom, AskModels, TypeOK
<1>7. ASSUME NEW c \in Clients, UseLoaded(c) \/ LeaveEnsure(c)
      PROVE  NoQueueStep
  <2>1. BeginGeneration(c) /\ pc[c] # "queued" /\ queue' = queue
    BY <1>7 DEF UseLoaded, LeaveEnsure
  <2>2. QED
    BY <2>1, BeginEffect
<1>8. ASSUME NEW c \in Clients,
             \/ RefuseToLoad(c) \/ LoadFails(c) \/ GenerateFails(c)
             \/ ConnectFails(c) \/ HttpFails(c)
      PROVE  NoQueueStep
  <2>1. Fail({c}) /\ pc[c] # "queued" /\ queue' = queue
    BY <1>8 DEF RefuseToLoad, LoadFails, GenerateFails, ConnectFails, HttpFails
  <2>2. QED
    BY <2>1, FailEffect
<1>9. ASSUME NEW c \in Clients, GenerateReturns(c) \/ ChatReturns(c)
      PROVE  NoQueueStep
  <2>1. Succeed(c) /\ pc[c] # "queued" /\ queue' = queue
    BY <1>9 DEF GenerateReturns, ChatReturns
  <2>2. QED
    BY <2>1, SucceedEffect
<1>10. CASE ServerStops \/ ServerCrashes
  BY <1>10 DEF ServerStops, ServerCrashes, ServerGone
<1>11. QED
  BY <1>1, <1>2, <1>3, <1>4, <1>5, <1>6, <1>7, <1>8, <1>9, <1>10
  DEF Next, ClientStep, ServerStep, Failed

LEMMA InitQueue == Init => QueueInv
BY DEF Init, QueueInv

LEMMA StepQueue == TypeOK /\ QueueInv /\ [Next]_vars => QueueInv'
<1> SUFFICES ASSUME TypeOK, QueueInv, [Next]_vars PROVE QueueInv'
  OBVIOUS
<1>1. CASE NoQueueStep
  <2>1. queue' = queue
    BY <1>1 DEF NoQueueStep
  <2>2. \A i \in 1..Len(queue) : queue[i] \in Clients
    BY DEF TypeOK
  <2>3. \A i \in 1..Len(queue) : pc'[queue[i]] = "queued"
    BY <1>1, <2>2 DEF NoQueueStep, QueueInv
  <2>4. QED
    BY <2>1, <2>3 DEF QueueInv
<1>2. CASE queue' = <<>>
  BY <1>2 DEF QueueInv
<1>3. CASE Accept
  <2>1. queue # <<>> /\ queue' = Tail(queue) /\ BeginGeneration(Head(queue))
    BY <1>3 DEF Accept
  <2>2. Head(queue) \in Clients /\ Head(queue) = queue[1]
    BY <2>1 DEF TypeOK
  <2>3. /\ Len(queue') = Len(queue) - 1
        /\ \A i \in 1..Len(queue') : i + 1 \in 1..Len(queue) /\ queue'[i] = queue[i + 1]
    BY <2>1 DEF TypeOK
  <2>4. ASSUME NEW i \in 1..Len(queue')
        PROVE  pc'[queue'[i]] = "queued"
    <3>1. 1 \in 1..Len(queue) /\ i + 1 # 1 /\ queue[i + 1] \in Clients
      BY <2>3 DEF TypeOK
    <3>2. queue[i + 1] # Head(queue)
      BY <2>2, <2>3, <3>1 DEF QueueInv
    <3>3. pc'[queue[i + 1]] = pc[queue[i + 1]]
      BY <2>1, <2>2, <3>1, <3>2, BeginEffect
    <3>4. pc[queue[i + 1]] = "queued" /\ queue'[i] = queue[i + 1]
      BY <2>3 DEF QueueInv
    <3>5. QED
      BY <3>3, <3>4
  <2>5. ASSUME NEW i \in 1..Len(queue'), NEW j \in 1..Len(queue'), queue'[i] = queue'[j]
        PROVE  i = j
    BY <2>3, <2>5 DEF QueueInv
  <2>6. QED
    BY <2>4, <2>5 DEF QueueInv
<1>4. ASSUME NEW c \in Clients, Connect(c)
      PROVE  QueueInv'
  <2>1. pc[c] = "connect" /\ queue' = Append(queue, c) /\ pc' = [pc EXCEPT ![c] = "queued"]
    BY <1>4 DEF Connect
  <2>2. \A i \in 1..Len(queue) : queue[i] # c /\ queue[i] \in Clients
    BY <2>1 DEF QueueInv, TypeOK
  <2>3. /\ Len(queue') = Len(queue) + 1 /\ queue'[Len(queue) + 1] = c
        /\ \A i \in 1..Len(queue) : queue'[i] = queue[i]
    BY <2>1 DEF TypeOK
  <2>4. /\ pc'[c] = "queued"
        /\ \A i \in 1..Len(queue) : pc'[queue[i]] = "queued"
    BY <2>1, <2>2 DEF QueueInv, TypeOK
  <2>5. Len(queue) \in Nat
    BY DEF TypeOK
  <2>6. ASSUME NEW i \in 1..Len(queue')
        PROVE  pc'[queue'[i]] = "queued"
    <3>1. i \in 1..Len(queue) \/ i = Len(queue) + 1
      BY <2>3, <2>5
    <3>2. QED
      BY <2>3, <2>4, <3>1
  <2>7. ASSUME NEW i \in 1..Len(queue'), NEW j \in 1..Len(queue'), queue'[i] = queue'[j]
        PROVE  i = j
    <3>1. /\ i \in 1..Len(queue) \/ i = Len(queue) + 1
          /\ j \in 1..Len(queue) \/ j = Len(queue) + 1
      BY <2>3, <2>5
    <3>2. QED
      BY <2>2, <2>3, <2>7, <3>1 DEF QueueInv
  <2>8. QED
    BY <2>6, <2>7 DEF QueueInv
<1>5. QED
  BY <1>1, <1>2, <1>3, <1>4, QueueKinds

-----------------------------------------------------------------------------
(* The answers to plan calls.                                              *)

PlanInv ==
  /\ facts \in {"empty", "object"}
  /\ \A p \in Plans :
       /\ pc[p] = "idle" => outcome[p] = "none"
       /\ pc[p] # "idle" => request[p] \in cfg.requests
       /\ outcome[p] = "accepted" =>
            PlanAccepted(request[p], plan[p]) /\ Len(plan[p].steps) \in Nat

\* A step that neither asks nor answers with a plan.
ElsewhereStep ==
  /\ UNCHANGED <<request, plan>>
  /\ \A p \in Plans :
       /\ pc'[p] = "idle" <=> pc[p] = "idle"
       /\ \/ outcome'[p] = outcome[p]
          \/ outcome'[p] \in {"error", "no scene"} /\ pc[p] # "idle"

LEMMA PlanKinds ==
  ASSUME TypeOK, QueueInv, [Next]_vars
  PROVE  ElsewhereStep \/ (\E p \in Plans : StartPlan(p) \/ Answer(p))
<1> USE DEF ElsewhereStep, planVars
<1>1. CASE Construct \/ UNCHANGED vars \/ ServerStarts \/ ServerSignal
  BY <1>1 DEF Construct, vars, ServerStarts, ServerSignal
<1>2. ASSUME NEW camera \in {"front", "wrist"}, OnImage(camera)
      PROVE  ElsewhereStep
  BY <1>2 DEF OnImage
<1>3. ASSUME NEW text \in Texts, OnSceneFacts(text)
      PROVE  ElsewhereStep
  BY <1>3 DEF OnSceneFacts
<1>4. CASE Evaluate
  BY <1>4, ModelAccessAssumption DEF Evaluate, TypeOK
<1>5. ASSUME NEW p \in Plans, FindScene(p) \/ GiveUpOnScene(p)
      PROVE  ElsewhereStep
  BY <1>5, FirstStepType DEF FindScene, GiveUpOnScene, TypeOK, Clients
<1>6. ASSUME NEW c \in Clients,
             \/ Lock(c) \/ LockAgain(c) \/ CheckAgain(c) \/ LoadReturns(c)
             \/ RetryAfterOom(c) \/ Connect(c) \/ AskModels(c)
      PROVE  ElsewhereStep
  BY <1>6 DEF Lock, LockAgain, CheckAgain, LoadReturns, RetryAfterOom, Connect, AskModels,
     TypeOK, Clients
<1>7. ASSUME NEW c \in Clients, UseLoaded(c) \/ LeaveEnsure(c)
      PROVE  ElsewhereStep
  <2>1. BeginGeneration(c) /\ pc[c] # "idle" /\ UNCHANGED <<request, outcome, plan>>
    BY <1>7 DEF UseLoaded, LeaveEnsure
  <2>2. QED
    BY <2>1, BeginEffect DEF Clients
<1>8. ASSUME NEW S \in SUBSET Clients, Fail(S), \A c \in S : pc[c] # "idle",
             UNCHANGED <<request, plan>>
      PROVE  ElsewhereStep
  <2>1. ASSUME NEW p \in Plans
        PROVE  /\ pc'[p] = "idle" <=> pc[p] = "idle"
               /\ \/ outcome'[p] = outcome[p]
                  \/ outcome'[p] \in {"error", "no scene"} /\ pc[p] # "idle"
    <3>1. CASE p \in S
      BY <1>8, <3>1, FailEffect
    <3>2. CASE p \notin S
      <4>1. p \in Clients \ S /\ p \in Plans \ S
        BY <3>2 DEF Clients
      <4>2. pc'[p] = pc[p] /\ outcome'[p] = outcome[p]
        BY <1>8, <4>1, FailEffect
      <4>3. QED
        BY <4>2
    <3>3. QED
      BY <3>1, <3>2
  <2>2. QED
    BY <1>8, <2>1
<1>9. ASSUME NEW c \in Clients,
             \/ RefuseToLoad(c) \/ LoadFails(c) \/ GenerateFails(c)
             \/ ConnectFails(c) \/ HttpFails(c)
      PROVE  ElsewhereStep
  <2>1. Fail({c}) /\ pc[c] # "idle" /\ UNCHANGED <<request, plan>>
    BY <1>9 DEF RefuseToLoad, LoadFails, GenerateFails, ConnectFails, HttpFails
  <2>2. QED
    BY <1>8, <2>1
<1>10. ASSUME NEW c \in Clients, GenerateReturns(c) \/ ChatReturns(c)
       PROVE  ElsewhereStep
  <2>1. Succeed(c) /\ pc[c] # "idle" /\ UNCHANGED <<request, plan>>
    BY <1>10 DEF GenerateReturns, ChatReturns
  <2>2. QED
    BY <2>1, SucceedEffect DEF Clients
<1>11. CASE ServerStops \/ ServerCrashes
  <2>1. PICK S \in SUBSET (Waiting \cup Serving) : ServerGone(S)
    BY <1>11 DEF ServerStops, ServerCrashes
  <2>2. S \in SUBSET Clients /\ \A c \in S : pc[c] # "idle"
    BY DEF Waiting, Serving
  <2>3. Fail(S)
    BY <2>1, <2>2, GoneEffect
  <2>4. UNCHANGED <<request, plan>>
    BY <1>11 DEF ServerStops, ServerCrashes
  <2>5. QED
    BY <1>8, <2>2, <2>3, <2>4
<1>12. CASE Accept
  <2>1. /\ Head(queue) \in Clients /\ pc[Head(queue)] = "queued"
        /\ BeginGeneration(Head(queue)) /\ UNCHANGED <<request, outcome, plan>>
    BY <1>12 DEF Accept, QueueInv, TypeOK
  <2>2. QED
    BY <2>1, BeginEffect DEF Clients
<1>13. QED
  BY <1>1, <1>2, <1>3, <1>4, <1>5, <1>6, <1>7, <1>9, <1>10, <1>11, <1>12
  DEF Next, PlanStep, ClientStep, ServerStep, Failed

LEMMA StepPlans ==
  ASSUME TypeOK, QueueInv, PlanInv, RefusedForItsOwnFault, [Next]_vars
  PROVE  PlanInv' /\ RefusedForItsOwnFault'
<1>0. cfg' = cfg
  BY ConfigConstant
<1>1. facts' \in {"empty", "object"}
  BY DEF PlanInv, Next, Construct, OnImage, OnSceneFacts, Evaluate, StartPlan, PlanStep,
     FindScene,
     GiveUpOnScene, Answer, Lock, ClientStep, RefuseToLoad, UseLoaded, LockAgain, CheckAgain,
     LoadReturns,
     LoadFails, LeaveEnsure,
     GenerateReturns, RetryAfterOom, GenerateFails, Connect, ConnectFails, AskModels, ChatReturns,
     HttpFails, ServerStep, Accept, ServerStops, ServerStarts, ServerSignal, ServerCrashes,
     Failed, vars
<1>2. CASE ElsewhereStep
  <2>1. ASSUME NEW p \in Plans
        PROVE  /\ pc'[p] = "idle" => outcome'[p] = "none"
               /\ pc'[p] # "idle" => request'[p] \in cfg'.requests
               /\ outcome'[p] = "accepted" =>
                    PlanAccepted(request'[p], plan'[p]) /\ Len(plan'[p].steps) \in Nat
               /\ outcome'[p] = "bad request" => outcome[p] = "bad request"
    BY <1>0, <1>2 DEF ElsewhereStep, PlanInv
  <2>2. PlanInv'
    BY <1>1, <2>1 DEF PlanInv
  <2>3. RefusedForItsOwnFault'
    BY <1>2, <2>1 DEF RefusedForItsOwnFault, ElsewhereStep
  <2>4. QED
    BY <2>2, <2>3
<1>3. ASSUME NEW p \in Plans, StartPlan(p)
      PROVE  PlanInv' /\ RefusedForItsOwnFault'
  <2>1. PICK r \in cfg.requests :
          /\ request' = [request EXCEPT ![p] = r]
          /\ \/ /\ ~RequestLoads(r, facts)
                /\ outcome' = [outcome EXCEPT ![p] = "bad request"]
                /\ plan' = plan
             \/ /\ DryRunAccepted(r)
                /\ outcome' = [outcome EXCEPT ![p] = "accepted"]
                /\ plan' = [plan EXCEPT ![p] = CanonicalPlan(Stripped(r.task), r.registry)]
             \/ outcome' = [outcome EXCEPT ![p] = "bad plan"] /\ plan' = plan
             \/ outcome' = outcome /\ plan' = plan
    BY <1>3 DEF StartPlan
  <2>2. pc[p] = "idle" /\ pc'[p] # "idle" /\ \A q \in Plans \ {p} : pc'[q] = pc[q]
    BY <1>3 DEF StartPlan, TypeOK, Clients
  <2>3. \A q \in Plans \ {p} :
          request'[q] = request[q] /\ outcome'[q] = outcome[q] /\ plan'[q] = plan[q]
    BY <2>1 DEF TypeOK
  <2>4. request'[p] = r
    BY <2>1 DEF TypeOK
  <2>5. outcome'[p] = "accepted" =>
          PlanAccepted(request'[p], plan'[p]) /\ Len(plan'[p].steps) \in Nat
    <3>1. outcome[p] = "none"
      BY <2>2 DEF PlanInv
    <3>2. CASE DryRunAccepted(r) /\ plan' = [plan EXCEPT ![p] = CanonicalPlan(Stripped(r.task), r.registry)]
      <4>1. plan'[p] = CanonicalPlan(Stripped(r.task), r.registry)
        BY <3>2 DEF TypeOK
      <4>2. Len(r.registry.steps) \in Nat
        BY ModelAccessAssumption DEF TypeOK
      <4>3. QED
        BY <2>4, <3>2, <4>1, <4>2 DEF DryRunAccepted, CanonicalPlan
    <3>3. CASE outcome'[p] # "accepted"
      BY <3>3
    <3>4. QED
      BY <2>1, <3>1, <3>2, <3>3 DEF TypeOK
  <2>6. outcome'[p] = "bad request" =>
          \/ r.task.word = Blank
          \/ r.registry.text # "object"
          \/ r.facts \in {"malformed", "array"}
    <3>1. SUFFICES ASSUME ~RequestLoads(r, facts)
                   PROVE  \/ r.task.word = Blank
                          \/ r.registry.text # "object"
                          \/ r.facts \in {"malformed", "array"}
      BY <2>1, <2>2 DEF TypeOK, PlanInv
    <3>2. r.facts \in Texts
      BY ModelAccessAssumption DEF TypeOK
    <3>3. QED
      BY <3>1, <3>2 DEF RequestLoads, LoadsRequired, LoadsOptional, FactsFor, PlanInv, Texts
  <2>7. PlanInv'
    BY <1>0, <1>1, <2>2, <2>3, <2>4, <2>5 DEF PlanInv
  <2>8. RefusedForItsOwnFault'
    BY <2>3, <2>4, <2>6 DEF RefusedForItsOwnFault
  <2>9. QED
    BY <2>7, <2>8
<1>4. ASSUME NEW p \in Plans, Answer(p)
      PROVE  PlanInv' /\ RefusedForItsOwnFault'
  <2>1. /\ pc[p] # "idle" /\ pc'[p] # "idle"
        /\ \A q \in Plans \ {p} : pc'[q] = pc[q] /\ outcome'[q] = outcome[q] /\ plan'[q] = plan[q]
    BY <1>4 DEF Answer, TypeOK, Clients
  <2>2. request' = request
    BY <1>4 DEF Answer
  <2>3. /\ outcome'[p] \in {"accepted", "bad plan"}
        /\ outcome'[p] = "accepted" => \E reply \in cfg.replies :
             PlanAccepted(request[p], reply) /\ plan'[p] = reply
    BY <1>4 DEF Answer, TypeOK
  <2>4. \A reply \in cfg.replies : Len(reply.steps) \in Nat
    BY ModelAccessAssumption DEF TypeOK
  <2>5. PlanInv'
    BY <1>0, <1>1, <2>1, <2>2, <2>3, <2>4 DEF PlanInv
  <2>6. RefusedForItsOwnFault'
    BY <2>1, <2>2, <2>3 DEF RefusedForItsOwnFault
  <2>7. QED
    BY <2>5, <2>6
<1>5. QED
  BY <1>2, <1>3, <1>4, PlanKinds

LEMMA InitPlans == Init => PlanInv /\ RefusedForItsOwnFault
BY DEF Init, PlanInv, RefusedForItsOwnFault, Clients

\* A call is never refused for scene facts that it did not bring itself
\* (node.py:344-357, 574).
THEOREM OnlyItsOwnFault == Spec => []RefusedForItsOwnFault
<1>1. /\ TypeOK /\ QueueInv /\ PlanInv /\ RefusedForItsOwnFault /\ [Next]_vars
      => PlanInv' /\ RefusedForItsOwnFault'
  BY StepPlans
<1>2. QED
  BY <1>1, InitPlans, InitQueue, StepQueue, InitType, StepType, PTL DEF Spec

\* What the parser and the comparison with the registry guarantee together.
LEMMA AcceptedFits ==
  ASSUME TypeOK, NEW p \in Plans, request[p] \in cfg.requests,
         PlanAccepted(request[p], plan[p]), Len(plan[p].steps) \in Nat
  PROVE  LET steps    == plan[p].steps
             registry == request[p].registry
         IN  /\ plan[p].task = [word |-> request[p].task.word, padded |-> FALSE]
             /\ steps # <<>>
             /\ \A i \in 1..Len(steps) :
                  /\ DOMAIN steps[i] \subseteq AllowedStepFields
                  /\ steps[i].kind \in AllowedStepKinds
             /\ registry.canonical # "absent" =>
                  /\ Len(steps) = Len(registry.steps)
                  /\ \A i \in 1..Len(steps) :
                       /\ steps[i].kind = registry.steps[i].kind
                       /\ steps[i].name = registry.steps[i].name
<1> DEFINE steps == plan[p].steps
           registry == request[p].registry
<1>1. plan[p].task = [word |-> request[p].task.word, padded |-> FALSE]
  <2>1. request[p].task \in [word : STRING, padded : BOOLEAN]
    BY ModelAccessAssumption DEF TypeOK
  <2>2. plan[p].task = [request[p].task EXCEPT !.padded = FALSE]
    BY DEF PlanAccepted, MeetsConstraints, Stripped
  <2>3. QED
    BY <2>1, <2>2
<1>2. /\ steps # <<>>
      /\ \A i \in 1..Len(steps) :
           DOMAIN steps[i] \subseteq AllowedStepFields /\ steps[i].kind \in AllowedStepKinds
  BY DEF PlanAccepted, ParsesLinearIr, StepParses
<1>3. ASSUME registry.canonical # "absent"
      PROVE  /\ Len(steps) = Len(registry.steps)
             /\ \A i \in 1..Len(steps) :
                  /\ steps[i].kind = registry.steps[i].kind
                  /\ steps[i].name = registry.steps[i].name
  <2>1. Signatures(steps) = Signatures(registry.steps)
    BY <1>3 DEF PlanAccepted, MeetsConstraints
  <2>2. Len(steps) \in Nat /\ Len(registry.steps) \in Nat
    BY ModelAccessAssumption DEF TypeOK
  <2>3. 1..Len(steps) = 1..Len(registry.steps)
    BY <2>1 DEF Signatures
  <2>4. Len(steps) = Len(registry.steps)
    BY <2>2, <2>3
  <2>5. \A i \in 1..Len(steps) :
          <<steps[i].kind, steps[i].name>> = <<registry.steps[i].kind, registry.steps[i].name>>
    BY <2>1, <2>3 DEF Signatures
  <2>6. QED
    BY <2>4, <2>5
<1>4. QED
  BY <1>1, <1>2, <1>3

\* Every accepted plan is for the task asked for and follows the canonical
\* sequence of the registry (service_logic.py:58-77, 107-109).
THEOREM AcceptedPlansFit == Spec => []AcceptedPlanFits
<1>1. TypeOK /\ PlanInv => AcceptedPlanFits
  <2>1. SUFFICES ASSUME TypeOK, PlanInv, NEW p \in Plans, outcome[p] = "accepted"
                 PROVE  /\ request[p] \in cfg.requests /\ PlanAccepted(request[p], plan[p])
                        /\ Len(plan[p].steps) \in Nat
    BY AcceptedFits DEF AcceptedPlanFits
  <2>2. QED
    BY <2>1 DEF PlanInv
<1>2. /\ TypeOK /\ QueueInv /\ PlanInv /\ RefusedForItsOwnFault /\ [Next]_vars
      => PlanInv' /\ RefusedForItsOwnFault'
  BY StepPlans
<1>3. QED
  BY <1>1, <1>2, InitPlans, InitQueue, StepQueue, InitType, StepType, PTL DEF Spec

-----------------------------------------------------------------------------
(* Refinement of ModelService.                                             *)

\* Each way to the model has places of its own.
WaysFit ==
  \A c \in Clients :
    /\ pc[c] \in {"connect", "queued"} => cfg.backend = "socket"
    /\ pc[c] \in {"models", "chat"} => cfg.backend = "http"
    /\ pc[c] = "generate" => cfg.backend \in {"local", "socket"}

\* A step of one client from one place to another, without an answer.
Moves(c, from, to) ==
  /\ pc[c] = from /\ pc' = [pc EXCEPT ![c] = to]
  /\ UNCHANGED outcome

\* A call is answered for what it asks, or for the reply it got.
Judges(p) ==
  /\ pc' = [pc EXCEPT ![p] = "answered"]
  /\ \/ pc[p] = "idle" /\ outcome' = [outcome EXCEPT ![p] = "bad request"]
     \/ /\ pc[p] = "reply" \/ (pc[p] = "idle" /\ cfg.dryRun)
        /\ \E o \in {"accepted", "bad plan"} : outcome' = [outcome EXCEPT ![p] = o]

\* The errors that take one client out, and those that take out many.
FailsAlone(c) ==
  /\ pc[c] \in {"ensure", "load", "generate", "connect", "models", "chat"}
  /\ Fail({c})

LEMMA ServiceKinds ==
  ASSUME TypeOK, QueueInv, [Next]_vars
  PROVE  \/ UNCHANGED <<pc, outcome>>
         \/ Moves(Worker, "idle", FirstStep)
         \/ \E p \in Plans :
              \/ Moves(p, "idle", "scene") /\ ~cfg.dryRun
              \/ Moves(p, "scene", FirstStep)
              \/ Judges(p)
              \/ /\ pc[p] = "scene" /\ pc' = [pc EXCEPT ![p] = "answered"]
                 /\ outcome' = [outcome EXCEPT ![p] = "no scene"]
         \/ \E c \in Clients :
              \/ Moves(c, "lock", "ensure") \/ Moves(c, "ensure", "check")
              \/ Moves(c, "check", "load") \/ Moves(c, "check", "loaded")
              \/ Moves(c, "load", "loaded")
              \/ Moves(c, "ensure", "generate") \/ Moves(c, "loaded", "generate")
              \/ Moves(c, "connect", "queued")
              \/ Moves(c, "models", "chat")
              \/ Moves(c, "queued", "generate") /\ Serving = {} /\ cfg.backend = "socket"
              \/ \E from \in {"generate", "chat"} :
                   Moves(c, from, IF c = Worker THEN "idle" ELSE "reply")
              \/ FailsAlone(c)
         \/ /\ cfg.backend = "socket"
            /\ \/ Fail(Waiting) /\ Serving = {}
               \/ Fail(Waiting \cup Serving)
<1> USE DEF planVars, Moves
<1>1. CASE Construct \/ ServerStarts \/ ServerSignal \/ Failed \/ UNCHANGED vars
  BY <1>1 DEF Construct, ServerStarts, ServerSignal, Failed, vars
<1>2. ASSUME NEW camera \in {"front", "wrist"}, OnImage(camera)
      PROVE  UNCHANGED <<pc, outcome>>
  BY <1>2 DEF OnImage
<1>3. ASSUME NEW text \in Texts, OnSceneFacts(text)
      PROVE  UNCHANGED <<pc, outcome>>
  BY <1>3 DEF OnSceneFacts
<1>4. CASE Evaluate
  BY <1>4 DEF Evaluate
<1>5. ASSUME NEW p \in Plans, StartPlan(p)
      PROVE  (Moves(p, "idle", "scene") /\ ~cfg.dryRun) \/ Judges(p)
  BY <1>5 DEF StartPlan, Judges
<1>6. ASSUME NEW p \in Plans, PlanStep(p)
      PROVE  \/ Moves(p, "scene", FirstStep)
             \/ Judges(p)
             \/ /\ pc[p] = "scene" /\ pc' = [pc EXCEPT ![p] = "answered"]
                /\ outcome' = [outcome EXCEPT ![p] = "no scene"]
  BY <1>6 DEF PlanStep, FindScene, GiveUpOnScene, Answer, Judges
<1>7. ASSUME NEW c \in Clients,
             \/ Lock(c) \/ LockAgain(c) \/ CheckAgain(c) \/ LoadReturns(c)
             \/ RetryAfterOom(c) \/ Connect(c) \/ AskModels(c)
      PROVE  \/ UNCHANGED <<pc, outcome>>
             \/ Moves(c, "lock", "ensure") \/ Moves(c, "ensure", "check")
             \/ Moves(c, "check", "load") \/ Moves(c, "check", "loaded")
             \/ Moves(c, "load", "loaded")
             \/ Moves(c, "connect", "queued") \/ Moves(c, "models", "chat")
  BY <1>7 DEF Lock, LockAgain, CheckAgain, LoadReturns, RetryAfterOom, Connect, AskModels
<1>8. ASSUME NEW c \in Clients, UseLoaded(c) \/ LeaveEnsure(c)
      PROVE  Moves(c, "ensure", "generate") \/ Moves(c, "loaded", "generate")
  BY <1>8 DEF UseLoaded, LeaveEnsure, BeginGeneration
<1>9. ASSUME NEW c \in Clients, GenerateReturns(c) \/ ChatReturns(c)
      PROVE  \E from \in {"generate", "chat"} :
               Moves(c, from, IF c = Worker THEN "idle" ELSE "reply")
  BY <1>9 DEF GenerateReturns, ChatReturns, Succeed
<1>10. ASSUME NEW c \in Clients,
              \/ RefuseToLoad(c) \/ LoadFails(c) \/ GenerateFails(c)
              \/ ConnectFails(c) \/ HttpFails(c)
       PROVE  FailsAlone(c)
  BY <1>10 DEF RefuseToLoad, LoadFails, GenerateFails, ConnectFails, HttpFails, FailsAlone
<1>11. CASE Accept
  <2>1. Head(queue) \in Clients /\ pc[Head(queue)] = "queued"
    BY <1>11 DEF Accept, QueueInv, TypeOK
  <2>2. /\ Moves(Head(queue), "queued", "generate")
        /\ Serving = {} /\ cfg.backend = "socket"
    BY <1>11, <2>1 DEF Accept, BeginGeneration
  <2>3. QED
    BY <2>1, <2>2
<1>12. CASE ServerStops \/ ServerCrashes
  BY <1>12 DEF ServerStops, ServerCrashes, ServerGone
<1>13. QED
  BY <1>1, <1>2, <1>3, <1>4, <1>5, <1>6, <1>7, <1>8, <1>9, <1>10, <1>11, <1>12
  DEF Next, ClientStep, ServerStep

LEMMA StepWays ==
  ASSUME AccessInv, QueueInv, WaysFit, [Next]_vars
  PROVE  WaysFit'
<1>0. TypeOK /\ PlacesFit /\ cfg' = cfg
  BY ConfigConstant DEF AccessInv
<1>1. ASSUME NEW c \in Clients, NEW place \in Places, pc' = [pc EXCEPT ![c] = place],
             /\ place \in {"connect", "queued"} => cfg.backend = "socket"
             /\ place \in {"models", "chat"} => cfg.backend = "http"
             /\ place = "generate" => cfg.backend \in {"local", "socket"}
      PROVE  WaysFit'
  BY <1>0, <1>1 DEF WaysFit, TypeOK
<1>2. ASSUME NEW S \in SUBSET Clients, Fail(S)
      PROVE  WaysFit'
  <2>1. \A c \in Clients : pc'[c] = pc[c] \/ pc'[c] \in {"idle", "answered"}
    BY <1>0, <1>2, FailEffect
  <2>2. QED
    BY <1>0, <2>1 DEF WaysFit
<1>3. CASE UNCHANGED <<pc, outcome>>
  BY <1>0, <1>3 DEF WaysFit
<1>4. ASSUME NEW c \in Clients, NEW from, Moves(c, from, FirstStep)
      PROVE  WaysFit'
  BY <1>0, <1>1, <1>4, FirstStepType DEF Moves, Places, TypeOK
<1>5. ASSUME NEW p \in Plans, NEW place \in {"scene", "answered"},
             pc' = [pc EXCEPT ![p] = place]
      PROVE  WaysFit'
  BY <1>1, <1>5 DEF Places, Clients
<1>6. ASSUME NEW c \in Clients,
             \/ Moves(c, "lock", "ensure") \/ Moves(c, "ensure", "check")
             \/ Moves(c, "check", "load") \/ Moves(c, "check", "loaded")
             \/ Moves(c, "load", "loaded")
             \/ Moves(c, "ensure", "generate") \/ Moves(c, "loaded", "generate")
             \/ Moves(c, "connect", "queued")
             \/ Moves(c, "models", "chat")
             \/ Moves(c, "queued", "generate")
             \/ \E from \in {"generate", "chat"} :
                  Moves(c, from, IF c = Worker THEN "idle" ELSE "reply")
      PROVE  WaysFit'
  <2>1. PICK place \in Places :
          /\ pc' = [pc EXCEPT ![c] = place]
          /\ place \in {"ensure", "check", "load", "loaded", "idle", "reply"}
             \/ (place = "generate" /\ pc[c] \in {"ensure", "loaded", "queued"})
             \/ (place = "queued" /\ pc[c] = "connect")
             \/ (place = "chat" /\ pc[c] = "models")
    BY <1>6 DEF Moves, Places
  <2>2. QED
    BY <1>0, <1>1, <2>1 DEF PlacesFit, WaysFit, Nested
<1>7. QED
  <2>1. Waiting \in SUBSET Clients /\ Waiting \cup Serving \in SUBSET Clients
    BY DEF Waiting, Serving
  <2>2. Worker \in Clients /\ Plans \subseteq Clients
    BY DEF Clients
  <2>3. \A c \in Clients : FailsAlone(c) => WaysFit'
    BY <1>2 DEF FailsAlone
  <2>4. \A p \in Plans : Judges(p) => WaysFit'
    BY <1>5 DEF Judges
  <2>5. \A p \in Plans : Moves(p, "idle", "scene") => WaysFit'
    BY <1>5 DEF Moves
  <2>6. QED
    BY <1>0, <1>2, <1>3, <1>4, <1>5, <1>6, <2>1, <2>2, <2>3, <2>4, <2>5, ServiceKinds

LEMMA ServiceRefinesInit == Init => Service!Init
<1> SUFFICES ASSUME Init PROVE Service!Init
  OBVIOUS
<1>1. cfg.dryRun \in BOOLEAN
  <2>1. cfg \in Configs
    BY DEF Init
  <2>2. QED
    BY <2>1, ModelAccessAssumption
<1>2. Stage = [c \in Clients |-> "idle"] /\ Answers = [p \in Plans |-> "none"]
  BY DEF Init, Stage, StageAt, Answers, AnswerFor
<1>3. QED
  BY <1>1, <1>2 DEF Service!Init, Service!Everyone, Clients

\* What moves and answers are to the service.
LEMMA StageMoves ==
  ASSUME TypeOK, NEW c \in Clients, NEW place \in Places, pc' = [pc EXCEPT ![c] = place]
  PROVE  Stage' = [Stage EXCEPT ![c] = StageAt[place]]
BY DEF Stage, TypeOK

LEMMA StageFails ==
  ASSUME TypeOK, NEW S \in SUBSET Clients, Fail(S)
  PROVE  /\ Stage' = [c \in Clients |-> IF c \in S THEN Service!Left(c) ELSE Stage[c]]
         /\ Answers' = [p \in Plans |-> IF p \in S THEN "failed" ELSE Answers[p]]
BY DEF Fail, Stage, StageAt, Answers, AnswerFor, Service!Left

LEMMA AnswersMove ==
  ASSUME TypeOK, NEW p \in Plans, NEW o, outcome' = [outcome EXCEPT ![p] = o]
  PROVE  Answers' = [Answers EXCEPT ![p] = AnswerFor(o)]
BY DEF Answers, TypeOK

LEMMA StagePlaces ==
  ASSUME TypeOK, NEW c \in Clients
  PROVE  /\ Stage[c] = "idle" <=> pc[c] = "idle"
         /\ Stage[c] = "served" <=> pc[c] \in {"generate", "chat"}
         /\ Stage[c] = "replied" <=> pc[c] = "reply"
         /\ Stage[c] = "waiting" <=>
              pc[c] \in {"scene", "lock", "ensure", "check", "load", "loaded",
                         "connect", "queued", "models"}
<1>1. pc[c] \in Places
  BY DEF TypeOK
<1>2. Stage[c] = StageAt[pc[c]]
  BY DEF Stage
<1>3. QED
  BY <1>1, <1>2 DEF StageAt, Places

LEMMA ServiceRefinesStep ==
  AccessInv /\ QueueInv /\ WaysFit /\ [Next]_vars => [Service!Next]_(Service!serviceVars)
<1> SUFFICES ASSUME AccessInv, QueueInv, WaysFit, [Next]_vars
             PROVE  Service!Next \/ UNCHANGED <<cfg, Stage, Answers>>
  BY DEF Service!serviceVars, Service!settings
<1>0. TypeOK /\ PlacesFit /\ LockMatchesHolder /\ GenerationExclusive /\ cfg' = cfg
  BY ConfigConstant DEF AccessInv
<1>s. UNCHANGED Service!settings
  BY <1>0 DEF Service!settings
<1>e. Service!Everyone = Clients /\ Plans \subseteq Clients /\ Worker \in Clients
      /\ Worker \notin Plans
  BY ModelAccessAssumption DEF Service!Everyone, Clients
<1>u. outcome' = outcome => Answers' = Answers
  BY DEF Answers
<1>1. CASE UNCHANGED <<pc, outcome>>
  BY <1>0, <1>1 DEF Stage, Answers
<1>2. ASSUME NEW c \in Clients, NEW from \in Places, NEW to \in Places, Moves(c, from, to)
      PROVE  /\ Stage' = [Stage EXCEPT ![c] = StageAt[to]] /\ Answers' = Answers
             /\ pc[c] = from
             /\ StageAt[to] = Stage[c] => Stage' = Stage
  <2>1. Stage' = [Stage EXCEPT ![c] = StageAt[to]] /\ Answers' = Answers /\ pc[c] = from
    BY <1>0, <1>2, <1>u, StageMoves DEF Moves
  <2>2. StageAt[to] = Stage[c] => Stage' = Stage
    BY <2>1 DEF Stage
  <2>3. QED
    BY <2>1, <2>2
<1>3. ASSUME NEW c \in Clients, NEW to \in {"scene", "lock", "connect", "models"},
             Moves(c, "idle", to), c = Worker \/ ~cfg.dryRun
      PROVE  Service!Ask(c)
  <2>1. to \in Places /\ "idle" \in Places /\ StageAt[to] = "waiting"
    BY DEF Places, StageAt
  <2>2. QED
    BY <1>0, <1>s, <1>2, <1>3, <2>1, StagePlaces DEF Service!Ask
<1>4. ASSUME NEW c \in Clients,
             NEW from \in {"scene", "lock", "ensure", "check", "load", "connect"},
             NEW to \in {"lock", "connect", "models", "ensure", "check", "load", "loaded",
                         "queued"},
             Moves(c, from, to)
      PROVE  UNCHANGED <<Stage, Answers>>
  <2>1. from \in Places /\ to \in Places /\ StageAt[to] = "waiting"
    BY DEF Places, StageAt
  <2>2. Stage[c] = "waiting"
    BY <1>0, <1>4, StagePlaces DEF Moves
  <2>3. QED
    BY <1>2, <1>4, <2>1, <2>2
<1>5. ASSUME NEW c \in Clients, NEW from \in {"ensure", "loaded", "queued", "models"},
             NEW to \in {"generate", "chat"}, Moves(c, from, to),
             cfg.backend # "http" => \A d \in Clients : pc[d] \notin {"generate", "chat"}
      PROVE  Service!Serve(c)
  <2>1. from \in Places /\ to \in Places /\ StageAt[to] = "served"
    BY DEF Places, StageAt
  <2>2. Stage[c] = "waiting"
    BY <1>0, <1>5, StagePlaces DEF Moves
  <2>3. cfg.backend # "http" => Service!Served = {}
    BY <1>0, <1>5, <1>e, StagePlaces DEF Service!Served
  <2>4. QED
    BY <1>s, <1>2, <1>5, <2>1, <2>2, <2>3 DEF Service!Serve
<1>6. ASSUME NEW c \in Clients, NEW from \in {"generate", "chat"},
             Moves(c, from, IF c = Worker THEN "idle" ELSE "reply")
      PROVE  Service!Reply(c)
  <2> DEFINE to == IF c = Worker THEN "idle" ELSE "reply"
  <2>1. /\ from \in Places /\ to \in Places
        /\ StageAt[to] = IF c = Worker THEN "idle" ELSE "replied"
    BY DEF Places, StageAt
  <2>2. Stage[c] = "served"
    BY <1>0, <1>6, StagePlaces DEF Moves
  <2>3. QED
    BY <1>s, <1>2, <1>6, <2>1, <2>2 DEF Service!Reply
<1>7. ASSUME NEW p \in Plans, Judges(p)
      PROVE  \E verdict \in {"refused", "accepted"} : Service!Judge(p, verdict)
  <2>1. Stage' = [Stage EXCEPT ![p] = "answered"]
    <3>1. "answered" \in Places /\ StageAt["answered"] = "answered"
      BY DEF Places, StageAt
    <3>2. pc' = [pc EXCEPT ![p] = "answered"]
      BY <1>7 DEF Judges
    <3>3. QED
      BY <1>0, <1>e, <3>1, <3>2, StageMoves
  <2>2. \A o : outcome' = [outcome EXCEPT ![p] = o] => Answers' = [Answers EXCEPT ![p] = AnswerFor(o)]
    BY <1>0, AnswersMove
  <2>3. /\ AnswerFor("bad request") = "refused" /\ AnswerFor("bad plan") = "refused"
        /\ AnswerFor("accepted") = "accepted"
    BY DEF AnswerFor
  <2>4. CASE pc[p] = "idle" /\ outcome' = [outcome EXCEPT ![p] = "bad request"]
    <3>1. Service!Judge(p, "refused")
      BY <1>0, <1>e, <1>s, <2>1, <2>2, <2>3, <2>4, StagePlaces DEF Service!Judge
    <3>2. QED
      BY <3>1
  <2>5. ASSUME NEW o \in {"accepted", "bad plan"}, outcome' = [outcome EXCEPT ![p] = o],
               pc[p] = "reply" \/ (pc[p] = "idle" /\ cfg.dryRun)
        PROVE  Service!Judge(p, AnswerFor(o))
    BY <1>0, <1>e, <1>s, <2>1, <2>2, <2>5, StagePlaces DEF Service!Judge
  <2>6. QED
    BY <1>7, <2>3, <2>4, <2>5 DEF Judges
<1>8. ASSUME NEW S \in SUBSET Clients, Fail(S),
             \A c \in S : Stage[c] \in {"waiting", "served"},
             \/ \E c \in S : S = {c}
             \/ cfg.backend = "socket" /\ \A c \in Clients : Stage[c] = "served" => c \in S
      PROVE  Service!Fail(S)
  <2>1. S \subseteq Service!Pending
    BY <1>8, <1>e DEF Service!Pending
  <2>2. (\E c \in S : S = {c}) \/ (cfg.backend = "socket" /\ Service!Served \subseteq S)
    BY <1>8, <1>e DEF Service!Served
  <2>3. QED
    BY <1>0, <1>s, <1>e, <1>8, <2>1, <2>2, StageFails DEF Service!Fail
<1>9. ASSUME NEW p \in Plans, pc[p] = "scene", pc' = [pc EXCEPT ![p] = "answered"],
             outcome' = [outcome EXCEPT ![p] = "no scene"]
      PROVE  Service!Fail({p})
  <2>1. Stage' = [Stage EXCEPT ![p] = "answered"]
    <3>1. "answered" \in Places /\ StageAt["answered"] = "answered"
      BY DEF Places, StageAt
    <3>2. QED
      BY <1>0, <1>9, <1>e, <3>1, StageMoves
  <2>2. Answers' = [Answers EXCEPT ![p] = "failed"]
    BY <1>0, <1>9, AnswersMove DEF AnswerFor
  <2>3. Stage[p] = "waiting"
    BY <1>0, <1>9, <1>e, StagePlaces
  <2>4. /\ Stage' = [c \in Clients |-> IF c \in {p} THEN Service!Left(c) ELSE Stage[c]]
        /\ Answers' = [q \in Plans |-> IF q \in {p} THEN "failed" ELSE Answers[q]]
    BY <2>1, <2>2, <1>e DEF Service!Left, Stage, Answers
  <2>5. {p} \subseteq Service!Pending
    BY <1>e, <2>3 DEF Service!Pending
  <2>6. QED
    BY <1>s, <1>e, <2>4, <2>5 DEF Service!Fail
<1>10. ASSUME NEW c \in Clients, FailsAlone(c)
       PROVE  Service!Fail({c})
  <2>1. Stage[c] \in {"waiting", "served"}
    BY <1>0, <1>10, StagePlaces DEF FailsAlone
  <2>2. QED
    BY <1>8, <1>10, <2>1 DEF FailsAlone
<1>11. CASE /\ cfg.backend = "socket"
            /\ \/ Fail(Waiting) /\ Serving = {}
               \/ Fail(Waiting \cup Serving)
  <2>1. PICK S \in SUBSET Clients :
          /\ Fail(S) /\ S \subseteq Waiting \cup Serving /\ Serving \subseteq S
    BY <1>11 DEF Waiting, Serving
  <2>2. \A c \in S : Stage[c] \in {"waiting", "served"}
    BY <1>0, <2>1, StagePlaces DEF Waiting, Serving
  <2>3. \A c \in Clients : Stage[c] = "served" => c \in S
    BY <1>0, <1>11, <2>1, StagePlaces DEF Serving, WaysFit
  <2>4. Service!Fail(S)
    BY <1>8, <1>11, <2>1, <2>2, <2>3
  <2>5. QED
    BY <1>e, <2>4 DEF Service!Next
<1>12. ASSUME NEW c \in Clients, pc[c] \in {"ensure", "loaded"}
       PROVE  \A d \in Clients : pc[d] \notin {"generate", "chat"}
  <2>1. cfg.backend = "local" /\ lock.owner = c
    BY <1>0, <1>12 DEF PlacesFit, LockMatchesHolder, Inside, Nested
  <2>2. \A d \in Clients : pc[d] = "generate" => lock.owner = d
    BY <1>0, <2>1 DEF LockMatchesHolder, Inside
  <2>3. QED
    BY <1>12, <2>1, <2>2 DEF WaysFit
<1>13. Serving = {} /\ cfg.backend = "socket" =>
         \A d \in Clients : pc[d] \notin {"generate", "chat"}
  BY DEF Serving, WaysFit
<1>14. cfg \in Configs
  BY <1>0 DEF TypeOK
<1>15. QED
  <2>1. Moves(Worker, "idle", FirstStep) => Service!Next
    BY <1>3, <1>14, <1>e, FirstStepType DEF Service!Next
  <2>2. ASSUME NEW p \in Plans
        PROVE  /\ Moves(p, "idle", "scene") /\ ~cfg.dryRun => Service!Next
               /\ Moves(p, "scene", FirstStep) => UNCHANGED <<Stage, Answers>>
               /\ Judges(p) => Service!Next
               /\ /\ pc[p] = "scene" /\ pc' = [pc EXCEPT ![p] = "answered"]
                  /\ outcome' = [outcome EXCEPT ![p] = "no scene"]
                  => Service!Next
    <3>1. Moves(p, "idle", "scene") /\ ~cfg.dryRun => Service!Next
      BY <1>3, <1>e DEF Service!Next
    <3>2. Moves(p, "scene", FirstStep) => UNCHANGED <<Stage, Answers>>
      BY <1>4, <1>14, <1>e, FirstStepType
    <3>3. Judges(p) => Service!Next
      BY <1>7 DEF Service!Next
    <3>4. /\ pc[p] = "scene" /\ pc' = [pc EXCEPT ![p] = "answered"]
          /\ outcome' = [outcome EXCEPT ![p] = "no scene"]
          => Service!Next
      BY <1>9, <1>e DEF Service!Next
    <3>5. QED
      BY <3>1, <3>2, <3>3, <3>4
  <2>3. ASSUME NEW c \in Clients
        PROVE  /\ \/ Moves(c, "lock", "ensure") \/ Moves(c, "ensure", "check")
                  \/ Moves(c, "check", "load") \/ Moves(c, "check", "loaded")
                  \/ Moves(c, "load", "loaded")
                  \/ Moves(c, "connect", "queued")
                  => UNCHANGED <<Stage, Answers>>
               /\ \/ Moves(c, "ensure", "generate") \/ Moves(c, "loaded", "generate")
                  \/ Moves(c, "models", "chat")
                  \/ Moves(c, "queued", "generate") /\ Serving = {} /\ cfg.backend = "socket"
                  => Service!Next
               /\ \A from \in {"generate", "chat"} :
                    Moves(c, from, IF c = Worker THEN "idle" ELSE "reply") => Service!Next
               /\ FailsAlone(c) => Service!Next
    <3>1. \/ Moves(c, "lock", "ensure") \/ Moves(c, "ensure", "check")
          \/ Moves(c, "check", "load") \/ Moves(c, "check", "loaded")
          \/ Moves(c, "load", "loaded")
          \/ Moves(c, "connect", "queued")
          => UNCHANGED <<Stage, Answers>>
      BY <1>4
    <3>2. \/ Moves(c, "ensure", "generate") \/ Moves(c, "loaded", "generate")
          \/ Moves(c, "models", "chat")
          \/ Moves(c, "queued", "generate") /\ Serving = {} /\ cfg.backend = "socket"
          => Service!Serve(c)
      <4>1. Moves(c, "ensure", "generate") => Service!Serve(c)
        BY <1>5, <1>12 DEF Moves
      <4>2. Moves(c, "loaded", "generate") => Service!Serve(c)
        BY <1>5, <1>12 DEF Moves
      <4>3. Moves(c, "models", "chat") => Service!Serve(c)
        BY <1>5 DEF Moves, WaysFit
      <4>4. Moves(c, "queued", "generate") /\ Serving = {} /\ cfg.backend = "socket"
            => Service!Serve(c)
        BY <1>5, <1>13
      <4>5. QED
        BY <4>1, <4>2, <4>3, <4>4
    <3>3. \A from \in {"generate", "chat"} :
            Moves(c, from, IF c = Worker THEN "idle" ELSE "reply") => Service!Reply(c)
      BY <1>6
    <3>4. FailsAlone(c) => Service!Fail({c}) /\ {c} \in SUBSET Service!Everyone
      BY <1>10, <1>e
    <3>5. QED
      BY <1>e, <3>1, <3>2, <3>3, <3>4 DEF Service!Next
  <2>4. QED
    BY <1>0, <1>1, <1>11, <2>1, <2>2, <2>3, ServiceKinds

\* The node with its model, the clients of model_server and the clients of an HTTP
\* server all implement the model service (node.py:504-556, 569-591;
\* model_server.py:66-110).
THEOREM ModelAccessIsService == Spec => ImplementsService
<1>1. Init => WaysFit
  BY DEF Init, WaysFit
<1>2. AccessInv => TypeOK
  BY DEF AccessInv
<1>3. AccessInv /\ QueueInv /\ WaysFit /\ [Next]_vars => WaysFit'
  BY StepWays
<1>4. QED
  BY <1>1, <1>2, <1>3, InitAccess, StepAccess, InitQueue, StepQueue, ServiceRefinesInit,
     ServiceRefinesStep, PTL
  DEF Spec, ImplementsService, Service!Spec


-----------------------------------------------------------------------------
(* Waiting.                                                                *)

\* A client that waits for model_server has a connection that it will see.
WaitInv ==
  \A c \in Clients :
    pc[c] = "queued" => server # "down" /\ \E i \in 1..Len(queue) : queue[i] = c

\* Nobody is queued when the server is gone.
LEMMA GoneLeavesNobody ==
  ASSUME TypeOK, ServerStops \/ ServerCrashes
  PROVE  \A c \in Clients : pc'[c] # "queued"
<1>1. PICK S \in SUBSET Clients : ServerGone(S) /\ Waiting \subseteq S
  BY DEF ServerStops, ServerCrashes, Waiting, Serving
<1>2. Fail(S)
  BY <1>1, GoneEffect
<1>3. \A c \in S : pc'[c] # "queued"
  BY <1>2, FailEffect
<1>4. \A c \in Clients \ S : pc'[c] = pc[c] /\ pc[c] # "queued"
  BY <1>1, <1>2, FailEffect DEF Waiting
<1>5. QED
  BY <1>3, <1>4

\* What a step may do to the queue and to the server, and who is queued then.
LEMMA ServerKinds ==
  ASSUME TypeOK, [Next]_vars
  PROVE  \/ ServerStops \/ ServerCrashes \/ Accept
         \/ \E c \in Clients : Connect(c)
         \/ /\ queue' = queue
            /\ server' = server \/ server' # "down"
            /\ \A c \in Clients : pc'[c] = "queued" => pc[c] = "queued"
<1> DEFINE Still == /\ queue' = queue
                    /\ server' = server \/ server' # "down"
                    /\ \A c \in Clients : pc'[c] = "queued" => pc[c] = "queued"
<1> USE DEF serverVars
<1>1. CASE Construct \/ UNCHANGED vars \/ ServerStarts \/ ServerSignal \/ Failed
  BY <1>1 DEF Construct, vars, ServerStarts, ServerSignal, Failed
<1>2. ASSUME NEW camera \in {"front", "wrist"}, OnImage(camera)
      PROVE  Still
  BY <1>2 DEF OnImage
<1>3. ASSUME NEW text \in Texts, OnSceneFacts(text)
      PROVE  Still
  BY <1>3 DEF OnSceneFacts
<1>4. ASSUME NEW c \in Clients, NEW place \in Places \ {"queued"},
             pc' = [pc EXCEPT ![c] = place], UNCHANGED serverVars
      PROVE  Still
  BY <1>4 DEF TypeOK
<1>5. CASE Evaluate
  <2>1. FirstStep \in Places \ {"queued"} /\ Worker \in Clients
    BY FirstStepType DEF TypeOK, Places, Clients
  <2>2. QED
    BY <1>4, <1>5, <2>1 DEF Evaluate
<1>6. ASSUME NEW p \in Plans, StartPlan(p) \/ PlanStep(p)
      PROVE  Still
  <2>1. PICK place \in {"scene", "answered", FirstStep} : pc' = [pc EXCEPT ![p] = place]
    BY <1>6 DEF StartPlan, PlanStep, FindScene, GiveUpOnScene, Answer
  <2>2. UNCHANGED serverVars
    BY <1>6 DEF StartPlan, PlanStep, FindScene, GiveUpOnScene, Answer
  <2>3. place \in Places \ {"queued"} /\ p \in Clients
    BY FirstStepType DEF TypeOK, Places, Clients
  <2>4. QED
    BY <1>4, <2>1, <2>2, <2>3
<1>7. ASSUME NEW c \in Clients,
             \/ Lock(c) \/ LockAgain(c) \/ CheckAgain(c) \/ LoadReturns(c)
             \/ RetryAfterOom(c) \/ AskModels(c)
      PROVE  Still
  BY <1>7 DEF Lock, LockAgain, CheckAgain, LoadReturns, RetryAfterOom, AskModels, TypeOK
<1>8. ASSUME NEW c \in Clients, UseLoaded(c) \/ LeaveEnsure(c)
      PROVE  Still
  <2>1. BeginGeneration(c) /\ UNCHANGED serverVars
    BY <1>8 DEF UseLoaded, LeaveEnsure
  <2>2. QED
    BY <2>1, BeginEffect
<1>9. ASSUME NEW c \in Clients,
             \/ RefuseToLoad(c) \/ LoadFails(c) \/ GenerateFails(c)
             \/ ConnectFails(c) \/ HttpFails(c)
      PROVE  Still
  <2>1. Fail({c}) /\ UNCHANGED serverVars
    BY <1>9 DEF RefuseToLoad, LoadFails, GenerateFails, ConnectFails, HttpFails
  <2>2. QED
    BY <2>1, FailEffect
<1>10. ASSUME NEW c \in Clients, GenerateReturns(c) \/ ChatReturns(c)
       PROVE  Still
  <2>1. Succeed(c) /\ UNCHANGED serverVars
    BY <1>10 DEF GenerateReturns, ChatReturns
  <2>2. QED
    BY <2>1, SucceedEffect
<1>11. QED
  BY <1>1, <1>2, <1>3, <1>5, <1>6, <1>7, <1>8, <1>9, <1>10
  DEF Next, ClientStep, ServerStep

LEMMA StepWait == TypeOK /\ QueueInv /\ WaitInv /\ [Next]_vars => WaitInv'
<1> SUFFICES ASSUME TypeOK, QueueInv, WaitInv, [Next]_vars PROVE WaitInv'
  OBVIOUS
<1>1. CASE ServerStops \/ ServerCrashes
  BY <1>1, GoneLeavesNobody DEF WaitInv
<1>2. CASE /\ queue' = queue
           /\ server' = server \/ server' # "down"
           /\ \A c \in Clients : pc'[c] = "queued" => pc[c] = "queued"
  BY <1>2 DEF WaitInv
<1>3. ASSUME NEW c \in Clients, Connect(c)
      PROVE  WaitInv'
  <2>1. /\ queue' = Append(queue, c) /\ pc' = [pc EXCEPT ![c] = "queued"]
        /\ server # "down" /\ server' = server
    BY <1>3 DEF Connect
  <2>2. /\ Len(queue') = Len(queue) + 1 /\ queue'[Len(queue) + 1] = c
        /\ \A i \in 1..Len(queue) : queue'[i] = queue[i]
        /\ Len(queue) \in Nat
    BY <2>1 DEF TypeOK
  <2>3. \E i \in 1..Len(queue') : queue'[i] = c
    <3>1. Len(queue) + 1 \in 1..Len(queue')
      BY <2>2
    <3>2. QED
      BY <2>2, <3>1
  <2>4. ASSUME NEW d \in Clients \ {c}, pc'[d] = "queued"
        PROVE  \E i \in 1..Len(queue') : queue'[i] = d
    <3>1. PICK i \in 1..Len(queue) : queue[i] = d
      BY <2>1, <2>4 DEF WaitInv, TypeOK
    <3>2. i \in 1..Len(queue') /\ queue'[i] = d
      BY <2>2, <3>1
    <3>3. QED
      BY <3>2
  <2>5. QED
    BY <2>1, <2>3, <2>4 DEF WaitInv
<1>4. CASE Accept
  <2>1. /\ queue # <<>> /\ queue' = Tail(queue) /\ BeginGeneration(Head(queue))
        /\ server = "listening" /\ server' = server
    BY <1>4 DEF Accept
  <2>2. Head(queue) \in Clients /\ Head(queue) = queue[1]
    BY <2>1 DEF TypeOK
  <2>3. /\ Len(queue') = Len(queue) - 1 /\ Len(queue) \in Nat
        /\ \A i \in 1..Len(queue') : queue'[i] = queue[i + 1]
    BY <2>1 DEF TypeOK
  <2>4. ASSUME NEW d \in Clients, pc'[d] = "queued"
        PROVE  \E i \in 1..Len(queue') : queue'[i] = d
    <3>1. d # Head(queue) /\ pc[d] = "queued"
      BY <2>1, <2>2, <2>4, BeginEffect
    <3>2. PICK i \in 1..Len(queue) : queue[i] = d
      BY <3>1 DEF WaitInv
    <3>3. i - 1 \in 1..Len(queue') /\ queue'[i - 1] = d
      BY <2>2, <2>3, <3>1, <3>2
    <3>4. QED
      BY <3>3
  <2>5. QED
    BY <2>1, <2>4 DEF WaitInv
<1>5. QED
  BY <1>1, <1>2, <1>3, <1>4, ServerKinds

\* No client waits for a lock that nobody will release, or for a server that is
\* gone (node.py:326, 512, 544; model_client.py:33-47; model_server.py:146-152).
THEOREM NoWaitIsLostHolds == Spec => []NoWaitIsLost
<1>1. Init => WaitInv
  BY DEF Init, WaitInv
<1>2. AccessInv /\ WaitInv => NoWaitIsLost
  <2> SUFFICES ASSUME AccessInv, WaitInv, NEW c \in Clients
               PROVE  /\ pc[c] = "lock" =>
                           CanLock(c) \/ \E d \in Clients : CanLock(d) /\ pc[d] \in Inside
                      /\ pc[c] = "ensure" => CanLock(c)
    BY DEF WaitInv, NoWaitIsLost
  <2>1. LockMatchesHolder /\ PlacesFit /\ lock.owner \in Clients \cup {NoOne}
    BY DEF AccessInv, TypeOK
  <2>2. QED
    BY <2>1 DEF LockMatchesHolder, PlacesFit, CanLock, Inside, Nested
<1>3. AccessInv => TypeOK
  BY DEF AccessInv
<1>4. QED
  BY <1>1, <1>2, <1>3, InitAccess, StepAccess, InitQueue, StepQueue, StepWait, PTL DEF Spec

=============================================================================
