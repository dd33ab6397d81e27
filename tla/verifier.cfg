SPECIFICATION FairSpec
CONSTANTS
  MaxReq = 2
  RawRequests <- MixedRaw
  NodePeriod = "fits"
  CameraView = "both"
  Cameras = {"wrist"}
INVARIANT TypeOK
INVARIANT NoLostWakeup
INVARIANT SuccessIsJudged
INVARIANT AtMostOneVerdictAfterStop
INVARIANT AcknowledgedIsHonoured
 
PROPERTY ImplementsGate
PROPERTY VerdictAnswersItsRequest
PROPERTY MappedWaitHumanKeepsGate
 
PROPERTY OpenGateIsReevaluated
PROPERTY StopEndsWorker
CHECK_DEADLOCK FALSE
