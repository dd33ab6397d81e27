SPECIFICATION Spec
CONSTANTS
  MaxReq = 1
  RawRequests <- EndlessRaw
  NodePeriod = "fits"
  CameraView = "front"
  Cameras = {"front"}
INVARIANT DocWorkerKeepsEvaluating
CHECK_DEADLOCK FALSE
