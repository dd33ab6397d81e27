SPECIFICATION Spec
CONSTANTS
  MaxReq = 1
  RawRequests <- PlainRaw
  NodePeriod = "fits"
  CameraView = "front"
  Cameras = {"front"}
INVARIANT DocAckPrecedesVerdict
CHECK_DEADLOCK FALSE
