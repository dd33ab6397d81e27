SPECIFICATION Spec
CONSTANTS
  MaxReq = 1
  RawRequests <- PlainRaw
  NodePeriod = "fits"
  CameraView = "front"
  Cameras = {"front"}
PROPERTY DocMappedWaitHumanAsksHuman
CHECK_DEADLOCK FALSE
