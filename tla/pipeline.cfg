SPECIFICATION Spec
CONSTANTS
  Labels <- MCLabels
  Lower <- MCLower
  Settings <- MCSettings
  Frames <- MCFrames
  ExternalCamera = "front"
  MaxReading = 40
  MaxPoints = 9
  MinimumRadius = 1
INVARIANT TypeOK
INVARIANT PoseInsideObject
INVARIANT SupportedInstanceIsNearest
INVARIANT EmptyPoseIsExplained
