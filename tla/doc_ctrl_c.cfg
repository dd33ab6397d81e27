SPECIFICATION Spec
SYMMETRY Symmetry
CONSTANTS
  Launches = {l1, l2}
  Servers = {s1, s2, s3}
  Configs <- SmallConfigs
PROPERTY DocCtrlCSparesServer
