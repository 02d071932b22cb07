CONSTANTS
  Ports <- MCPorts
  KSize = 80
  P = 3
SPECIFICATION Spec
INVARIANTS ResumesWhole EventTold EntersAsAsked
