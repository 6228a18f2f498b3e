CONSTANTS
  Parsers <- MCParsers
  EOF = "eof"
  Skips = {"_"}
  MaxInput = 5
  Stride = 2
  Width = 2
SPECIFICATION Spec
INVARIANTS TypeOK CallersKeepTheirDiagnostics StacksMatchCalls ContractsAreKept FailureIsDiagnosed AcceptedIsDerivable DerivableIsAccepted ExpressionsAreTrees LeftOperandsBindTighter RightOperandsBindTighter
PROPERTIES BacktrackingLeavesNoTrace
