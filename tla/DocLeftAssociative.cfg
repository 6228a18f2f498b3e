CONSTANTS
  Parsers <- MCParsers
  EOF = "eof"
  Skips = {"_"}
  MaxInput = 5
  Stride = 2
  Width = 2
SPECIFICATION Spec
INVARIANT LeftAssociative
