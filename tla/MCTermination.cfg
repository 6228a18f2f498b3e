CONSTANTS
  Parsers <- MCLoopingParsers
  EOF = "eof"
  Skips = {"_"}
  MaxInput = 5
  Stride = 2
  Width = 2
SPECIFICATION FairSpec
PROPERTIES Terminates
