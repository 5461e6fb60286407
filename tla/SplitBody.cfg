CONSTANTS
  MaxHeader = 6
  MaxBody = 3
  Buf = 3
  Headers = {3, 5, 6, 7, 8, 10}
  Lengths = {0, 1, 3, 4}
  Sents = {0, 1, 3, 4, 5}
  Terminator = 2
INIT Init
NEXT Next
INVARIANT BodyIsSent
