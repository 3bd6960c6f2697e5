\* SIGINT between its registration and the start of run.
SPECIFICATION FairSpec
CONSTANTS
  Words <- FewWords
  MaxArgs = 2
PROPERTY InterruptStopsServer
