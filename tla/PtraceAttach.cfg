SPECIFICATION FairSpec
CONSTANTS
  Threads = {main, t1, t2}
  Main = main
  HasInit = TRUE
  OtherErrors = TRUE
INVARIANTS
  NoThreadEscapes
PROPERTY
  AttachEnds
CHECK_DEADLOCK FALSE
