\* Two commands of clients on their way through servers of one and two threads.
SPECIFICATION FairSpec
CONSTANTS
  Requests = {r1, r2}
  r1 = r1
  r2 = r2
  Wishes <- MCWishes
  Pool <- MCPool
  w1 = w1
  w2 = w2
  Free = Free
  MaxStops = 1
INVARIANTS
  RelayTypeOK
  ThreadsAccounted
  WaitersHoldThreads
  OnceAsMeant
PROPERTIES
  OnlyAnswerReleases
  AnsweredUnlessFailed
\* Every request was answered, or its client waits for ever.
CHECK_DEADLOCK FALSE
