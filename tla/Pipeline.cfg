\* Two targets the relay may name again and again, three attempts, streaming or not, with both
\* goroutines scheduled fairly.  A call ends when Serve returns; a call that is stuck before that
\* is a violation of ServeReturns, not a deadlock.
CONSTANTS
  t1 = t1
  t2 = t2
  Targets <- TwoTargets
  MaxAttempts = 3
SPECIFICATION FairSpec
INVARIANTS
  TypeOK
  UnansweredEndsTheCall
  ReportsFollowTrail
  RecordClosesTheCall
  EveryCallIsAnswered
  FinalOutcomeIsLast
PROPERTIES
  AnsweredOnce
  ServeReturns
CHECK_DEADLOCK FALSE
