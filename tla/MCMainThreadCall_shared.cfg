\* Two application threads share mutex_ and cond_; wake-ups may be spurious, so
\* completions of calls that have returned are still about.
CONSTANTS
  Threads = {t1, t2}
  Delegates = {d1}
  MaxCalls = 2
  MaxChain = 1
  Spurious = TRUE
  Main = Main
  Nobody = Nobody
  NoCall = NoCall
SPECIFICATION FairSpec
INVARIANT WakeupOwed
PROPERTY CallReturns
