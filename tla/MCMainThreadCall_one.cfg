\* One application thread, as naclfs_crt.cc creates, and two delegates.
CONSTANTS
  Threads = {t1}
  Delegates = {d1, d2}
  MaxCalls = 3
  MaxChain = 3
  Spurious = FALSE
  Main = Main
  Nobody = Nobody
  NoCall = NoCall
SPECIFICATION Spec
INVARIANTS TypeOK WokenWithResult ArgumentsAlive SignalFindsWaiter
