\* An application thread and the main thread, three delegates at a time.
CONSTANTS
  Threads = {t1}
  Main = Main
  Delegates = {d1, d2, d3}
  Null = Null
  Paths <- SomePaths
  MaxTable = 2
SPECIFICATION Spec
SYMMETRY Symmetry
INVARIANTS TypeOK Accounted InUseAlive
PROPERTIES OpenReturnsOwn NeverReused
