\* The plugin, with one file at a time besides the standard descriptors.
CONSTANTS
  App = App
  Main = Main
  Delegates = {d1, d2, d3, d4}
  Null = Null
  Paths <- SomePaths
  MaxTable = 4
  MaxTyped = 2
SPECIFICATION FairSpec
INVARIANTS TypeOK NeverConflict StandardDescriptors
PROPERTY JoinReturns
CHECK_DEADLOCK FALSE
