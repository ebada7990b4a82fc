\* Two streams, a directory of up to three entries that changes.
CONSTANTS
  Streams = {s1, s2}
  Names = {x, y, z}
  Null = Null
SPECIFICATION FairSpec
INVARIANTS TypeOK NoDelegateLost WaitingOfTheCall
PROPERTIES ListsOneMoment CallEnds
