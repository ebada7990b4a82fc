\* Does opendir fail where there is no directory?
CONSTANTS
  Streams = {s1}
  Names = {x}
  Null = Null
SPECIFICATION Spec
INVARIANT OpensDirectories
