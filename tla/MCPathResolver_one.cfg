\* One application thread.  A path of three segments on a cwd_ of two reaches
\* every turn of the loop: two ".." in a row, at the front, and past the root.
CONSTANTS
  Threads = {t1}
  Names = {"a", "b"}
  MaxSegments = 3
  MaxDepth = 2
SPECIFICATION Spec
INVARIANTS TypeOK ResolvesAsWalk CwdIsDirectory
