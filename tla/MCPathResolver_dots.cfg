\* A "." that ends a path is handed to the delegate.
CONSTANTS
  Threads = {t1}
  Names = {"a"}
  MaxSegments = 2
  MaxDepth = 2
SPECIFICATION Spec
INVARIANT DotsTrimmed
