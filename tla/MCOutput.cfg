\* Two application threads and the main thread, writing to two ports.
CONSTANTS
  t1 = t1
  t2 = t2
  x = x
  nl = nl
  stdout = stdout
  stderr = stderr
  Threads = {t1, t2}
  Main = Main
  Nobody = Nobody
  NoMessage = NoMessage
  Ports = {stdout, stderr}
  Letters = {x}
  Newline = nl
  Messages <- SomeMessages
  MaxWrites <- FewWrites
SPECIFICATION FairSpec
INVARIANTS TypeOK SentBeforeReturn MessageAlive
PROPERTIES InLines LinesShown WriteReturns
