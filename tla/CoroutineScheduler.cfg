SPECIFICATION GuidSpec
CONSTANTS
  SeqSize = 2
  LastSecond = 2
  MaxLive = 3
  CoId <- GUID
  Main = Main
  Null = Null
INVARIANTS
  TypeOK
  BooksMatchCpu
  ContextsResumable
  GuidsUnique
PROPERTIES
  DeadNeverRuns
  ImplementsCoroutines
