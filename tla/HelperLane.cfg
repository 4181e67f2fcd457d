SPECIFICATION FairSpec
CONSTANTS
  Contexts = {c1, c2}
  NoContext = NoContext
  MaxRunId = 4
INVARIANTS
  TypeOK
  AnsweredByItsOwnProcess
PROPERTIES
  EveryRunSettles
  ImplementsContract
