\* Threads of one process, each binding, each state of the library.
SPECIFICATION FairSpec
CONSTANTS
  Threads = {t1, t2}
  None = None
  Methods <- MCMethods
  Requiring <- MCRequiring
  Throwing <- MCThrowing
  Languages = {"java", "cpp", "csharp"}
  Libraries <- MCLibraries
  MaxCalls = 2
CHECK_DEADLOCK FALSE
INVARIANTS TypeOK RuntimeExclusive CrashOnlyOnUncheckedSymbol AnswersOnlyFromItsAbi
PROPERTIES ImplementsSerialKernel EveryCallEnds
