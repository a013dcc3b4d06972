SPECIFICATION Spec
CONSTANTS
  Memories <- MCMemories
  Bytes = {0, 1}
  Wild <- MCWild
  Gone <- MCGone
  Queries <- MCQueries
  Amounts = {0, 1, 9}
  Skipped = {7}
  MaxChanges = 1
  Programs <- MCPrograms
  Errors <- MCErrors
  Tails <- MCTails
  Classes <- MCClasses
  Params <- MCParams
  PoolSize = 20
INVARIANTS
  IInv
  ReportedWasThere
  NoneMissed
  ListsProgram
  NothingMadeUp
  ReadsBack
CHECK_DEADLOCK FALSE
