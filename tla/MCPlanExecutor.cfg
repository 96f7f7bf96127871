SPECIFICATION Spec
CONSTANTS
  Attributes <- MCAttributes
  Keys <- MCKeys
  Null = Null
  Hash1 <- MCHash1
  Hash2 <- MCHash2
  MinSlots = 2
  H = 3
  PlansFor <- LoadedPlans
  Passes <- FilterAccepts
  Width <- EntityWidth
  Requests <- MCRequests
  Variants = {"initial", "columnar", "robinhood", "cuckoo", "hopscotch"}
  None = None
INVARIANTS TypeOK EntriesPlaced EveryRowOnce LookupsExact HalfEmpty
PROPERTIES Terminates AnswersQuery
