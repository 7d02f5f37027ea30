SPECIFICATION LiveSpec
CONSTANTS
  Callers = {a}
  Ops <- Everything
  Tags = {x}
  NoTag = NoTag
  ScopeChoices <- SomeScopes
  Course <- Small
  Growing = {"members", "sets", "groups", "lineitems"}
  MaxEntries = 6
  PageSize = 1
  Retries = 1
  Straggling = TRUE
  Misreads = FALSE
  MaxRead = 1
INVARIANTS OneLineItemPerCaller ReadIsComplete GroupsUnderTheirSets GradeLandsRight CreatedToBeScored TypeOK
PROPERTY CallsEnd
