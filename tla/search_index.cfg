SPECIFICATION Spec
CONSTANTS
  id = id
  key = key
  user = user
  Id = {id}
  Word = {key, user}
  Content <- MCContent
  Searcher = {s1}
  Signer = {g1}
  MaxBlocks = 2
INVARIANTS
  TypeOK
  IndexOneAhead
  AnswersAreComplete
PROPERTIES
  FailsOnNewestOnly
  SignedOnParentChain
CHECK_DEADLOCK FALSE
