SPECIFICATION Spec
CONSTANTS
  Tokens <- MCTokens
  Queries <- MCQueries
  Refused = Refused
  Unknown = Unknown
INVARIANTS TypeOK OpeningsMatch TranslatedOrRefused
CHECK_DEADLOCK FALSE
