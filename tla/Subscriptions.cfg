SPECIFICATION Spec
CONSTANTS
  MAX_SUBS_TOPIC = 2
  Names <- MCNames
  QoSs <- MCQoSs
INVARIANTS
  TypeOK
  NoTopicTwice
  GrantedIsCovered
  RefusedOnlyWhenFull
  SubscribeKeepsTopics
  AddIsTheFold
  DeleteIsExact
PROPERTIES
  ImplementsFilters
