SPECIFICATION Spec
CONSTANTS
  MAX_SUBS_TOPIC = 2
  Names <- MCNames
  QoSs <- MCQoSs
INVARIANT
  GrantedIsStored
