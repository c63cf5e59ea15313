SPECIFICATION FairSpec
CONSTANTS
  Byte = {0, 1}
  WordSize = 2
  TCP_MESSAGE_MAGIC <- MCMagic
  Value <- MCValue
  MAX_LENGTH = 2
  Payloads <- MCPayloads
  MaxMessages = 3
INVARIANTS
  TypeOK
  Faithful
  NothingLeftBehind
PROPERTIES
  ImplementsChannel
  Arrives
CHECK_DEADLOCK FALSE
