SPECIFICATION Spec
CONSTANTS
  MaxSaid <- MCMaxSaid
PROPERTIES
  ChatsClose
CHECK_DEADLOCK FALSE
