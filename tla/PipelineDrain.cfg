CONSTANTS
  group = group  private = private
  Chats = {group, private}
  Messages = {1, 2, 3}
  ChatOf <- MCChatOf
  Groups = {group}
  Debounced = {1}
  Addressed = {1, 3}
  Fickle = {2}
  MaxDeliveries = 3
  MaxBuffer = 1
  MaxRecent = 2
  MaxHistory = 1
  MaxConcurrent = 1
  MaxPending = 2
  MaxRestarts = 0
SPECIFICATION Spec
INVARIANTS NothingLeftWhenStopped
CHECK_DEADLOCK FALSE
