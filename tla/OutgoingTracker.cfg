CONSTANTS
  r1 = r1  r2 = r2  c1 = c1  c2 = c2
  RandomIds = {r1, r2}
  Ops = {o1, o2}
  Chats = {c1, c2}
  MsgIds = {1}
  ChatOf <- MCChatOf
  Manual = Manual
  Nobody = Nobody
  NoMsg = NoMsg
  MaxRetries = 1
  ReservedTtl = 0
  ObservedTtl = 0
  AmbiguousTtl = 1
  Retry = TRUE
  Overlap = FALSE
  MaxDisconnects = 1
SPECIFICATION FairSpec
INVARIANTS TypeOK IndexesAgree ExactClassification IdleSendingIsBound
PROPERTIES ActiveSendNeverExpired FirstRejectionMeansNeverSent AbandonedRecordsExpire ImplementsClassifier
CHECK_DEADLOCK FALSE
