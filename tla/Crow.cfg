SPECIFICATION Spec
CHECK_DEADLOCK FALSE
CONSTANTS
  Frame <- Frames
  MaxPayload = 2
  MaxFrames = 2
  MaxCalls = 2
  MaxInputs = 3
  Client = {"a", "b", "c"}
  Kind <- Kinds
  Sends <- Sending
  MaxRequests <- Requests
  Together = {{"a", "b"}, {"c"}}
  Req = {1, 2}
  Browser <- OneBrowser
  Values = {"x"}
  Expires = 1
  EvictLimit = 1
  MaxTime = 2
  MaxIds = 2
INVARIANTS TypeOK
  FreedIsQuiet MessagesAsSent
  AnsweredInOrder DeadlineOrRobbed
  RequestsAsSent
  RoutedByRules CatchallOfPrefix MiddlewareNested
  LastSetKept ExpiryKept
  LoadsJson
  PageIsMeaning
PROPERTY EndsFreed
