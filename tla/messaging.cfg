SPECIFICATION MCSpec
CONSTANTS
  s1 = s1 s2 = s2 Senders = {s1, s2} MaxSends = 2
  Items <- Commands NULL = NULL
  Hwms = {0, 1, 2, 3} MaxWmDelta = 1 MaxMsgs = 3
  p1 = p1 p2 = p2 InPipes = {p1, p2} MaxArrivals = 3
  req1 = req1 req2 = req2 Reqs = {req1, req2} None = None MaxConns = 2 MaxRequests = 2
INVARIANTS NoLostWakeUp NeverAborts DestroySafe NoCommandToDead NeverTorn RepliesMatch
PROPERTIES ImplementsMessageQueue ImplementsChannel EverythingArrives PipeDrains Received Answered
CHECK_DEADLOCK FALSE
