\* Two requests of one chat, in both modes, with two incidents: an abort, a crashed
\* worker, a counter that expires, events that come late.
\* What keeps the streams of two chats apart is proved (StreamsApart) and not exercised.
SPECIFICATION LiveSpec
CONSTANTS
  r1 = r1
  r2 = r2
  r3 = r3
  c1 = c1
  c2 = c2
  Requests = {r1, r2}
  Chats = {c1, c2}
  ChatOf <- MCChatOf
  Workers = {w1}
  Server = Server
  None = None
  Limit = 1
  MaxEvents = 1
  MaxIncidents = 2
INVARIANTS Stoppable OwnStream QuotaHolds
PROPERTY Answered
CHECK_DEADLOCK FALSE
