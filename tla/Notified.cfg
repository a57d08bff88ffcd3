SPECIFICATION SseSpec
CONSTANTS
  Members = {m1, m2}
  Tabs = {b1, b2}
  MaxMessages = 1
PROPERTIES NotificationsArrive
CHECK_DEADLOCK FALSE
