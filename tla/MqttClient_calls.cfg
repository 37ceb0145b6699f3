\* Both types of message, a stale and a current DNS request; a timeout, a keepalive
\* and a retry race with them.
\* So deadlock is not checked: a deleted client really stops.
SPECIFICATION FairSpec
CONSTANTS
  Types = {"publish", "other"}
  MaxQueue = 2
  MaxUnsent = 2
  DnsTable = 2
  MQTT_SEND_TIMOUT = 2
  MQTT_RECONNECT_TIMEOUT = 1
  HalfKeepalive = 2
INVARIANTS LinkWhenSending
PROPERTIES NoDialAfterDisconnect PublishedAfterPublish Reconnects QueueDrains
CHECK_DEADLOCK FALSE
