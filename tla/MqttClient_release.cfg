\* mqtt.c:867-869 against mqtt_tcpclient_discon_cb after an overtaken disconnect.
SPECIFICATION FairSpec
CONSTANTS
  Types = {"publish"}
  MaxQueue = 1
  MaxUnsent = 1
  DnsTable = 1
  MQTT_SEND_TIMOUT = 1
  MQTT_RECONNECT_TIMEOUT = 1
  HalfKeepalive = 1
PROPERTIES DisconnectReleases
CHECK_DEADLOCK FALSE
