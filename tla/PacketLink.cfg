SPECIFICATION FairSpec
CONSTANTS
  Flows = {1, 2}
  MAX_TIME = 8
  packet_weight = 1
  MTU = 4
  HEADER = 2
  output_mtu = 1
  StreamSize = 2
INVARIANTS
  FairShare
  DecoderInStep
  RoomToReceive
PROPERTIES
  SentIsCharged
  NoStarvation
