SPECIFICATION UdpFairSpec
CONSTANTS
  MAX_ARP_ENTRY = 2
  Hosts <- ThreeHosts
  Dests <- AnyDest
  MyIp <- Me
  Netmask <- Mask
  Gateway <- Router
  ARP_TRIES = 1
  UDP_MAX_PORTS = 2
  SEND_TRIES = 2
  ROUNDS = 2
  MaxLeaks = 1
INVARIANTS TableRight LookupRight Reachable
PROPERTIES SentToOwner CallEnds
