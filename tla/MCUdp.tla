-------------------------------- MODULE MCUdp -------------------------------
(* Udp with addresses of four bits, the first two of which are the net: a   *)
(* server on the net and one behind the router.                             *)
EXTENDS Udp

Me == {1, 3}
Mask == {1, 2}
HostA == {1, 4}
Router == {1, 3, 4}
Far == {4}   \* a remote address

Other == {1}   \* one more host of the net than there are slots

ThreeHosts == {HostA, Router, Other}
AnyDest == {HostA, Far}
=============================================================================
