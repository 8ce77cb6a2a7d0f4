--------------------------- MODULE MCRelayDelivery ---------------------------
(* RelayStore with the delivery life cycle in focus: sessions of the same     *)
(* runtime in two projects, a message from either to either and its reply,   *)
(* leases and expiries short enough that redelivery, late ACKs and expiry    *)
(* all happen.  Moves between projects, and names, are in MCRelayNames.      *)
EXTENDS RelayStore

=============================================================================
