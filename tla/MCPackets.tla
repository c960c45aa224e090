-------------------------------- MODULE MCPackets --------------------------------
(***************************************************************************)
(* A swap on the first chain between, sent on over two more channels.      *)
(***************************************************************************)
EXTENDS PacketForwarding
=============================================================================
