---------------------------- MODULE MCPacketBytes ----------------------------
(***************************************************************************)
(* The instance of PacketBytes that TLC checks: packets that fit the array *)
(* of a new vector and packets that do not.                                *)
(***************************************************************************)
EXTENDS PacketBytes

MCPackets == {<<1>>, <<0, 1>>, <<1, 0, 1, 0, 1>>}

MCEmpty == <<>>
=============================================================================
