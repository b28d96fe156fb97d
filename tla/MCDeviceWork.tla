---------------------------- MODULE MCDeviceWork ----------------------------
(* DeviceWork with the tiles and devices of MCDsm and the calls of TileCalls. *)
EXTENDS DeviceWork, MCDsm, TileCalls

=============================================================================
