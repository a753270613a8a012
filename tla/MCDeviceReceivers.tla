-------------------------- MODULE MCDeviceReceivers -------------------------
(* Small instances of DeviceReceivers for TLC.                              *)
EXTENDS DeviceReceivers

MCUsed == Devices
=============================================================================
