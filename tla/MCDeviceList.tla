---------------------------- MODULE MCDeviceList ----------------------------
(* DeviceList with two devices, three languages and two strings. *)
EXTENDS DeviceList
=============================================================================
