--------------------------- MODULE MCDeviceMonitor ---------------------------
(* The values of the constants of DeviceMonitor that a .cfg cannot write.  *)
(* p1 is a place such as 1-1 of a bus, and p2 one such as 1-10.            *)
EXTENDS DeviceMonitor, TLC

CONSTANTS p1, p2, h1, h2, s1, s2

MCSerialOf == (h1 :> s1) @@ (h2 :> s2)
MCPrefix == {<<p1, p2>>}
=============================================================================
