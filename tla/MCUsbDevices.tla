--------------------------- MODULE MCUsbDevices ---------------------------
(* A mainboard, a headset of two interfaces and a dongle of one interface.  *)
EXTENDS UsbDevices

CONSTANTS b, h, w, i1, i2

MCCodename == [d \in Devices |-> IF d \in Headsets THEN "HMD" ELSE "WM"]
MCEndpoints == [d \in Devices |-> IF d \in Headsets THEN {1, 2} ELSE {1}]
===========================================================================
