----------------------------- MODULE MCUsbDevice -----------------------------
(* Instances of UsbDevice for TLC.                                         *)
EXTENDS UsbDevice
=============================================================================
