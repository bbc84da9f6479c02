---------------------------- MODULE MCUsbIoBoard ----------------------------
(* Two registers, so that masks overlap, exclude and cover each other.     *)
EXTENDS UsbIoBoard, Naturals

MCRegs == 0..1
MCWord == {10, 20}
=============================================================================
