--------------------------- MODULE MCSerialScanner ---------------------------
(* Small instance of SerialScanner: a device that comes and goes twice,    *)
(* and a port that is none of a flight controller.                         *)
EXTENDS SerialScanner

MCPorts == {<< "usb", 1 >>, << "usb", 2 >>, << "modem", 1 >>}
==============================================================================
