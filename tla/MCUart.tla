------------------------------- MODULE MCUart --------------------------------
(* Constants of the runs of Uart.                                          *)
EXTENDS Uart

MCSizes == 1..2
=============================================================================
