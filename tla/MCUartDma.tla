----------------------------- MODULE MCUartDma -----------------------------
(* Instance of UartDma for TLC.                                            *)
EXTENDS UartDma
=============================================================================
