------------------------------ MODULE MCRngBuf ------------------------------
(* A ring of three bytes (an array of four), bytes of two values.           *)
EXTENDS RngBuf
MCByte == {0, 1}
=============================================================================
