------------------------------ MODULE MCRingBuf ------------------------------
(* RingBuf with three events and a capacity of three.                      *)
EXTENDS RingBuf
=============================================================================
