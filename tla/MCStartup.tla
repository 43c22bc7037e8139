------------------------------ MODULE MCStartup ------------------------------
(* A key of another's prefix, released: the longest sequence the decoder   *)
(* knows.  One packet of the mouse.                                        *)
EXTENDS Startup

MCStrokes == {<<"E0", "F0", "A">>}
MCPackets == <<<<"1a", "1b", "1c">>>>
=============================================================================
