----------------------------- MODULE MCAddrSpace -----------------------------
(* Six pages, so that a free area can lie between two allocated ones with  *)
(* free ones around them, and frames enough for several rounds.            *)
EXTENDS AddrSpace

MCStart == 3
MCHeapPages == 6
MCFrames == 10
MCMaxPages == 4
=============================================================================
