----------------------------- MODULE MCTmpfsFile -----------------------------
(* Chunks of two bytes, so that a write or read of three crosses a border *)
(* wherever it starts, and memory for three chunks.                        *)
EXTENDS TmpfsFile

MCByte == {1, 2}
MCChunkSize == 2
MCMemory == 3
MCMaxCount == 3
=============================================================================
