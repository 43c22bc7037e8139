------------------------------ MODULE TmpfsFile ------------------------------
(***************************************************************************)
(* One file of kernel/src/fs/tmpfs.c: a linked list of chunks of ChunkSize *)
(* bytes and the length cap.  vmalloc has memory for a bounded number of   *)
(* chunks and is given none back.  The null-pointer tests of the arguments *)
(* are left out: vfs.h passes an inode and a buffer.                       *)
(***************************************************************************)
EXTENDS Integers, Sequences, FiniteSetsExt, Err

CONSTANTS Byte,      \* what callers write
          ChunkSize, \* MAX_FILE_DATA_PER_CHUNK, 4088
          Memory,    \* how many chunks tmpfs_new_data_chunk can make
          MaxCount   \* bound on the count of a write or read

ASSUME FileAssumption ==
  /\ ChunkSize \in Nat \ {0}
  /\ Memory \in Nat
  /\ MaxCount \in Nat
  /\ 0 \notin Byte

VARIABLES chunks, \* the list from inode->data on: the file_data of each
          cap,
          left,   \* how many more chunks vmalloc can give
          call    \* the last call: its arguments, the buffer's bytes, the result

fileVars == <<chunks, cap, left, call>>

Place == 0 .. ChunkSize - 1

\* tmpfs_new_data_chunk clears the memory.
NewChunk == [b \in Place |-> 0]

FileInit == /\ chunks = <<>>
        /\ cap = 0
        /\ left = Memory
        /\ call = [op |-> "none", offset |-> 0, count |-> 0, data |-> <<>>, ret |-> 0]

\* The chunk, from 1, that holds byte i of the file, and the place in it.
ChunkOf(i) == i \div ChunkSize + 1
PlaceOf(i) == i % ChunkSize
-----------------------------------------------------------------------------
(* tmpfs_write of a sequence data at offset.                               *)

\* The list once n chunks long, with data stored from offset on as far as it
\* reaches.
Stored(n, data, offset) ==
  [k \in 1 .. Max({n, Len(chunks)}) |->
     [b \in Place |->
        LET i == (k - 1) * ChunkSize + b
        IN  IF offset <= i /\ i < offset + Len(data) THEN data[i - offset + 1]
            ELSE IF k <= Len(chunks) THEN chunks[k][b] ELSE NewChunk[b]]]

\* The chunks a write needs: up to the one of its last byte.
Needed(data, offset) == ChunkOf(offset + Len(data) - 1)

\* Mutated form of NewCap: the length is where the write ends.
NewCapShrinks(end) == end

\* if (cap < start_offset + written_total) cap = start_offset + written_total
NewCap(end) == Max({cap, end})

WriteReturns(data, offset, ret) ==
  call' = [op |-> "write", offset |-> offset, count |-> Len(data), data |-> data, ret |-> ret]

WriteNothing(offset) ==
  /\ WriteReturns(<<>>, offset, 0)
  /\ UNCHANGED <<chunks, cap, left>>

WriteOutOfBounds(data, offset) ==
  /\ data # <<>> /\ offset > cap
  /\ WriteReturns(data, offset, OUT_OF_BOUNDS)
  /\ UNCHANGED <<chunks, cap, left>>

\* Mutated form of WriteOutOfMemory: the length grows with what was stored.
WriteOutOfMemoryGrows(data, offset) ==
  /\ data # <<>> /\ offset <= cap
  /\ Needed(data, offset) > Len(chunks) + left
  /\ chunks' = Stored(Memory, data, offset)
  /\ cap' = NewCap(ChunkSize * Memory)
  /\ left' = 0
  /\ WriteReturns(data, offset, OUT_OF_MEMORY)

\* A chunk cannot be made half way: those made before it stay, with their bytes.
WriteOutOfMemory(data, offset) ==
  /\ data # <<>> /\ offset <= cap
  /\ Needed(data, offset) > Len(chunks) + left
  /\ chunks' = Stored(Len(chunks) + left, data, offset)
  /\ left' = 0
  /\ WriteReturns(data, offset, OUT_OF_MEMORY)
  /\ UNCHANGED cap

WriteAll(data, offset) ==
  /\ data # <<>> /\ offset <= cap
  /\ Needed(data, offset) <= Len(chunks) + left
  /\ chunks' = Stored(Needed(data, offset), data, offset)
  /\ left' = left - (Len(chunks') - Len(chunks))
  /\ cap' = NewCap(offset + Len(data))
  /\ WriteReturns(data, offset, Len(data))

TmpfsWrite(data, offset) == \/ data = <<>> /\ WriteNothing(offset)
                       \/ WriteOutOfBounds(data, offset)
                       \/ WriteOutOfMemory(data, offset)
                       \/ WriteAll(data, offset)
-----------------------------------------------------------------------------
(* tmpfs_read of count bytes at offset.                                    *)

ReadReturns(count, offset, bytes, ret) ==
  /\ call' = [op |-> "read", offset |-> offset, count |-> count, data |-> bytes, ret |-> ret]
  /\ UNCHANGED <<chunks, cap, left>>

ReadError(count, offset) ==
  /\ count > 0
  /\ chunks = <<>> \/ offset >= cap
  /\ ReadReturns(count, offset, <<>>,
                 IF chunks = <<>> THEN FILE_NOT_FOUND ELSE OUT_OF_BOUNDS)

ReadNothing(count, offset) == count = 0 /\ ReadReturns(count, offset, <<>>, 0)

\* Mutated form of Clipped: the count is not cut to the length.
ClippedNot(count, offset) == Min({count, ChunkSize * Len(chunks) - offset})

Clipped(count, offset) == Min({count, cap - offset})

ReadSome(count, offset) ==
  /\ count > 0 /\ chunks # <<>> /\ offset < cap
  /\ LET n == Clipped(count, offset)
     IN  ReadReturns(count, offset,
                     [k \in 1 .. n |-> chunks[ChunkOf(offset + k - 1)][PlaceOf(offset + k - 1)]],
                     n)

TmpfsRead(count, offset) ==
  ReadError(count, offset) \/ ReadNothing(count, offset) \/ ReadSome(count, offset)

Data == UNION {[1 .. n -> Byte] : n \in 0 .. MaxCount}

FileNext ==
  \E offset \in 0 .. cap + 1 :
    \/ \E data \in Data : TmpfsWrite(data, offset)
    \/ \E count \in 0 .. MaxCount : TmpfsRead(count, offset)

FileSpec == FileInit /\ [][FileNext]_fileVars
-----------------------------------------------------------------------------
\* Byte i of the file is at place i % ChunkSize of chunk i \div ChunkSize.
Content == [i \in 1 .. cap |-> chunks[ChunkOf(i - 1)][PlaceOf(i - 1)]]

\* The chunks are a file: what was written is read back, across the borders of
\* chunks and whatever was written over it, a read never goes past the length nor
\* into memory no write has filled, and a write that fails for want of memory
\* leaves the length and everything before its offset.
File == INSTANCE FileBytes WITH
          content <- Content,
          call <- [call EXCEPT !.ret = IF @ < 0 THEN -1 ELSE @]
ImplementsFile == File!Spec
=============================================================================
