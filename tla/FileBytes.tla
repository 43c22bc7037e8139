------------------------------ MODULE FileBytes ------------------------------
(***************************************************************************)
(* What a file promises its users: it is a sequence of bytes.  A write at  *)
(* an offset no greater than its length replaces and extends, a read       *)
(* returns what is there, as much as was asked for or as there is.  A      *)
(* write that runs out of memory changes no length, but it may have        *)
(* replaced bytes from its offset on by its own, up to some point.         *)
(* TmpfsFile (kernel/src/fs/tmpfs.c) implements it.                        *)
(***************************************************************************)
EXTENDS Integers, Sequences, FiniteSetsExt

VARIABLES content, \* the file
          call     \* the last call: its op, its offset, the count it asked for,
                   \* the bytes it gave (a write) or got (a read), what it returned

vars == <<content, call>>

Error == -1

Init == /\ content = <<>>
        /\ call = [op |-> "none", offset |-> 0, count |-> 0, data |-> <<>>, ret |-> 0]

\* The file with data laid over it from offset on.
Over(data, offset) ==
  [i \in 1 .. Max({Len(content), offset + Len(data)}) |->
     IF offset < i /\ i <= offset + Len(data) THEN data[i - offset] ELSE content[i]]

Write ==
  /\ call'.op = "write"
  /\ \/ call'.data = <<>> /\ UNCHANGED content
     \/ call'.offset <= Len(content) /\ content' = Over(call'.data, call'.offset)
  /\ call'.ret = Len(call'.data)

\* The offset is past the end; or memory ran out after k bytes, and those that
\* lie within the old length are in the file.
WriteFails ==
  /\ call'.op = "write" /\ call'.data # <<>>
  /\ call'.ret = Error
  /\ IF call'.offset > Len(content) THEN content' = content
     ELSE \E k \in 0 .. Len(call'.data) - 1 :
            content' = SubSeq(Over(SubSeq(call'.data, 1, k), call'.offset), 1, Len(content))

Read ==
  /\ call'.op = "read"
  /\ call'.offset < Len(content) \/ call'.count = 0
  /\ call'.data = SubSeq(content, call'.offset + 1,
                         Min({call'.offset + call'.count, Len(content)}))
  /\ call'.ret = Len(call'.data)
  /\ UNCHANGED content

ReadFails ==
  /\ call'.op = "read"
  /\ call'.count > 0 /\ call'.offset >= Len(content)
  /\ call'.ret = Error
  /\ UNCHANGED content

Next == Write \/ WriteFails \/ Read \/ ReadFails

Spec == Init /\ [][Next]_vars
=============================================================================
