------------------------------ MODULE NameTree ------------------------------
(***************************************************************************)
(* What the file system promises start-up: a tree of names that only       *)
(* grows.  The first file or directory of a name keeps it; one created     *)
(* over it is answered with success and is not found.  A call that fails   *)
(* changes nothing.  Vfs (kernel/src/fs) implements it.                    *)
(***************************************************************************)
EXTENDS Integers, Sequences

CONSTANTS NoName,   \* what a path without names gives its node
          FileContent,
          Empty,    \* the content of a directory, and of a file nothing was written to
          Reads,    \* the names a name may be stored as: itself, and more
          LongName, \* the names that are refused
          SUCCESS, UNIMPLEMENTED, NAME_LIMIT, FILE_NOT_FOUND, OUT_OF_MEMORY

VARIABLES tree, \* from sequences of names to kind and content
          ret   \* the last call: operation, path, the name a new node got, answer

vars == <<tree, ret>>

Answer(op, path, name, res) == ret' = [op |-> op, path |-> path, name |-> name, res |-> res]

IsDir(p) == p \in DOMAIN tree /\ tree[p].kind = "INODE_DIR"

\* What looking p up answers: the part of p that is there ends in p itself, in a
\* file, or in a directory without the next name.
Find(p) ==
  LET there == {k \in 0 .. Len(p) : SubSeq(p, 1, k) \in DOMAIN tree}
      k == CHOOSE i \in there : \A j \in there : j <= i
  IN  IF k = Len(p) THEN SUCCESS
      ELSE IF IsDir(SubSeq(p, 1, k)) THEN FILE_NOT_FOUND ELSE UNIMPLEMENTED

Init == tree = << >> /\ ret.op = "none"

Mount ==
  /\ tree = << >>
  /\ \/ tree' = [p \in {<<>>} |-> [kind |-> "INODE_DIR", content |-> Empty]] /\ ret'.res = SUCCESS
     \/ UNCHANGED tree /\ ret'.res = OUT_OF_MEMORY
  /\ ret'.op = "mount"

Lookup(p) == ret'.op = "lookup" /\ Answer("lookup", p, NoName, Find(p)) /\ UNCHANGED tree

Parent(p) == IF p = <<>> THEN <<>> ELSE SubSeq(p, 1, Len(p) - 1)
NameOf(p) == IF p = <<>> THEN NoName ELSE p[Len(p)]

\* Nothing is created below what is not a directory.
CreateAstray(p) ==
  /\ ~IsDir(Parent(p))
  /\ Answer("create", p, NoName, IF Find(Parent(p)) = SUCCESS THEN UNIMPLEMENTED ELSE Find(Parent(p)))
  /\ UNCHANGED tree

CreateRefused(p) ==
  /\ \E e \in {OUT_OF_MEMORY} \cup (IF NameOf(p) \in LongName THEN {NAME_LIMIT} ELSE {}) :
       Answer("create", p, NoName, e)
  /\ IsDir(Parent(p))
  /\ UNCHANGED tree

Create(p, kind, content) ==
  /\ NameOf(p) \notin LongName
  /\ \E m \in Reads[NameOf(p)] :
       /\ Answer("create", p, m, SUCCESS)
       /\ IsDir(Parent(p))
       /\ LET new == Append(Parent(p), m)
          IN  tree' = [q \in DOMAIN tree \cup {new} |->
                         IF q \in DOMAIN tree THEN tree[q] ELSE [kind |-> kind, content |-> content]]

Next ==
  \/ Mount
  \/ /\ tree # << >>
     /\ LET p == ret'.path
        IN  \/ Lookup(p) \/ CreateAstray(p) \/ CreateRefused(p)
            \/ Create(p, "INODE_DIR", Empty)
            \/ \E content \in FileContent : Create(p, "INODE_FILE", content)

Spec == Init /\ [][Next]_vars
=============================================================================
