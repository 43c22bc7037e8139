--------------------------------- MODULE Vfs ---------------------------------
(***************************************************************************)
(* The file system as start-up uses it: the directories of fs/tmpfs.c, the *)
(* paths of fs/vfs.c, the extraction of the initial archive (fs/tar.c) and *)
(* the calls kmain makes, in its order.  Files are written whole; TmpfsFile *)
(* has the detail.                                                         *)
(*                                                                         *)
(* A path is a sequence of names and slashes without two names in a row;   *)
(* vfs_path_from_abs gives it a slash first.  cache_alloc and vmalloc may  *)
(* fail at any call.  What vmalloc returns is not cleared, and tmpfs_create *)
(* stores a name without its NUL: Reads[n] are the names that n may read   *)
(* as from then on.                                                        *)
(***************************************************************************)
EXTENDS Integers, Sequences, FiniteSetsExt, Err

CONSTANTS Name,       \* with NoName, the empty one, which no path holds
          NoName,
          LongName,   \* those of TMPFS_MAX_NAME_LEN and more
          Reads,
          FileContent, \* what is in the files of the archive
          Empty,
          HeaderPath, \* "/" and the name, of the headers of the archive
          InitrdPath, \* "/initrd"
          WantedPath, \* what kmain looks up at last
          EntriesFit, \* how many entries fit in the page of a directory, 511
          MaxInodes   \* bound on the inodes

Slash == "/"

ASSUME VfsAssumption ==
  /\ NoName \in Name /\ LongName \subseteq Name /\ Slash \notin Name
  /\ \A n \in Name : n \in Reads[n] /\ Reads[n] \subseteq Name
  /\ Empty \in FileContent
  /\ \A path \in HeaderPath \cup WantedPath \cup {InitrdPath} :
       /\ path \in Seq((Name \ {NoName}) \cup {Slash}) /\ path # <<>> /\ path[1] = Slash
       /\ \A k \in DOMAIN path : k > 1 => path[k] = Slash \/ path[k - 1] = Slash
  /\ EntriesFit \in Nat /\ MaxInodes \in Nat

VARIABLES inode,    \* the inodes with their private parts, in the order they were made
          vfs_root, \* NoRoot, or the root's place in inode
          pc,       \* where kmain is
          answer    \* of the last call, with its arguments, as NameTree's ret

fsVars == <<inode, vfs_root, pc, answer>>

NoRoot == 0 \* vfs_root is NULL

Errors == {UNIMPLEMENTED, NAME_LIMIT, FILE_NOT_FOUND, OUT_OF_MEMORY}

NewInode(kind, name, content) ==
  [kind |-> kind, name |-> name, entries |-> <<>>, content |-> content]

FsInit ==
  /\ inode = <<>>
  /\ vfs_root = NoRoot
  /\ pc = "mount"
  /\ answer = [op |-> "none", path |-> <<>>, name |-> NoName, res |-> SUCCESS]

Answer(op, path, name, res) == answer' = [op |-> op, path |-> path, name |-> name, res |-> res]
-----------------------------------------------------------------------------
(* Paths.                                                                  *)

\* The names on the way, as vfs_lookup meets them.
Components(path) ==
  LET names[k \in 0 .. Len(path)] ==
        IF k = 0 THEN <<>>
        ELSE IF path[k] = Slash THEN names[k - 1] ELSE Append(names[k - 1], path[k])
  IN  names[Len(path)]

\* Where basename_of_path and parent_path stop: at the last name, past trailing
\* slashes, and at the slash before it.
End(path) == Max({1} \cup {k \in DOMAIN path : path[k] # Slash})
SlashBefore(path) == Max({k \in 1 .. End(path) : path[k] = Slash})

\* Mutated form of ParentPath: trailing slashes are not skipped.
ParentPathTrailing(path) == SubSeq(path, 1, Max({k \in DOMAIN path : path[k] = Slash}))

ParentPath(path) == SubSeq(path, 1, SlashBefore(path))
Basename(path) == IF SlashBefore(path) = End(path) THEN NoName ELSE path[End(path)]

\* tmpfs_lookup: the entries of d whose name this is, in a table of inodes.
Entries(inodes, d, name) ==
  {k \in DOMAIN inodes[d].entries : inodes[inodes[d].entries[k]].name = name}

\* inode_lookup and tmpfs_lookup: the first entry of the name.  Errors are passed on.
Step(inodes, at, name) ==
  IF at \notin DOMAIN inodes THEN at
  ELSE IF inodes[at].kind = "INODE_FILE" THEN UNIMPLEMENTED
  ELSE IF Entries(inodes, at, name) = {} THEN FILE_NOT_FOUND
  ELSE inodes[at].entries[Min(Entries(inodes, at, name))]

\* Where the names lead from root.
Walk(inodes, root, names) ==
  LET at[k \in 0 .. Len(names)] ==
        IF k = 0 THEN root ELSE Step(inodes, at[k - 1], names[k])
  IN  at[Len(names)]

\* vfs_lookup: the inode, or an error.
Lookup(path) == Walk(inode, vfs_root, Components(path))

VfsLookup(path) ==
  Answer("lookup", Components(path), NoName, IF Lookup(path) > 0 THEN SUCCESS ELSE Lookup(path))
-----------------------------------------------------------------------------
(* vfs_create.  kmain goes on at then after a success, else at otherwise.  *)

\* The parent is not there, or is a file.
CreateAstray(path, otherwise) ==
  LET parent == Lookup(ParentPath(path))
  IN  /\ parent \in Errors \/ (parent \in DOMAIN inode /\ inode[parent].kind = "INODE_FILE")
      /\ Answer("create", Components(path), NoName,
                IF parent \in Errors THEN parent ELSE UNIMPLEMENTED)
      /\ pc' = otherwise
      /\ UNCHANGED <<inode, vfs_root>>

ParentDir(path) ==
  {d \in DOMAIN inode : d = Lookup(ParentPath(path)) /\ inode[d].kind = "INODE_DIR"}

\* No memory for the directory's page or for the inode.  When it is the private part
\* that finds none, the inode is given to cache_free, which breaks inode_cache's
\* lists (Slab): nothing is known from there on.
CreateOutOfMemory(path, otherwise) ==
  /\ ParentDir(path) # {}
  /\ Answer("create", Components(path), NoName, OUT_OF_MEMORY)
  /\ pc' \in {otherwise, "unknown"}
  /\ UNCHANGED <<inode, vfs_root>>

\* The inode was made, and is lost.
CreateNameLimit(path, kind, otherwise) ==
  /\ ParentDir(path) # {} /\ Basename(path) \in LongName
  /\ inode' = Append(inode, NewInode(kind, NoName, Empty))
  /\ Answer("create", Components(path), NoName, NAME_LIMIT)
  /\ pc' = otherwise
  /\ UNCHANGED vfs_root

\* tmpfs_create goes on to the next page only after MAX_ENTRIES_PER_DATA_CHUNK
\* entries, 4095: the one after EntriesFit is stored past the page.
CreatePastPage(path) ==
  /\ \E d \in ParentDir(path) : Len(inode[d].entries) >= EntriesFit
  /\ Basename(path) \notin LongName
  /\ pc' = "unknown"
  /\ UNCHANGED <<inode, vfs_root, answer>>

\* dir_entires(chunk)[idx] = inode, for the inode about to be made.
WithEntry(d) == [inode EXCEPT ![d].entries = Append(@, Len(inode) + 1)]

\* The entry goes behind the others, whatever names they have.  content is what is
\* written to the inode that the call returns.
CreateEntry(path, kind, content, then) ==
  /\ Basename(path) \notin LongName
  /\ \E d \in ParentDir(path), name \in Reads[Basename(path)] :
       /\ Len(inode[d].entries) < EntriesFit
       /\ inode' = Append(WithEntry(d), NewInode(kind, name, content))
       /\ Answer("create", Components(path), name, SUCCESS)
  /\ pc' = then
  /\ UNCHANGED vfs_root

\* path->from is NULL when fs_mount failed, and is used.
Fault == /\ vfs_root = NoRoot
         /\ pc' = "fault"
         /\ UNCHANGED <<inode, vfs_root, answer>>

VfsCreate(path, kind, content, then, otherwise) ==
  /\ Len(inode) < MaxInodes
  /\ \/ Fault
     \/ CreateAstray(path, otherwise)
     \/ CreateOutOfMemory(path, otherwise)
     \/ CreateNameLimit(path, kind, otherwise)
     \/ CreatePastPage(path)
     \/ CreateEntry(path, kind, content, then)
-----------------------------------------------------------------------------
(* kmain.                                                                  *)

\* fs_mount(&tmpfs, &vfs_root); its answer is not looked at.
Mount ==
  /\ pc = "mount"
  /\ \/ /\ inode' = <<NewInode("INODE_DIR", NoName, Empty)>>
        /\ vfs_root' = 1
        /\ Answer("mount", <<>>, NoName, SUCCESS)
        /\ pc' = "initrd"
     \/ /\ Answer("mount", <<>>, NoName, OUT_OF_MEMORY)
        /\ pc' \in {"initrd", "unknown"}
        /\ UNCHANGED <<inode, vfs_root>>

\* Its answer is not looked at either.
MakeInitrd == pc = "initrd" /\ VfsCreate(InitrdPath, "INODE_DIR", Empty, "extract", "extract")

\* One header of the archive: tar_extract stops at the first that cannot be created.
ExtractDir(path) == pc = "extract" /\ VfsCreate(path, "INODE_DIR", Empty, "extract", "lookup")

\* A file is created and its data written, whatever inode_write answers: when memory
\* runs out its length stays 0.
ExtractFile(path, content) ==
  /\ pc = "extract"
  /\ \E written \in {content, Empty} :
       VfsCreate(path, "INODE_FILE", written, "extract", "lookup")

\* The archive ends.
EndOfArchive == pc = "extract" /\ pc' = "lookup" /\ UNCHANGED <<inode, vfs_root, answer>>

LookUp(path) ==
  /\ pc = "lookup"
  /\ pc' = "loop"
  /\ VfsLookup(path)
  /\ UNCHANGED <<inode, vfs_root>>

FsNext ==
  \/ Mount \/ MakeInitrd \/ EndOfArchive
  \/ \E path \in HeaderPath :
       ExtractDir(path) \/ \E content \in FileContent : ExtractFile(path, content)
  \/ \E path \in WantedPath : LookUp(path)

FsSpec == FsInit /\ [][FsNext]_fsVars
-----------------------------------------------------------------------------
(* Properties.                                                             *)

\* What can be found from root, by the names on the way to it: a node more with each
\* turn, for which as many turns as there are inodes are enough.
Below(inodes, root, p) ==
  LET d == inodes[Walk(inodes, root, p)]
  IN  {Append(p, inodes[d.entries[k]].name) : k \in DOMAIN d.entries}
Found(inodes, root) ==
  LET within[n \in 0 .. Len(inodes)] ==
        IF n = 0 THEN {<<>>}
        ELSE within[n - 1] \cup UNION {Below(inodes, root, p) : p \in within[n - 1]}
  IN  within[Len(inodes)]
TreeOf(inodes, root) ==
  IF root = NoRoot THEN << >>
  ELSE [p \in Found(inodes, root) |->
          LET i == inodes[Walk(inodes, root, p)] IN [kind |-> i.kind, content |-> i.content]]

\* The directories, their entries with repeated, unreadable and refused names, and
\* the walks with and without trailing slashes are a tree of names: what was created
\* first under a name is what is found there for good, and the error tells why.
NameTreeSpec == INSTANCE NameTree WITH tree <- TreeOf(inode, vfs_root), ret <- answer
ImplementsTree == NameTreeSpec!Spec
=============================================================================
