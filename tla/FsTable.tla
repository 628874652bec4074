------------------------------- MODULE FsTable -------------------------------
(***************************************************************************)
(* The FoxOS in-memory file table, src/src/fs.c.                           *)
(*                                                                         *)
(* files[0 .. file_count-1] are the occupied slots of the static array    *)
(* files[MAX_FILES]; a slot is a record with the fields of file_t.  The   *)
(* bytes of a file are kept as the sequence data[0 .. size-1]; the bytes  *)
(* past size, and the slots past file_count, are never read back by any   *)
(* operation (fs_read clamps to size, every index used comes from         *)
(* fs_parse_path, which only returns occupied slots), so they are not     *)
(* part of the state.  fs_save is a no-op and is left out.                 *)
(*                                                                         *)
(* op, ret and buf are what the last call returned to its caller: its     *)
(* name, its int result, and what it put into the caller's buffer.        *)
(*                                                                         *)
(* A path is the '/'-separated segments of the C string (see              *)
(* AbstractNamespace); callers always pass absolute paths.                 *)
(***************************************************************************)
EXTENDS Integers, Sequences, SequencesExt, FiniteSets, Functions

CONSTANTS
    Names,          \* the non-empty names a path segment can be
    NameLen,        \* NameLen[n]: strlen of name n
    Bytes,          \* byte values written to files
    MAX_FILES, MAX_FILE_SIZE, MAX_FILENAME,
    Paths,          \* absolute paths passed in by callers
    Inputs,         \* byte strings passed to fs_write
    ReadSizes,      \* buffer sizes passed to fs_read
    ListBufSize     \* buffer_size passed to fs_list_dir

ASSUME \A p \in Paths : Len(p) >= 2 /\ p[1] = ""
ASSUME \A n \in Names : NameLen[n] \in 1..(MAX_FILENAME - 1)

VARIABLES files, file_count, op, ret, buf

vars == <<files, file_count, op, ret, buf>>

FILE_TYPE_FILE == "file"
FILE_TYPE_DIR  == "dir"

Entry == [name : Names \cup {""}, type : {FILE_TYPE_FILE, FILE_TYPE_DIR},
          parent : Nat, data : Seq(Bytes)]

Slots == 0 .. (file_count - 1)

------------------------------------------------------------------------------
(* Path resolution: get_next_path_component, fs_parse_path.               *)

\* The components get_next_path_component hands back, empty ones skipped.
Components(p) == SelectSeq(p, LAMBDA s : s # "")

\* The first occupied slot that is a child of dir named name, or -1.
Lookup(dir, name) ==
    LET m == {i \in Slots : files[i].parent = dir /\ files[i].name = name}
    IN IF m = {} THEN -1 ELSE Min(m)

RECURSIVE Walk(_, _)
Walk(cur, comps) ==
    IF comps = <<>> THEN cur
    ELSE LET found == Lookup(cur, Head(comps))
         IN IF found = -1 THEN -1 ELSE Walk(found, Tail(comps))

\* "" and "/" resolve to the root before any lookup.
fs_parse_path(p) ==
    IF p \in {<<"">>, <<"", "">>} THEN 0 ELSE Walk(0, Components(p))

\* fs_mkdir / fs_create: everything before the last '/' ("/" if that is
\* empty) and everything after it.
ParentPath(p) == IF Front(p) = <<"">> THEN <<"", "">> ELSE Front(p)
LeafName(p) == Last(p)

------------------------------------------------------------------------------
(* Entry lifecycle.                                                        *)

Init ==
    /\ files = (0 :> [name |-> "", type |-> FILE_TYPE_DIR, parent |-> 0,
                      data |-> <<>>])
    /\ file_count = 1
    /\ op = "init"
    /\ ret = 0
    /\ buf = <<>>

HasChild(d) == \E i \in Slots : files[i].parent = d

\* Mutant of CreateRejected: the duplicate-name scan is missing.
CreateRejectedNoNameCheck(name, parent_index) ==
    \/ file_count >= MAX_FILES
    \/ parent_index >= MAX_FILES
    \/ parent_index < MAX_FILES /\ files[parent_index].type # FILE_TYPE_DIR

\* The early returns of fs_create_file.
CreateRejected(name, parent_index) ==
    \/ file_count >= MAX_FILES
    \/ parent_index >= MAX_FILES
    \/ parent_index < MAX_FILES /\ files[parent_index].type # FILE_TYPE_DIR
    \/ \E i \in Slots : files[i].parent = parent_index /\ files[i].name = name

fs_create_file(name, type, parent_index) ==
    \/ /\ CreateRejected(name, parent_index)
       /\ ret' = -1
       /\ UNCHANGED <<files, file_count>>
    \/ /\ ~CreateRejected(name, parent_index)
       /\ files' = files @@ (file_count :> [name |-> name, type |-> type,
                                            parent |-> parent_index,
                                            data |-> <<>>])
       /\ file_count' = file_count + 1
       /\ ret' = file_count

\* fs_mkdir and fs_create: split, resolve the parent, create the leaf.
CreateByPath(p, type) ==
    LET parent_index == fs_parse_path(ParentPath(p))
    IN \/ /\ LeafName(p) = "" \/ parent_index < 0
          /\ ret' = -1
          /\ UNCHANGED <<files, file_count>>
       \/ /\ LeafName(p) # "" /\ parent_index >= 0
          /\ fs_create_file(LeafName(p), type, parent_index)

fs_mkdir(p) ==
    /\ op' = "mkdir" /\ buf' = <<>>
    /\ CreateByPath(p, FILE_TYPE_DIR)

fs_create(p) ==
    /\ op' = "create" /\ buf' = <<>>
    /\ CreateByPath(p, FILE_TYPE_FILE)

\* Mutant of ShiftDown: the entries are moved but no parent_index is
\* renumbered.
ShiftDownNoRenumber(f, i) == [f EXCEPT ![i] = f[i + 1]]

\* One pass of the outer loop of fs_delete_file: slot i takes the entry
\* of slot i+1, then every slot whose parent_index exceeds i has it
\* decremented.
ShiftDown(f, i) ==
    LET g == [f EXCEPT ![i] = f[i + 1]]
    IN [j \in DOMAIN g |-> IF g[j].parent > i
                           THEN [g[j] EXCEPT !.parent = @ - 1] ELSE g[j]]

RECURSIVE Compact(_, _, _)
Compact(f, i, last) ==
    IF i >= last THEN f ELSE Compact(ShiftDown(f, i), i + 1, last)

\* Mutant of DeleteRejected: the non-empty-directory check is missing.
DeleteRejectedRootOnly(index) == index <= 0

DeleteRejected(index) ==
    \/ index <= 0
    \/ index > 0 /\ files[index].type = FILE_TYPE_DIR /\ HasChild(index)

fs_delete_file(p) ==
    LET index == fs_parse_path(p)
    IN /\ op' = "rm" /\ buf' = <<>>
       /\ \/ /\ DeleteRejected(index)
             /\ ret' = -1
             /\ UNCHANGED <<files, file_count>>
          \/ /\ ~DeleteRejected(index)
             /\ files' = Restrict(Compact(files, index, file_count - 1),
                                  0 .. (file_count - 2))
             /\ file_count' = file_count - 1
             /\ ret' = 0

------------------------------------------------------------------------------
(* Content and listing.                                                    *)

NotAFile(index) == index < 0 \/ (index >= 0 /\ files[index].type # FILE_TYPE_FILE)

\* Mutant of fs_write: the clamp to MAX_FILE_SIZE is missing.
fs_write_unclamped(p, in) ==
    LET index == fs_parse_path(p)
    IN /\ op' = "write" /\ buf' = <<>>
       /\ UNCHANGED file_count
       /\ \/ NotAFile(index) /\ ret' = -1 /\ UNCHANGED files
          \/ /\ ~NotAFile(index)
             /\ files' = [files EXCEPT ![index].data = in]
             /\ ret' = Len(in)

fs_write(p, in) ==
    LET index == fs_parse_path(p)
        size  == IF Len(in) > MAX_FILE_SIZE THEN MAX_FILE_SIZE ELSE Len(in)
    IN /\ op' = "write" /\ buf' = <<>>
       /\ UNCHANGED file_count
       /\ \/ NotAFile(index) /\ ret' = -1 /\ UNCHANGED files
          \/ /\ ~NotAFile(index)
             /\ files' = [files EXCEPT ![index].data = SubSeq(in, 1, size)]
             /\ ret' = size

fs_read(p, size) ==
    LET index == fs_parse_path(p)
    IN /\ op' = "read"
       /\ UNCHANGED <<files, file_count>>
       /\ \/ NotAFile(index) /\ ret' = -1 /\ buf' = <<>>
          \/ /\ ~NotAFile(index)
             /\ LET stored == files[index].data
                    k == IF size > Len(stored) THEN Len(stored) ELSE size
                IN ret' = k /\ buf' = SubSeq(stored, 1, k)

\* Characters one listed entry takes: its name, '/' for a directory, '\n'.
EntryChars(e) ==
    (IF e.name = "" THEN 0 ELSE NameLen[e.name])
    + (IF e.type = FILE_TYPE_DIR THEN 2 ELSE 1)

\* The loop of fs_list_dir from slot i on, used characters already
\* written; it stops once fewer than MAX_FILENAME + 3 remain.
RECURSIVE ListFrom(_, _, _)
ListFrom(d, i, used) ==
    IF i >= file_count THEN <<>>
    ELSE IF files[i].parent # d THEN ListFrom(d, i + 1, used)
    ELSE IF ListBufSize - used < MAX_FILENAME + 3 THEN <<>>
    ELSE << [name |-> files[i].name, type |-> files[i].type] >>
         \o ListFrom(d, i + 1, used + EntryChars(files[i]))

ListRejected(d) ==
    d < 0 \/ d >= MAX_FILES \/ (d \in 0 .. (MAX_FILES - 1) /\ files[d].type # FILE_TYPE_DIR)

\* Slot 0 is skipped, so the loop starts at 1.
fs_list_dir(p) ==
    LET d == fs_parse_path(p)
    IN /\ op' = "ls"
       /\ UNCHANGED <<files, file_count>>
       /\ \/ ListRejected(d) /\ ret' = -1 /\ buf' = <<>>
          \/ /\ ~ListRejected(d)
             /\ LET out == ListFrom(d, 1, 0) IN ret' = Len(out) /\ buf' = out

Next ==
    \E p \in Paths :
        \/ fs_mkdir(p) \/ fs_create(p) \/ fs_delete_file(p) \/ fs_list_dir(p)
        \/ \E in \in Inputs : fs_write(p, in)
        \/ \E n \in ReadSizes : fs_read(p, n)

Spec == Init /\ [][Next]_vars

------------------------------------------------------------------------------
(* Properties.                                                             *)

TableTypeOK ==
    /\ file_count \in 1 .. MAX_FILES
    /\ DOMAIN files = Slots
    /\ \A i \in Slots : files[i] \in Entry
                         /\ Len(files[i].data) <= MAX_FILE_SIZE

TypeOK ==
    /\ TableTypeOK
    /\ op \in {"init", "mkdir", "create", "rm", "write", "read", "ls"}
    /\ ret \in Int

\* spec.md 3: every occupied entry's parent_index is an occupied
\* directory slot, and the root is slot 0, a directory that is its own
\* parent.  fs_delete_file renumbers parent_index in place while it shifts
\* the table, so this relates the indices left behind by a compaction to
\* the entries that moved.
ParentIsDirectory ==
    /\ files[0].type = FILE_TYPE_DIR /\ files[0].parent = 0
    /\ \A i \in Slots \ {0} :
          /\ files[i].parent \in Slots
          /\ files[files[i].parent].type = FILE_TYPE_DIR

\* spec.md 3: no two entries under the same directory share a name.
\* fs_create_file checks it on creation only; a compaction that
\* re-parents an entry could break it later.
SiblingNamesUnique ==
    \A i, j \in Slots \ {0} :
        i # j /\ files[i].parent = files[j].parent => files[i].name # files[j].name

\* The path of slot i, read off the parent_index chain (bounded by the
\* table size so that a corrupted chain cannot loop).
RECURSIVE PathFrom(_, _)
PathFrom(i, fuel) ==
    IF i = 0 \/ fuel = 0 THEN <<>>
    ELSE Append(PathFrom(files[i].parent, fuel - 1), files[i].name)

PathOf(i) == PathFrom(i, file_count)

\* Refinement mapping: the namespace the table stands for, and what the
\* caller saw (a created entry's index is abstracted to 0, a listing in
\* table order to the set of its items).
AbsNs ==
    LET path == [i \in Slots \ {0} |-> PathOf(i)]
        slot(q) == files[CHOOSE i \in DOMAIN path : path[i] = q]
    IN [q \in Range(path) |-> [type |-> slot(q).type, data |-> slot(q).data]]

AbsRet == IF op \in {"mkdir", "create"} /\ ret >= 0 THEN 0 ELSE ret
AbsBuf == IF op = "ls" THEN ToSet(buf) ELSE buf

Abs == INSTANCE AbstractNamespace
           WITH ns <- AbsNs, ret <- AbsRet, buf <- AbsBuf

\* Every sequence of fs.c calls is one the abstract namespace allows:
\* each call succeeds or fails exactly as the namespace says, creations,
\* deletions and writes change the same paths, reads return the bytes last
\* written to that path (after any number of compactions moved its slot),
\* and a listing returns every child.
NamespaceRefinement == Abs!Spec

==============================================================================
