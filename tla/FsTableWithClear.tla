--------------------------- MODULE FsTableWithClear ---------------------------
(***************************************************************************)
(* fs.c with its second delete, fs_delete (fs.c:364-383), offered next to  *)
(* the calls FsTable models.  It clears a slot in place: it does not       *)
(* compact the table or renumber any parent_index, and it does not check   *)
(* for children.  Nothing in the repository calls it, and fs.h does not    *)
(* declare it.  spec.md 9 records it as the inconsistent second delete      *)
(* path.  This module shows what the table comes to if it is called.        *)
(***************************************************************************)
EXTENDS FsTable

FILE_TYPE_NONE == "none"

\* fs.c:364-383 (fs_save is an empty stub)
fs_delete(p) ==
    LET idx == fs_parse_path(p)
    IN /\ op' = "rm" /\ buf' = <<>>
       /\ \/ /\ idx <= 0
             /\ ret' = -1
             /\ UNCHANGED <<files, file_count>>
          \/ /\ idx > 0
             /\ files' = [files EXCEPT ![idx] = [name |-> "", type |-> FILE_TYPE_NONE,
                                                 parent |-> -1, data |-> <<>>]]
             /\ ret' = 0
             /\ UNCHANGED file_count

NextWithClear == Next \/ \E p \in Paths : fs_delete(p)

SpecWithClear == Init /\ [][NextWithClear]_vars

\* The slots below file_count that hold an entry.
Live == {i \in Slots : files[i].type # FILE_TYPE_NONE}

(* spec.md 3 and 9: the parent of every entry in the table is a directory   *)
(* that is still in the table.  fs_delete clears a directory's slot without *)
(* looking for the entries whose parent_index points at it.                 *)
NoOrphans ==
    \A i \in Live \ {0} : files[i].parent \in Live /\ files[files[i].parent].type = FILE_TYPE_DIR
==============================================================================
