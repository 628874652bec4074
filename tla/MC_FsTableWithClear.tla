------------------------ MODULE MC_FsTableWithClear ------------------------
(* The constants of MC_FsTable, with fs_delete added to the calls. *)
EXTENDS MC_FsTable, FsTableWithClear
=============================================================================
