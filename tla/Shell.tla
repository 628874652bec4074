-------------------------------- MODULE Shell --------------------------------
(***************************************************************************)
(* The file commands of the FoxOS shell, execute_command in               *)
(* src/src/terminal.c, over the file table of FsTable.                     *)
(*                                                                         *)
(* current_dir is the shell's current directory string, as its           *)
(* '/'-separated segments.  A command argument (arg1 of parse_args) is a *)
(* path string in the same form; <<"">> is the empty argument.  The      *)
(* commands that only print (help, clear, version, color, pwd, exit     *)
(* and the two test commands) change no state of the table or of        *)
(* current_dir and are left out; so is the line editor that feeds       *)
(* execute_command.                                                        *)
(***************************************************************************)
EXTENDS FsTable

CONSTANTS
    Args,           \* arguments typed after a command
    MAX_ARG_LEN     \* the longest argument a line of the editor can hold

VARIABLES current_dir, full_path_len   \* strlen of execute_command's full_path

shellVars == <<files, file_count, op, ret, buf, current_dir, full_path_len>>

Root == <<"", "">>     \* the string "/"

\* build_path: an absolute argument is taken as is; otherwise it is
\* appended to current_dir, with a '/' between them unless current_dir
\* is exactly "/".
BuildPath(arg) ==
    IF arg[1] = "" THEN arg
    ELSE IF current_dir = Root THEN <<"">> \o arg
    ELSE current_dir \o arg

\* strlen of a path string: a '/' before every segment but the first,
\* and the characters of each name.
SegLen(x) == IF x = "" THEN 0 ELSE NameLen[x]
PathLen(p) == (Len(p) - 1) + FoldLeft(LAMBDA acc, x : acc + SegLen(x), 0, p)

\* The full_path the command built: build_path's result (terminal.c:96-106).
Built(arg) == full_path_len' = PathLen(BuildPath(arg))

ShellInit == Init /\ current_dir = Root /\ full_path_len = 0

\* mkdir: fs_mkdir on the built path.
CmdMkdir(arg) ==
    /\ arg # <<"">>
    /\ fs_mkdir(BuildPath(arg)) /\ Built(arg)
    /\ UNCHANGED current_dir

\* touch: its own split of the built path at the last '/', then
\* fs_create_file with whatever follows that '/', empty or not.
CmdTouch(arg) ==
    LET full == BuildPath(arg)
        parent_index == fs_parse_path(ParentPath(full))
    IN /\ arg # <<"">> /\ Built(arg)
       /\ op' = "touch" /\ buf' = <<>>
       /\ UNCHANGED current_dir
       /\ \/ /\ parent_index >= 0
             /\ fs_create_file(LeafName(full), FILE_TYPE_FILE, parent_index)
          \/ /\ parent_index < 0
             /\ ret' = -1
             /\ UNCHANGED <<files, file_count>>

\* rm: fs_delete_file on the built path.
CmdRm(arg) ==
    /\ arg # <<"">>
    /\ fs_delete_file(BuildPath(arg)) /\ Built(arg)
    /\ UNCHANGED current_dir

\* Mutant of CmdCd: the typed argument is stored instead of the built
\* path.
CmdCdStoresArg(arg) ==
    LET full == BuildPath(arg)
        index == fs_parse_path(full)
        isDir == index >= 0 /\ files[index].type = FILE_TYPE_DIR
    IN /\ op' = "cd" /\ buf' = <<>>
       /\ UNCHANGED <<files, file_count>>
       /\ \/ arg = <<"">> /\ current_dir' = Root /\ ret' = 0 /\ full_path_len' = 0
          \/ arg # <<"">> /\ Built(arg) /\ isDir /\ current_dir' = arg /\ ret' = 0
          \/ arg # <<"">> /\ Built(arg) /\ ~isDir /\ ret' = -1 /\ UNCHANGED current_dir

\* cd: no argument goes to "/"; otherwise the built path becomes
\* current_dir if it resolves to a directory.
CmdCd(arg) ==
    LET full == BuildPath(arg)
        index == fs_parse_path(full)
        isDir == index >= 0 /\ files[index].type = FILE_TYPE_DIR
    IN /\ op' = "cd" /\ buf' = <<>>
       /\ UNCHANGED <<files, file_count>>
       /\ \/ arg = <<"">> /\ current_dir' = Root /\ ret' = 0 /\ full_path_len' = 0
          \/ arg # <<"">> /\ Built(arg) /\ isDir /\ current_dir' = full /\ ret' = 0
          \/ arg # <<"">> /\ Built(arg) /\ ~isDir /\ ret' = -1 /\ UNCHANGED current_dir

\* ls: no argument copies current_dir to full_path and lists it.
CmdLs(arg) ==
    /\ fs_list_dir(IF arg = <<"">> THEN current_dir ELSE BuildPath(arg))
    /\ full_path_len' = IF arg = <<"">> THEN PathLen(current_dir) ELSE PathLen(BuildPath(arg))
    /\ UNCHANGED current_dir

\* parse_args copies arg1 out of input_buffer, which holds at most
\* TERMINAL_BUFFER_SIZE - 1 characters, the command word and a space
\* included (terminal.c:73-93, 385).
ShellNext ==
    \E arg \in {a \in Args : PathLen(a) <= MAX_ARG_LEN} :
        CmdMkdir(arg) \/ CmdTouch(arg) \/ CmdRm(arg) \/ CmdCd(arg) \/ CmdLs(arg)

ShellSpec == ShellInit /\ [][ShellNext]_shellVars

------------------------------------------------------------------------------
ShellTypeOK ==
    /\ TableTypeOK
    /\ op \in {"init", "mkdir", "touch", "rm", "cd", "ls"}
    /\ current_dir \in Seq(Names \cup {""})
    /\ Len(current_dir) >= 2 /\ current_dir[1] = ""
    /\ full_path_len \in Nat

\* spec.md 4.1: a path whose leaf name is empty is rejected (InvalidName),
\* so no entry but the root has an empty name.  fs_mkdir checks this;
\* touch hands last_slash + 1 to fs_create_file unchecked (terminal.c).
NoEmptyNames == \A i \in Slots \ {0} : files[i].name # ""

(* The shell's current directory names a directory of the table.  cd     *)
(* checks this when it stores the path (terminal.c:252-257).  Nothing      *)
(* checks it again: rm takes the directory the shell is in, or its parent  *)
(* once that is empty, and the relative paths of later commands are built  *)
(* on a path that names nothing, or that names a file or directory created *)
(* afterwards under the same name.                                         *)
CurrentDirIsDirectory ==
    LET i == fs_parse_path(current_dir)
    IN i >= 0 /\ files[i].type = FILE_TYPE_DIR

(* full_path and current_dir are char[MAX_FILENAME * 2] (terminal.c:19,  *)
(* 120).  build_path strcpy's current_dir into full_path and strcat's "/"  *)
(* and the argument onto it with no length check (terminal.c:96-106).      *)
(* The path it builds, with its terminating NUL, fits in the buffer.  A    *)
(* name may be MAX_FILENAME - 1 characters long (fs_mkdir's dir_name), so  *)
(* two levels of long names are enough to overflow it.                     *)
FullPathFits == full_path_len + 1 <= MAX_FILENAME * 2
==============================================================================
